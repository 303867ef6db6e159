----------------------------- MODULE ChainProofs -----------------------------
(***************************************************************************)
(* What the acceptance chain and the verification scripts leave behind,    *)
(* for any number of failing calls.  The scripts are data: a sequence of   *)
(* steps with blocks in it.  What is proved of them is therefore proved as *)
(* in a logic of programs, by assertions between the steps (Leads) that    *)
(* the state meets when the step is reached, and by one lemma per kind of  *)
(* step which says that the lab does what the assertions say.              *)
(***************************************************************************)
EXTENDS Governance, FiniteSetTheorems, TLAPS

(***************************************************************************)
(* Assertions between the steps of a script.  E is the set of assertions,  *)
(* R the steps <<e, step, f>> that lead from e to f.                       *)
(***************************************************************************)
Leads(E, R, e, s, f) ==
  \E plan \in [1..(Len(s) + 1) -> E] :
    /\ plan[1] = e /\ plan[Len(s) + 1] = f
    /\ \A i \in 1..Len(s) : <<plan[i], s[i], plan[i + 1]>> \in R

(* A script of no step, of one, of two parts; its first step; more steps   *)
(* allowed; the same assertion all along.                                  *)
LEMMA LeadsNowhere ==
  ASSUME NEW E, NEW R, NEW e, NEW f
  PROVE  Leads(E, R, e, <<>>, f) <=> e = f /\ e \in E
<1>1. ASSUME Leads(E, R, e, <<>>, f)
      PROVE  e = f /\ e \in E
  BY <1>1 DEF Leads
<1>2. ASSUME e = f, e \in E
      PROVE  Leads(E, R, e, <<>>, f)
  <2> DEFINE plan == [i \in 1..(Len(<<>>) + 1) |-> e]
  <2>1. plan \in [1..(Len(<<>>) + 1) -> E] /\ plan[1] = e /\ plan[Len(<<>>) + 1] = f
    BY <1>2
  <2>2. 1..Len(<<>>) = {}
    OBVIOUS
  <2> HIDE DEF plan
  <2> QED BY <2>1, <2>2 DEF Leads
<1> QED BY <1>1, <1>2

LEMMA LeadsOne ==
  ASSUME NEW E, NEW R, NEW e \in E, NEW f \in E, NEW a, <<e, a, f>> \in R
  PROVE  Leads(E, R, e, <<a>>, f)
<1> DEFINE plan == [i \in 1..2 |-> IF i = 1 THEN e ELSE f]
<1>1. plan \in [1..2 -> E] /\ plan[1] = e /\ plan[2] = f /\ Len(<<a>>) + 1 = 2
  OBVIOUS
<1> HIDE DEF plan
<1>2. \A i \in 1..Len(<<a>>) : i = 1 /\ <<a>>[i] = a /\ plan[i] = e /\ plan[i + 1] = f
  BY <1>1
<1> QED BY <1>1, <1>2 DEF Leads

LEMMA LeadsOn ==
  ASSUME NEW E, NEW R, NEW S, NEW s \in Seq(S), NEW t \in Seq(S), NEW e, NEW m, NEW f,
         Leads(E, R, e, s, m), Leads(E, R, m, t, f)
  PROVE  Leads(E, R, e, s \o t, f)
<1>1. PICK p \in [1..(Len(s) + 1) -> E] :
        /\ p[1] = e /\ p[Len(s) + 1] = m
        /\ \A i \in 1..Len(s) : <<p[i], s[i], p[i + 1]>> \in R
  BY DEF Leads
<1>2. PICK q \in [1..(Len(t) + 1) -> E] :
        /\ q[1] = m /\ q[Len(t) + 1] = f
        /\ \A i \in 1..Len(t) : <<q[i], t[i], q[i + 1]>> \in R
  BY DEF Leads
<1>3. /\ Len(s) \in Nat /\ Len(t) \in Nat /\ Len(s \o t) = Len(s) + Len(t)
      /\ \A i \in 1..Len(s) : (s \o t)[i] = s[i]
      /\ \A i \in 1..Len(t) : (s \o t)[Len(s) + i] = t[i]
  OBVIOUS
<1> DEFINE plan == [i \in 1..(Len(s) + Len(t) + 1) |->
                     IF i <= Len(s) THEN p[i] ELSE q[i - Len(s)]]
<1>4. plan \in [1..(Len(s \o t) + 1) -> E]
  BY <1>3
<1>5. plan[1] = e /\ plan[Len(s \o t) + 1] = f
  BY <1>1, <1>2, <1>3
<1>6. ASSUME NEW i \in 1..Len(s \o t)
      PROVE  <<plan[i], (s \o t)[i], plan[i + 1]>> \in R
  <2>0. i \in Nat /\ 1 <= i /\ i <= Len(s) + Len(t)
    BY <1>3
  <2>1. CASE i < Len(s)
    <3>1. i \in 1..Len(s) /\ plan[i] = p[i] /\ plan[i + 1] = p[i + 1] /\ (s \o t)[i] = s[i]
      BY <1>3, <2>1
    <3> QED BY <1>1, <3>1
  <2>2. CASE i = Len(s)
    <3>1. i \in 1..Len(s) /\ plan[i] = p[i] /\ plan[i + 1] = q[1] /\ (s \o t)[i] = s[i]
      BY <1>3, <2>2
    <3> QED BY <1>1, <1>2, <2>2, <3>1
  <2>3. CASE i > Len(s)
    <3>1. i - Len(s) \in 1..Len(t) /\ i = Len(s) + (i - Len(s))
      BY <1>3, <2>0, <2>3
    <3>2. PICK j \in 1..Len(t) : i = Len(s) + j
      BY <3>1
    <3>3. plan[i] = q[j] /\ plan[i + 1] = q[j + 1] /\ (s \o t)[i] = t[j]
      BY <1>3, <3>2
    <3> QED BY <1>2, <3>3
  <2>4. i < Len(s) \/ i = Len(s) \/ i > Len(s)
    BY <1>3, <2>0
  <2> QED BY <2>1, <2>2, <2>3, <2>4
<1> HIDE DEF plan
<1> QED BY <1>4, <1>5, <1>6 DEF Leads

LEMMA LeadsFirst ==
  ASSUME NEW E, NEW R, NEW S, NEW s \in Seq(S), NEW e, NEW f, s # <<>>, Leads(E, R, e, s, f)
  PROVE  \E m \in E : <<e, Head(s), m>> \in R /\ Leads(E, R, m, Tail(s), f)
<1>1. PICK p \in [1..(Len(s) + 1) -> E] :
        /\ p[1] = e /\ p[Len(s) + 1] = f
        /\ \A i \in 1..Len(s) : <<p[i], s[i], p[i + 1]>> \in R
  BY DEF Leads
<1>2. /\ Len(s) \in Nat \ {0} /\ Len(Tail(s)) = Len(s) - 1 /\ Head(s) = s[1]
      /\ \A i \in 1..Len(Tail(s)) : Tail(s)[i] = s[i + 1]
  OBVIOUS
<1> DEFINE plan == [i \in 1..Len(s) |-> p[i + 1]]
<1>3. plan \in [1..(Len(Tail(s)) + 1) -> E] /\ plan[1] = p[2] /\ plan[Len(Tail(s)) + 1] = f
  BY <1>1, <1>2
<1>4. ASSUME NEW i \in 1..Len(Tail(s))
      PROVE  <<plan[i], Tail(s)[i], plan[i + 1]>> \in R
  <2>1. i + 1 \in 1..Len(s) /\ plan[i] = p[i + 1] /\ plan[i + 1] = p[i + 1 + 1]
    BY <1>2
  <2> QED BY <1>1, <1>2, <2>1
<1>5. p[2] \in E /\ <<e, Head(s), p[2]>> \in R
  BY <1>1, <1>2
<1> HIDE DEF plan
<1>6. Leads(E, R, p[2], Tail(s), f)
  BY <1>3, <1>4 DEF Leads
<1> QED BY <1>5, <1>6

LEMMA LeadsMore ==
  ASSUME NEW E, NEW R, NEW Q, R \subseteq Q, NEW e, NEW s, NEW f, Leads(E, R, e, s, f)
  PROVE  Leads(E, Q, e, s, f)
BY DEF Leads

LEMMA LeadsSame ==
  ASSUME NEW E, NEW R, NEW e \in E, NEW S, NEW s \in Seq(S),
         \A i \in 1..Len(s) : <<e, s[i], e>> \in R
  PROVE  Leads(E, R, e, s, e)
<1> DEFINE plan == [i \in 1..(Len(s) + 1) |-> e]
<1>1. plan \in [1..(Len(s) + 1) -> E] /\ plan[1] = e /\ plan[Len(s) + 1] = e
  OBVIOUS
<1>2. \A i \in 1..Len(s) : <<plan[i], s[i], plan[i + 1]>> \in R
  OBVIOUS
<1> QED BY <1>1, <1>2 DEF Leads

(***************************************************************************)
(* A command under way: what is left of the block being run leads to the   *)
(* assertion behind it, and so does what each block around it has left.    *)
(* At the edges of blocks the assertion is one of J.                       *)
(***************************************************************************)
Closing(block) == IF block.always THEN block.cleanup ELSE <<>>
Left(frame) == Closing(frame) \o frame.rest

Proceeds(E, R, J, e, run, around, f) ==
  \E marks \in [1..(Len(around) + 1) -> J] :
    /\ Leads(E, R, e, run, marks[1]) /\ marks[Len(around) + 1] = f
    /\ \A i \in 1..Len(around) : Leads(E, R, marks[i], Left(around[i]), marks[i + 1])

Enter(S) == [do : {"enter"}, body : Seq(S), always : BOOLEAN, cleanup : Seq(S), caught : BOOLEAN]

Through(E, R, J, S) ==
  {x \in E \X Enter(S) \X E :
     /\ x[1] \in J
     /\ \E m \in J : Leads(E, R, x[1], x[2].body, m) /\ Leads(E, R, m, Closing(x[2]), x[3])}

Frames(S) == [rest : Seq(S), always : BOOLEAN, cleanup : Seq(S), caught : BOOLEAN]

(* A command that begins, one that is done, one that takes a step, leaves  *)
(* a block or enters one.                                                  *)
LEMMA ProceedsAtFirst ==
  ASSUME NEW E, NEW R, NEW J, NEW e, NEW s, NEW f \in J, Leads(E, R, e, s, f)
  PROVE  Proceeds(E, R, J, e, s, <<>>, f)
<1> DEFINE marks == [i \in 1..1 |-> f]
<1>1. marks \in [1..1 -> J] /\ marks[1] = f /\ Len(<<>>) = 0 /\ 1..Len(<<>>) = {}
  OBVIOUS
<1> HIDE DEF marks
<1>2. /\ marks \in [1..(Len(<<>>) + 1) -> J] /\ marks[Len(<<>>) + 1] = f
      /\ \A i \in 1..Len(<<>>) : Leads(E, R, marks[i], Left(<<>>[i]), marks[i + 1])
  BY <1>1
<1> QED BY <1>1, <1>2 DEF Proceeds

LEMMA ProceedsToEnd ==
  ASSUME NEW E, NEW R, NEW J, NEW e, NEW f, Proceeds(E, R, J, e, <<>>, <<>>, f)
  PROVE  e = f
<1>1. PICK marks \in [1..(Len(<<>>) + 1) -> J] :
        Leads(E, R, e, <<>>, marks[1]) /\ marks[Len(<<>>) + 1] = f
  BY DEF Proceeds
<1>2. Len(<<>>) + 1 = 1
  OBVIOUS
<1> QED BY <1>1, <1>2, LeadsNowhere

LEMMA ProceedsOn ==
  ASSUME NEW E, NEW R, NEW J, NEW S, NEW run \in Seq(S), NEW around, NEW e, NEW f,
         run # <<>>, Proceeds(E, R, J, e, run, around, f)
  PROVE  \E m \in E : <<e, Head(run), m>> \in R /\ Proceeds(E, R, J, m, Tail(run), around, f)
<1>1. PICK marks \in [1..(Len(around) + 1) -> J] :
        /\ Leads(E, R, e, run, marks[1]) /\ marks[Len(around) + 1] = f
        /\ \A i \in 1..Len(around) : Leads(E, R, marks[i], Left(around[i]), marks[i + 1])
  BY DEF Proceeds
<1>2. PICK m \in E : <<e, Head(run), m>> \in R /\ Leads(E, R, m, Tail(run), marks[1])
  BY <1>1, LeadsFirst
<1>3. Proceeds(E, R, J, m, Tail(run), around, f)
  BY <1>1, <1>2 DEF Proceeds
<1> QED BY <1>2, <1>3

LEMMA ProceedsOut ==
  ASSUME NEW E, NEW R, NEW J, NEW S, NEW around \in Seq(S), around # <<>>, NEW e, NEW f,
         Proceeds(E, R, J, e, <<>>, around, f)
  PROVE  e \in J /\ Proceeds(E, R, J, e, Left(Head(around)), Tail(around), f)
<1>1. PICK marks \in [1..(Len(around) + 1) -> J] :
        /\ Leads(E, R, e, <<>>, marks[1]) /\ marks[Len(around) + 1] = f
        /\ \A i \in 1..Len(around) : Leads(E, R, marks[i], Left(around[i]), marks[i + 1])
  BY DEF Proceeds
<1>2. /\ Len(around) \in Nat \ {0} /\ Len(Tail(around)) = Len(around) - 1
      /\ Head(around) = around[1]
      /\ \A i \in 1..Len(Tail(around)) : Tail(around)[i] = around[i + 1]
  OBVIOUS
<1>3. marks[1] = e /\ e \in J
  BY <1>1, <1>2, LeadsNowhere
<1> DEFINE rests == [i \in 1..Len(around) |-> marks[i + 1]]
<1>4. /\ rests \in [1..(Len(Tail(around)) + 1) -> J]
      /\ rests[1] = marks[2] /\ rests[Len(Tail(around)) + 1] = f
  BY <1>1, <1>2
<1>5. ASSUME NEW i \in 1..Len(Tail(around))
      PROVE  Leads(E, R, rests[i], Left(Tail(around)[i]), rests[i + 1])
  <2>1. i + 1 \in 1..Len(around) /\ rests[i] = marks[i + 1] /\ rests[i + 1] = marks[i + 1 + 1]
    BY <1>2
  <2> QED BY <1>1, <1>2, <2>1
<1>6. Leads(E, R, e, Left(Head(around)), marks[2])
  BY <1>1, <1>2, <1>3
<1> HIDE DEF rests
<1> QED BY <1>3, <1>4, <1>5, <1>6 DEF Proceeds

LEMMA ProceedsIn ==
  ASSUME NEW E, NEW R, NEW Q, Q \subseteq R, NEW J, NEW S, NEW T, NEW rest \in Seq(T),
         NEW around \in Seq(Frames(T)), NEW block \in Enter(S), S \subseteq T,
         NEW e, NEW m, NEW f,
         <<e, block, m>> \in Through(E, Q, J, S), Proceeds(E, R, J, m, rest, around, f)
  PROVE  LET frame == [rest |-> rest, always |-> block.always,
                       cleanup |-> block.cleanup, caught |-> block.caught]
         IN  e \in J /\ Proceeds(E, R, J, e, block.body, <<frame>> \o around, f)
<1> DEFINE frame == [rest |-> rest, always |-> block.always,
                     cleanup |-> block.cleanup, caught |-> block.caught]
<1>1. PICK marks \in [1..(Len(around) + 1) -> J] :
        /\ Leads(E, R, m, rest, marks[1]) /\ marks[Len(around) + 1] = f
        /\ \A i \in 1..Len(around) : Leads(E, R, marks[i], Left(around[i]), marks[i + 1])
  BY DEF Proceeds
<1>2. e \in J /\ \E n \in J : Leads(E, Q, e, block.body, n) /\ Leads(E, Q, n, Closing(block), m)
  BY DEF Through
<1>3. PICK n \in J : Leads(E, Q, e, block.body, n) /\ Leads(E, Q, n, Closing(block), m)
  BY <1>2
<1>4. Leads(E, R, e, block.body, n) /\ Leads(E, R, n, Closing(block), m)
  BY <1>3, LeadsMore
<1>5. Left(frame) = Closing(block) \o rest
  BY DEF Left, Closing
<1>6. Closing(block) \in Seq(T)
  BY DEF Closing, Enter
<1>7. Leads(E, R, n, Left(frame), marks[1])
  BY <1>1, <1>4, <1>5, <1>6, LeadsOn
<1> HIDE DEF frame
<1>8. /\ Len(around) \in Nat /\ Len(<<frame>> \o around) = Len(around) + 1
      /\ (<<frame>> \o around)[1] = frame
      /\ \A i \in 1..Len(around) : (<<frame>> \o around)[i + 1] = around[i]
  OBVIOUS
<1> DEFINE outer == [i \in 1..(Len(around) + 2) |-> IF i = 1 THEN n ELSE marks[i - 1]]
<1>9. /\ outer \in [1..(Len(<<frame>> \o around) + 1) -> J]
      /\ outer[1] = n /\ outer[Len(<<frame>> \o around) + 1] = f
      /\ outer[2] = marks[1]
      /\ \A i \in 1..Len(around) : outer[i + 1] = marks[i] /\ outer[i + 1 + 1] = marks[i + 1]
  BY <1>1, <1>8
<1> HIDE DEF outer
<1>10. ASSUME NEW i \in 1..Len(<<frame>> \o around)
       PROVE  Leads(E, R, outer[i], Left((<<frame>> \o around)[i]), outer[i + 1])
  <2>1. CASE i = 1
    BY <1>7, <1>8, <1>9, <2>1
  <2>2. CASE i # 1
    <3>1. i - 1 \in 1..Len(around) /\ i = (i - 1) + 1
      BY <1>8, <2>2
    <3>2. PICK j \in 1..Len(around) : i = j + 1
      BY <3>1
    <3> QED BY <1>1, <1>8, <1>9, <3>2
  <2> QED BY <2>1, <2>2
<1>11. Proceeds(E, R, J, e, block.body, <<frame>> \o around, f)
  BY <1>4, <1>9, <1>10 DEF Proceeds
<1> USE DEF frame
<1> QED BY <1>2, <1>11

(***************************************************************************)
(* Steps, by the blocks in them: none, blocks of those, blocks of these.   *)
(***************************************************************************)
Ending == {"ignored", "found", "thrown"}
Depths == {"one", "some", "none", "drained", "queued", "any"}
Pages == {"none", "active", "latched", "blocked", "rejected"}
Answers == {"202", "410", "502", "503"}
Lookups ==
  Service \cup
  {"gate", "hold", "scopes", "alert", "alias", "body-limits", "browser-token", "canaries",
   "canary", "command", "connections", "consent-and-shutdown", "containers", "daemon",
   "drift-and-other-restarts", "leaks", "logs", "management-paths", "nginx", "notifications",
   "old-and-new-credential", "page", "page-errors", "paths", "policies", "probe-token",
   "production-token", "protocol", "query-string", "rate", "redelivery-log", "requests",
   "resources", "restart-counts", "retry-storm", "rows", "scenarios",
   "secrets-proxy-containers", "sensitive-payloads", "service-after-its-restart", "static",
   "stores-nothing", "telemetry-request", "tmpfs", "tokens", "toolchain", "two-syncs",
   "unit-coverage", "unsafe-payload", "volume"}

PlainStep ==
  [do : {"stop", "start", "recreate", "rotate"}, services : SUBSET Service]
  \cup [do : {"await"}, services : SUBSET Service, otherwise : Ending]
  \cup [do : {"publish"}, batch : Batch, statuses : SUBSET Answers,
        origin : {"primary", "alternate"}]
  \cup [do : {"depth"}, is : Depths, otherwise : Ending, blind : BOOLEAN]
  \cup [do : {"look"}, is : Depths]
  \cup [do : {"count", "harness"}, batch : Batch]
  \cup [do : {"index"}, batches : SUBSET Batch, otherwise : Ending]
  \cup [do : {"purge"}, place : Place]
  \cup [do : {"hold", "scoped", "gate", "alert"}, value : BOOLEAN]
  \cup [do : {"document"}, value : Document]
  \cup [do : {"see"}, states : SUBSET Pages]
  \cup [do : {"probe"}, what : Lookups]
  \cup [do : {"ask", "settle", "derive", "reload", "outlive", "browse", "wipe", "throw"}]

NestedStep == PlainStep \cup Enter(PlainStep)
ScriptSteps == NestedStep \cup Enter(NestedStep)

LEMMA StepLevels ==
  /\ PlainStep \subseteq NestedStep /\ NestedStep \subseteq ScriptSteps
  /\ Enter(PlainStep) \subseteq Enter(NestedStep)
  /\ \A block \in ScriptSteps :
       block.do = "enter" => block \in Enter(NestedStep)
  /\ \A step \in ScriptSteps : step.do # "enter" => step \in PlainStep
<1>1. PlainStep \subseteq NestedStep /\ NestedStep \subseteq ScriptSteps
  BY DEF NestedStep, ScriptSteps
<1>2. Seq(PlainStep) \subseteq Seq(NestedStep)
  BY <1>1
<1>3. Enter(PlainStep) \subseteq Enter(NestedStep)
  BY <1>2 DEF Enter
<1>4. \A step \in PlainStep : step.do # "enter"
  BY DEF PlainStep
<1>5. \A step \in Enter(NestedStep) : step.do = "enter"
  BY DEF Enter
<1> QED BY <1>1, <1>3, <1>4, <1>5 DEF NestedStep, ScriptSteps

LEMMA PlainFields ==
  ASSUME NEW step \in PlainStep
  PROVE  /\ step.do \in {"stop", "start", "recreate", "rotate", "await"}
              => step.services \subseteq Service
         /\ step.do \in {"publish", "count", "harness"} => step.batch \in Batch
         /\ step.do = "publish" => step.statuses \subseteq Answers
                                   /\ step.origin \in {"primary", "alternate"}
         /\ step.do \in {"depth", "look"} => step.is \in Depths
         /\ step.do \in {"await", "depth", "index"} => step.otherwise \in Ending
         /\ step.do = "depth" => step.blind \in BOOLEAN
         /\ step.do = "index" => step.batches \subseteq Batch
         /\ step.do \in {"hold", "scoped", "gate", "alert"} => step.value \in BOOLEAN
         /\ step.do = "document" => step.value \in Document
         /\ step.do = "see" => step.states \subseteq Pages
         /\ step.do = "probe" => step.what \in Lookups
         /\ step.do = "purge" => step.place \in Place
BY DEF PlainStep

(***************************************************************************)
(* The types of a lab and of the scripts run in it.                        *)
(***************************************************************************)
Controls ==
  [hold : BOOLEAN, held : BOOLEAN, document : Document,
   scoped : BOOLEAN, gate : BOOLEAN, closed : BOOLEAN, alert : BOOLEAN]

LabTypeOK ==
  /\ services \in [Service -> {"up", "starting", "down"}]
  /\ control \in Controls
  /\ queue \in [Batch -> Place] /\ indexed \subseteq Batch /\ page \in Pages
  /\ faults \in 0..FaultBudget
  /\ found \in BOOLEAN /\ disturbed \in BOOLEAN

CodeOK == todo \in Seq(ScriptSteps) /\ frames \in Seq(Frames(ScriptSteps))

LEMMA HeadStep ==
  ASSUME CodeOK, todo # <<>>
  PROVE  /\ Step \in ScriptSteps /\ Tail(todo) \in Seq(ScriptSteps)
         /\ Step.do # "enter" => Step \in PlainStep
         /\ Step.do = "enter" => Step \in Enter(NestedStep)
<1>1. Step \in ScriptSteps /\ Tail(todo) \in Seq(ScriptSteps)
  BY DEF CodeOK, Step
<1> QED BY <1>1, StepLevels

LEMMA ThrowsKeepsCode ==
  ASSUME CodeOK, Throws
  PROVE  CodeOK'
<1>1. Throw \in ScriptSteps
  <2>1. Throw \in PlainStep
    BY DEF Throw, PlainStep
  <2> QED BY <2>1, StepLevels
<1>2. CASE frames = <<>>
  BY <1>2 DEF Throws, CodeOK
<1>3. CASE frames # <<>>
  <2>1. Head(frames) \in Frames(ScriptSteps) /\ Tail(frames) \in Seq(Frames(ScriptSteps))
    BY <1>3 DEF CodeOK
  <2>2. Head(frames).rest \in Seq(ScriptSteps)
        /\ Head(frames).cleanup \o <<Throw>> \in Seq(ScriptSteps)
    BY <1>1, <2>1 DEF Frames
  <2> QED BY <1>3, <2>1, <2>2 DEF Throws, CodeOK
<1> QED BY <1>2, <1>3

LEMMA EndsKeepsCode ==
  ASSUME CodeOK, todo # <<>>, NEW how, Continues \/ Finds \/ Throws \/ Ends(how)
  PROVE  CodeOK'
<1>1. CASE Continues \/ Finds
  BY <1>1, HeadStep DEF Continues, Finds, CodeOK
<1>2. CASE Throws
  BY <1>2, ThrowsKeepsCode
<1> QED BY <1>1, <1>2 DEF Ends

LEMMA BlocksKeepCode ==
  ASSUME CodeOK, EnterBlock \/ LeaveBlock
  PROVE  CodeOK'
<1>1. CASE EnterBlock
  <2>1. todo # <<>> /\ Step.do = "enter"
    BY <1>1 DEF EnterBlock, Doing
  <2>2. Step \in Enter(NestedStep) /\ Tail(todo) \in Seq(ScriptSteps)
    BY <2>1, HeadStep
  <2>3. Seq(NestedStep) \subseteq Seq(ScriptSteps)
    BY StepLevels
  <2>4. Step.body \in Seq(ScriptSteps) /\ Step.cleanup \in Seq(ScriptSteps)
        /\ Step.always \in BOOLEAN /\ Step.caught \in BOOLEAN
    BY <2>2, <2>3 DEF Enter
  <2>5. [rest |-> Tail(todo), always |-> Step.always,
          cleanup |-> Step.cleanup, caught |-> Step.caught] \in Frames(ScriptSteps)
    BY <2>2, <2>4 DEF Frames
  <2> QED BY <1>1, <2>4, <2>5 DEF EnterBlock, CodeOK
<1>2. CASE LeaveBlock
  <2>1. frames # <<>>
    BY <1>2 DEF LeaveBlock
  <2>2. Head(frames) \in Frames(ScriptSteps) /\ Tail(frames) \in Seq(Frames(ScriptSteps))
    BY <2>1 DEF CodeOK
  <2>3. (IF Head(frames).always THEN Head(frames).cleanup ELSE <<>>) \o Head(frames).rest
          \in Seq(ScriptSteps)
    BY <2>2 DEF Frames
  <2> QED BY <1>2, <2>2, <2>3 DEF LeaveBlock, CodeOK
<1> QED BY <1>1, <1>2

(* How the steps of a script go on.                                        *)
LEMMA WaitsEnd ==
  ASSUME NEW condition, NEW how, Waits(condition, how)
  PROVE  Continues \/ Ends(how)
BY DEF Waits

LEMMA StepEnds ==
  ASSUME ScriptStep
  PROVE  \/ EnterBlock \/ LeaveBlock
         \/ /\ todo # <<>> /\ Step.do # "enter"
            /\ Continues \/ Finds \/ Throws \/ \E how \in {Step.otherwise, "ignored", "found"} : Ends(how)
<1>1. CASE StopContainer \/ StartContainers \/ RecreateContainers \/ RotateCredential \/ WipeLab
  BY <1>1 DEF StopContainer, StartContainers, RecreateContainers, RotateCredential, WipeLab, Doing
<1>2. CASE SetControl \/ DeriveHold \/ ReloadProxy \/ PublishBatch \/ PurgeQueue \/ LookAtDepth
  BY <1>2 DEF SetControl, DeriveHold, ReloadProxy, PublishBatch, PurgeQueue, LookAtDepth, Doing
<1>3. CASE BrowsePage \/ OutliveDocument \/ CountBatch \/ AskOpenObserve \/ RunHarness \/ ProbeLab \/ ThrowOn
  BY <1>3 DEF BrowsePage, OutliveDocument, CountBatch, AskOpenObserve, RunHarness, ProbeLab, ThrowOn, Doing
<1>4. CASE AwaitContainers
  BY <1>4, WaitsEnd DEF AwaitContainers, Doing
<1>5. CASE WaitForDepth
  BY <1>5, WaitsEnd DEF WaitForDepth, Doing
<1>6. CASE WaitForRows
  BY <1>6, WaitsEnd DEF WaitForRows, Doing
<1>7. CASE SettleHold \/ SeePage
  BY <1>7, WaitsEnd DEF SettleHold, SeePage, Doing
<1>8. CASE CallFails
  BY <1>8 DEF CallFails, Doing
<1> QED BY <1>1, <1>2, <1>3, <1>4, <1>5, <1>6, <1>7, <1>8 DEF ScriptStep

LEMMA CodeKept ==
  ASSUME CodeOK, LabMoves \/ ScriptStep
  PROVE  CodeOK'
<1>1. CASE LabMoves
  BY <1>1 DEF LabMoves, CodeOK
<1>2. CASE ScriptStep
  BY <1>2, StepEnds, BlocksKeepCode, EndsKeepsCode
<1> QED BY <1>1, <1>2

(* Every step keeps the lab in its types.                                  *)
LEMMA MovesKeepTypes ==
  ASSUME LabTypeOK, LabMoves
  PROVE  LabTypeOK'
<1>1. CASE \E s \in Service : Rise(s)
  <2>1. PICK s \in Service : Rise(s)
    BY <1>1
  <2>2. control' \in Controls
    BY <2>1 DEF Rise, LabTypeOK, Controls
  <2>3. services' \in [Service -> {"up", "starting", "down"}]
    BY <2>1 DEF Rise, LabTypeOK
  <2>4. disturbed' \in BOOLEAN
    BY Zenon DEF LabMoves, LabTypeOK
  <2> QED BY <2>1, <2>2, <2>3, <2>4 DEF Rise, LabTypeOK, LabMoves
<1>2. CASE Notice
  <2>1. control' \in Controls
    BY <1>2 DEF Notice, LabTypeOK, Controls
  <2>4. disturbed' \in BOOLEAN
    BY Zenon DEF LabMoves, LabTypeOK
  <2> QED BY <1>2, <2>1, <2>4 DEF Notice, LabTypeOK, LabMoves
<1>3. CASE \E b \in Batch : Take(b) \/ Deliver(b) \/ Expire(b)
  <2>1. PICK b \in Batch : Take(b) \/ Deliver(b) \/ Expire(b)
    BY <1>3
  <2>2. queue' \in [Batch -> Place] /\ indexed' \subseteq Batch
    BY <2>1 DEF Take, Deliver, Expire, LabTypeOK, Place
  <2>4. disturbed' \in BOOLEAN
    BY Zenon DEF LabMoves, LabTypeOK
  <2> QED BY <2>1, <2>2, <2>4 DEF Take, Deliver, Expire, LabTypeOK, LabMoves
<1>4. CASE Poll
  <2>1. page' \in Pages
    BY <1>4 DEF Poll, Pages
  <2>4. disturbed' \in BOOLEAN
    BY Zenon DEF LabMoves, LabTypeOK
  <2> QED BY <1>4, <2>1, <2>4 DEF Poll, LabTypeOK, LabMoves
<1> QED BY <1>1, <1>2, <1>3, <1>4 DEF LabMoves

LEMMA EndsKeepTypes ==
  ASSUME LabTypeOK, NEW how, Continues \/ Finds \/ Throws \/ Ends(how)
  PROVE  found' \in BOOLEAN
<1>1. found' = found \/ found' = TRUE
  BY DEF Continues, Finds, Throws, Ends
<1> QED BY <1>1, Zenon DEF LabTypeOK

LEMMA WaitsKeepTypes ==
  ASSUME LabTypeOK, NEW condition, NEW how, Waits(condition, how)
  PROVE  found' \in BOOLEAN /\ disturbed' \in BOOLEAN /\ faults' \in 0..FaultBudget
<1>1. found' \in BOOLEAN
  BY WaitsEnd, EndsKeepTypes
<1>2. disturbed' = disturbed \/ disturbed' = TRUE
  BY DEF Waits
<1>3. disturbed' \in BOOLEAN
  BY <1>2, Zenon DEF LabTypeOK
<1>4. faults' \in 0..FaultBudget
  BY FaultAssumption DEF Waits, LabTypeOK
<1> QED BY <1>1, <1>3, <1>4

LEMMA UntakenType ==
  ASSUME LabTypeOK
  PROVE  Untaken \in [Batch -> Place]
BY DEF Untaken, LabTypeOK, Place

LEMMA OpenType == Open \in Controls
BY DEF Open, Controls, Document

LEMMA StepsKeepTypes ==
  ASSUME LabTypeOK, CodeOK, ScriptStep
  PROVE  LabTypeOK'
<1>1. found' \in BOOLEAN
  <2>1. CASE EnterBlock \/ LeaveBlock
    BY <2>1 DEF EnterBlock, LeaveBlock, LabTypeOK
  <2> QED BY <2>1, StepEnds, EndsKeepTypes
<1>2. todo # <<>> /\ Step.do # "enter" => Step \in PlainStep
  BY HeadStep
<1>3. CASE (StopContainer \/ StartContainers \/ RecreateContainers \/ RotateCredential) /\ UNCHANGED faults
  <2>1. services' \in [Service -> {"up", "starting", "down"}]
    BY <1>3 DEF StopContainer, StartContainers, RecreateContainers, RotateCredential, Recreated, LabTypeOK
  <2>2. queue' \in [Batch -> Place]
    <3>1. queue' = queue \/ queue' = Untaken
      BY <1>3 DEF StopContainer, StartContainers, RecreateContainers, RotateCredential, Recreated
    <3> QED BY <3>1, UntakenType DEF LabTypeOK
  <2>3. UNCHANGED <<control, indexed, page, disturbed>>
    BY <1>3 DEF StopContainer, StartContainers, RecreateContainers, RotateCredential
  <2> QED BY <1>1, <1>3, <2>1, <2>2, <2>3 DEF LabTypeOK
<1>4. CASE WipeLab /\ UNCHANGED faults
  BY <1>1, <1>4, OpenType DEF WipeLab, LabTypeOK, Place, Pages
<1>5. CASE (SetControl \/ DeriveHold \/ ReloadProxy) /\ UNCHANGED faults
  <2>1. control' \in Controls
    <3>1. CASE SetControl
      <4>1. PICK field \in {"hold", "document", "scoped", "gate", "alert"} :
              Doing(field) /\ control' = [control EXCEPT ![field] = Step.value]
        BY <3>1 DEF SetControl
      <4>2. /\ field = "document" => Step.value \in Document
            /\ field # "document" => Step.value \in BOOLEAN
        BY <1>2, <4>1, PlainFields DEF Doing
      <4> QED BY <4>1, <4>2 DEF LabTypeOK, Controls
    <3>2. CASE DeriveHold
      BY <3>2 DEF DeriveHold, LabTypeOK, Controls
    <3>3. CASE ReloadProxy
      BY <3>3 DEF ReloadProxy, LabTypeOK, Controls
    <3> QED BY <1>5, <3>1, <3>2, <3>3
  <2>2. UNCHANGED <<services, queue, indexed, page, disturbed>>
    BY <1>5 DEF SetControl, DeriveHold, ReloadProxy
  <2> QED BY <1>1, <1>5, <2>1, <2>2 DEF LabTypeOK
<1>6. CASE OutliveDocument /\ UNCHANGED faults
  <2>1. control' \in Controls
    BY <1>6 DEF OutliveDocument, LabTypeOK, Controls, Document
  <2> QED BY <1>1, <1>6, <2>1 DEF OutliveDocument, LabTypeOK, Pages
<1>7. CASE PublishBatch /\ UNCHANGED faults
  <2>1. Step.batch \in Batch
    BY <1>2, <1>7, PlainFields DEF PublishBatch, Doing
  <2>2. "main" \in Place /\ "left" \in Batch
    BY DEF Place, Batch
  <2>3. queue' \in [Batch -> Place] /\ indexed' \subseteq Batch
    BY <1>7, <2>1, <2>2 DEF PublishBatch, LabTypeOK
  <2> QED BY <1>1, <1>7, <2>3 DEF PublishBatch, LabTypeOK
<1>8. CASE PurgeQueue /\ UNCHANGED faults
  <2>1. queue' \in [Batch -> Place]
    BY <1>8 DEF PurgeQueue, LabTypeOK, Place
  <2>2. disturbed' \in BOOLEAN
    BY <1>8, Zenon DEF PurgeQueue
  <2> QED BY <1>1, <1>8, <2>1, <2>2 DEF PurgeQueue, LabTypeOK
<1>9. CASE BrowsePage /\ UNCHANGED faults
  BY <1>1, <1>9 DEF BrowsePage, LabTypeOK, Pages
<1>10. CASE RunHarness /\ UNCHANGED faults
  <2>1. Step.batch \in Batch
    BY <1>2, <1>10, PlainFields DEF RunHarness, Doing
  <2>2. indexed' \subseteq Batch
    BY <1>10, <2>1 DEF RunHarness, LabTypeOK
  <2> QED BY <1>1, <1>10, <2>2 DEF RunHarness, LabTypeOK
<1>11. CASE /\ LookAtDepth \/ CountBatch \/ AskOpenObserve \/ ProbeLab \/ EnterBlock \/ LeaveBlock \/ ThrowOn
            /\ UNCHANGED faults
  <2>1. UNCHANGED <<services, control, queue, indexed, page, disturbed>>
    BY <1>11 DEF LookAtDepth, CountBatch, AskOpenObserve, ProbeLab, EnterBlock, LeaveBlock, ThrowOn
  <2> QED BY <1>1, <1>11, <2>1 DEF LabTypeOK
<1>12. CASE AwaitContainers \/ WaitForDepth \/ WaitForRows \/ SettleHold \/ SeePage
  <2>1. UNCHANGED <<services, control, queue, indexed, page>>
    BY <1>12 DEF AwaitContainers, WaitForDepth, WaitForRows, SettleHold, SeePage
  <2>2. (\E condition, how : Waits(condition, how)) \/ UNCHANGED <<faults, disturbed>>
    BY <1>12, Zenon DEF AwaitContainers, WaitForDepth, WaitForRows, SettleHold, SeePage
  <2>3. disturbed' \in BOOLEAN /\ faults' \in 0..FaultBudget
    <3>1. CASE UNCHANGED <<faults, disturbed>>
      BY <3>1 DEF LabTypeOK
    <3> QED BY <2>2, <3>1, WaitsKeepTypes
  <2> QED BY <1>1, <2>1, <2>3 DEF LabTypeOK
<1>13. CASE CallFails
  BY <1>1, <1>13, FaultAssumption DEF CallFails, LabTypeOK
<1> QED BY <1>3, <1>4, <1>5, <1>6, <1>7, <1>8, <1>9, <1>10, <1>11, <1>12, <1>13 DEF ScriptStep

(***************************************************************************)
(* What a script that has found nothing has put back, or made sure of,     *)
(* whatever calls fail: facts about the lab, and the plain steps that lead *)
(* from facts to facts.                                                    *)
(***************************************************************************)
Switches == {"hold", "document", "scoped", "gate", "closed", "alert"}
Tidy == Switches \cup Service
Arrival == {"sent", "drained", "there"}
Fact == Tidy \cup Arrival
Facts == SUBSET Fact

Holds(c) ==
  /\ c = "hold" => ~control.hold
  /\ c = "document" => control.document = "open"
  /\ c = "scoped" => ~control.scoped
  /\ c = "gate" => ~control.gate
  /\ c = "closed" => ~control.closed
  /\ c = "alert" => ~control.alert
  /\ c \in Service => services[c] # "down"
  /\ c = "sent" => queue["first"] # "none" \/ "first" \in indexed
  /\ c = "drained" => queue["first"] = "none"
  /\ c = "there" => "first" \in indexed

(* A step after which c holds, if those of E did and it has not failed.    *)
Brings(E, step, c) ==
  \/ c \in {"hold", "scoped", "gate", "alert"} /\ step.do = c /\ ~step.value
  \/ c = "document" /\ step.do = "document" /\ step.value = "open"
  \/ c = "hold" /\ step.do = "derive" /\ {"scoped", "document"} \subseteq E
  \/ c = "closed" /\ step.do = "reload" /\ "gate" \in E
  \/ c \in Service /\ step.do \in {"start", "recreate"} /\ c \in step.services
  \/ c \in Tidy /\ step.do = "wipe"
  \/ c = "sent" /\ step.do = "publish" /\ step.batch = "first" /\ step.statuses = {"202"}
  \/ /\ c = "drained" /\ step.do = "depth" /\ step.is = "drained"
     /\ step.otherwise = "found" /\ ~step.blind
  \/ c = "there" /\ step.do = "count" /\ step.batch = "first"
  \/ c = "there" /\ step.do = "look" /\ {"sent", "drained"} \subseteq E

Takes(step, c) ==
  \/ c \in {"hold", "scoped", "gate", "alert", "document"} /\ step.do = c
  \/ c = "document" /\ step.do = "outlive"
  \/ c = "hold" /\ step.do = "derive"
  \/ c = "closed" /\ step.do = "reload"
  \/ c \in Service /\ step.do = "stop" /\ c \in step.services
  \/ c = "sent" /\ step.do \in {"purge", "wipe"}
  \/ c = "drained" /\ step.do = "publish"
  \/ c = "there" /\ step.do \in {"publish", "wipe"}

Leaving(E, step, F) == \A c \in F : Brings(E, step, c) \/ (c \in E /\ ~Takes(step, c))

PlainTidy == {x \in Facts \X PlainStep \X Facts : Leaving(x[1], x[2], x[3])}
NestedTidy == PlainTidy \cup Through(Facts, PlainTidy, Facts, PlainStep)
ScriptTidy == NestedTidy \cup Through(Facts, NestedTidy, Facts, NestedStep)

AllHold(E) == \A c \in E : Holds(c)

(* A command that is bound to end with a finding: something was thrown.    *)
Doomed ==
  \/ todo # <<>> /\ todo[Len(todo)] = Throw
  \/ \E i \in 1..Len(frames) :
       frames[i].rest # <<>> /\ frames[i].rest[Len(frames[i].rest)] = Throw

LEMMA SameEnd ==
  ASSUME NEW S, NEW s \in Seq(S), s # <<>>
  PROVE  /\ Len(s) # 1 => Tail(s) # <<>> /\ Tail(s)[Len(Tail(s))] = s[Len(s)]
         /\ \A t \in Seq(S) : t \o s # <<>> /\ (t \o s)[Len(t \o s)] = s[Len(s)]
<1>1. Len(s) \in Nat \ {0} /\ Len(Tail(s)) = Len(s) - 1
      /\ \A i \in 1..Len(Tail(s)) : Tail(s)[i] = s[i + 1]
  OBVIOUS
<1>2. ASSUME Len(s) # 1
      PROVE  Tail(s) # <<>> /\ Tail(s)[Len(Tail(s))] = s[Len(s)]
  <2>1. Len(s) - 1 \in 1..Len(Tail(s)) /\ (Len(s) - 1) + 1 = Len(s)
    BY <1>1, <1>2
  <2>2. Tail(s)[Len(s) - 1] = s[Len(s)]
    BY <1>1, <2>1
  <2>3. Tail(s) # <<>>
    BY <1>1, <1>2
  <2> QED BY <1>1, <2>2, <2>3
<1>3. ASSUME NEW t \in Seq(S)
      PROVE  t \o s # <<>> /\ (t \o s)[Len(t \o s)] = s[Len(s)]
  <2>1. Len(t) \in Nat /\ Len(t \o s) = Len(t) + Len(s) /\ (t \o s)[Len(t) + Len(s)] = s[Len(s)]
    BY <1>1
  <2> QED BY <1>1, <2>1
<1> QED BY <1>2, <1>3

LEMMA ThrownIsDoomed ==
  ASSUME CodeOK, Throws
  PROVE  found' = TRUE \/ Doomed'
<1>1. CASE frames = <<>> \/ Head(frames).caught
  BY <1>1 DEF Throws
<1>2. CASE frames # <<>> /\ ~Head(frames).caught
  <2>1. todo' = Head(frames).cleanup \o <<Throw>>
    BY <1>2 DEF Throws
  <2>2. Head(frames) \in Frames(ScriptSteps)
    BY <1>2 DEF CodeOK
  <2>3. Head(frames).cleanup \in Seq(ScriptSteps)
    BY <2>2 DEF Frames
  <2>4. todo' # <<>> /\ todo'[Len(todo')] = Throw
    BY <2>1, <2>3
  <2> QED BY <2>4 DEF Doomed
<1> QED BY <1>1, <1>2

LEMMA ThrowOnlyThrows ==
  ASSUME ScriptStep, todo # <<>>, Step.do = "throw"
  PROVE  Throws
BY DEF ScriptStep, Doing, StopContainer, StartContainers, RecreateContainers, RotateCredential,
       WipeLab, SetControl, DeriveHold, ReloadProxy, PublishBatch, PurgeQueue, LookAtDepth,
       BrowsePage, OutliveDocument, CountBatch, AskOpenObserve, RunHarness, ProbeLab, EnterBlock,
       LeaveBlock, ThrowOn, AwaitContainers, WaitForDepth, WaitForRows, SettleHold, SeePage, CallFails

LEMMA DoomedStays ==
  ASSUME CodeOK, Doomed, ScriptStep
  PROVE  found' = TRUE \/ Doomed'
<1>1. CASE EnterBlock
  <2>1. /\ todo # <<>> /\ Step.do = "enter"
        /\ frames' = <<[rest |-> Tail(todo), always |-> Step.always,
                         cleanup |-> Step.cleanup, caught |-> Step.caught]>> \o frames
    BY <1>1 DEF EnterBlock, Doing
  <2> DEFINE frame == [rest |-> Tail(todo), always |-> Step.always,
                       cleanup |-> Step.cleanup, caught |-> Step.caught]
  <2>2. frame.rest = Tail(todo) /\ frames' = <<frame>> \o frames
    BY <2>1
  <2> HIDE DEF frame
  <2>3. /\ Len(frames) \in Nat /\ Len(frames') = Len(frames) + 1 /\ frames'[1] = frame
        /\ \A i \in 1..Len(frames) : frames'[i + 1] = frames[i]
    BY <2>2 DEF CodeOK
  <2>4. CASE todo[Len(todo)] = Throw
    <3>1. Len(todo) \in Nat \ {0} /\ Step = todo[1]
      BY <2>1 DEF CodeOK, Step
    <3>2. Len(todo) # 1
      BY <2>1, <2>4, <3>1 DEF Throw
    <3>3. Tail(todo) # <<>> /\ Tail(todo)[Len(Tail(todo))] = Throw
      BY <2>1, <2>4, <3>2, SameEnd DEF CodeOK
    <3>4. 1 \in 1..Len(frames')
      BY <2>3
    <3> QED BY <2>2, <2>3, <3>3, <3>4 DEF Doomed
  <2>5. CASE \E i \in 1..Len(frames) :
               frames[i].rest # <<>> /\ frames[i].rest[Len(frames[i].rest)] = Throw
    <3>1. PICK i \in 1..Len(frames) :
               frames[i].rest # <<>> /\ frames[i].rest[Len(frames[i].rest)] = Throw
      BY <2>5
    <3>2. i + 1 \in 1..Len(frames') /\ frames'[i + 1] = frames[i]
      BY <2>3
    <3> QED BY <3>1, <3>2 DEF Doomed
  <2> QED BY <2>4, <2>5 DEF Doomed
<1>2. CASE LeaveBlock
  <2>1. /\ todo = <<>> /\ frames # <<>>
        /\ todo' = (IF Head(frames).always THEN Head(frames).cleanup ELSE <<>>) \o Head(frames).rest
        /\ frames' = Tail(frames)
    BY <1>2 DEF LeaveBlock
  <2>2. PICK i \in 1..Len(frames) :
               frames[i].rest # <<>> /\ frames[i].rest[Len(frames[i].rest)] = Throw
    BY <2>1 DEF Doomed
  <2>3. /\ frames[1] \in Frames(ScriptSteps) /\ Head(frames) = frames[1] /\ Len(frames) \in Nat
    BY <2>1 DEF CodeOK
  <2>4. CASE i = 1
    <3>1. frames[1].cleanup \in Seq(ScriptSteps) /\ frames[1].rest \in Seq(ScriptSteps)
      BY <2>3 DEF Frames
    <3>2. /\ (IF Head(frames).always THEN Head(frames).cleanup ELSE <<>>) \in Seq(ScriptSteps)
          /\ Head(frames).rest \in Seq(ScriptSteps)
          /\ Head(frames).rest # <<>> /\ Head(frames).rest[Len(Head(frames).rest)] = Throw
      BY <2>2, <2>3, <2>4, <3>1
    <3>3. todo' # <<>> /\ todo'[Len(todo')] = Throw
      BY <2>1, <3>2, SameEnd
    <3> QED BY <3>3 DEF Doomed
  <2>5. CASE i # 1
    <3>1. i - 1 \in 1..Len(frames') /\ frames'[i - 1] = frames[i]
      BY <2>1, <2>3, <2>5 DEF CodeOK
    <3> QED BY <2>2, <3>1 DEF Doomed
  <2> QED BY <2>4, <2>5
<1>3. CASE Continues /\ todo # <<>>
  <2>1. CASE todo[Len(todo)] = Throw
    <3>1. Len(todo) \in Nat \ {0} /\ Step = todo[1]
      BY <1>3 DEF CodeOK, Step
    <3>2. CASE Len(todo) = 1
      <4>1. Throws
        BY <1>3, <2>1, <3>1, <3>2, ThrowOnlyThrows DEF Throw
      <4> QED BY <4>1, ThrownIsDoomed
    <3>3. CASE Len(todo) # 1
      <4>1. todo' # <<>> /\ todo'[Len(todo')] = Throw
        BY <1>3, <2>1, <3>3, SameEnd DEF CodeOK, Continues
      <4> QED BY <4>1 DEF Doomed
    <3> QED BY <3>2, <3>3
  <2>2. CASE \E i \in 1..Len(frames) :
               frames[i].rest # <<>> /\ frames[i].rest[Len(frames[i].rest)] = Throw
    <3>1. frames' = frames
      BY <1>3 DEF Continues
    <3> QED BY <2>2, <3>1 DEF Doomed
  <2> QED BY <2>1, <2>2 DEF Doomed
<1>4. CASE Finds
  BY <1>4 DEF Finds
<1>5. CASE Throws
  BY <1>5, ThrownIsDoomed
<1> QED BY <1>1, <1>2, <1>3, <1>4, <1>5, StepEnds DEF Ends

(* What happens by itself takes no fact away.                              *)
LEMMA MovesKeepFacts ==
  ASSUME LabTypeOK, LabMoves, NEW c, Holds(c)
  PROVE  Holds(c)'
<1>1. CASE \E s \in Service : Rise(s)
  BY <1>1 DEF Rise, LabTypeOK, Controls, Holds
<1>2. CASE Notice
  BY <1>2 DEF Notice, LabTypeOK, Controls, Holds
<1>3. CASE \E b \in Batch : Take(b) \/ Deliver(b) \/ Expire(b)
  <2>1. PICK b \in Batch : Take(b) \/ Deliver(b) \/ Expire(b)
    BY <1>3
  <2>2. "first" \in Batch
    BY DEF Batch
  <2>3. UNCHANGED <<services, control>>
    BY <2>1 DEF Take, Deliver, Expire
  <2>4. queue["first"] = "none" => queue'["first"] = "none"
    BY <2>1, <2>2 DEF Take, Deliver, Expire, CanTake, CanDeliver, CanExpire, LabTypeOK
  <2>5. "first" \in indexed => "first" \in indexed'
    BY <2>1 DEF Take, Deliver, Expire
  <2>6. queue["first"] # "none" => queue'["first"] # "none" \/ "first" \in indexed'
    BY <2>1, <2>2 DEF Take, Deliver, Expire, LabTypeOK
  <2> QED BY <2>3, <2>4, <2>5, <2>6 DEF Holds
<1>4. CASE Poll
  BY <1>4 DEF Poll, Holds
<1> QED BY <1>1, <1>2, <1>3, <1>4 DEF LabMoves

(* A step that leaves the lab alone takes nothing, and brings what it has  *)
(* looked at.                                                              *)
LEMMA LookKeepsFacts ==
  ASSUME UNCHANGED <<services, control, queue, indexed>>, NEW c, Holds(c)
  PROVE  Holds(c)'
BY DEF Holds

LEMMA FactCases == \A c \in Fact : c \in Switches \/ c \in Service \/ c \in Arrival
BY DEF Fact, Tidy

(* What each kind of step does to the facts, unless it finds something.    *)
LEMMA ServicesAndFacts ==
  ASSUME LabTypeOK, Step \in PlainStep, NEW E \in Facts, NEW F \in Facts,
         Leaving(E, Step, F), AllHold(E),
         StopContainer \/ StartContainers \/ RecreateContainers \/ RotateCredential
  PROVE  found' = TRUE \/ (Continues /\ AllHold(F)')
<1>1. CASE RotateCredential /\ ~Up("rabbitmq")
  BY <1>1 DEF RotateCredential, Finds
<1>2. CASE ~(RotateCredential /\ ~Up("rabbitmq"))
  <2>1. Continues /\ UNCHANGED <<control, indexed>>
    BY <1>2 DEF StopContainer, StartContainers, RecreateContainers, RotateCredential
  <2>2. Step.do \in {"stop", "start", "recreate", "rotate"}
    BY DEF StopContainer, StartContainers, RecreateContainers, RotateCredential, Doing
  <2>3. queue["first"] = "none" <=> queue'["first"] = "none"
    <3>1. queue' = queue \/ queue' = Untaken
      BY <1>2 DEF StopContainer, StartContainers, RecreateContainers, RotateCredential, Recreated
    <3>2. "first" \in Batch
      BY DEF Batch
    <3> QED BY <3>1, <3>2 DEF Untaken
  <2>4. ASSUME NEW c \in F
        PROVE  Holds(c)'
    <3>1. Brings(E, Step, c) \/ (c \in E /\ ~Takes(Step, c))
      BY DEF Leaving
    <3>2. CASE c \in Switches
      BY <2>1, <2>2, <3>1, <3>2 DEF AllHold, Holds, Brings, Switches, Service
    <3>3. CASE c \in Arrival
      BY <2>1, <2>2, <2>3, <3>1, <3>3 DEF AllHold, Holds, Brings, Arrival, Service, Tidy, Switches
    <3>4. CASE c \in Service
      <4>1. services'[c] # "down"
        <5>1. CASE StopContainer
          BY <2>2, <3>1, <3>4, <5>1 DEF StopContainer, Doing, AllHold, Holds, Brings, Takes, Service, Tidy, Switches
        <5>2. CASE StartContainers
          BY <2>2, <3>1, <3>4, <5>2 DEF StartContainers, Doing, AllHold, Holds, Brings, Takes, Service, Tidy, Switches
        <5>3. CASE RecreateContainers
          BY <2>2, <3>1, <3>4, <5>3 DEF RecreateContainers, Recreated, Doing, AllHold, Holds, Brings, Takes, Service, Tidy, Switches
        <5>4. CASE RotateCredential
          BY <1>2, <2>2, <3>1, <3>4, <5>4 DEF RotateCredential, Recreated, Doing, AllHold, Holds, Brings, Takes, Service, Tidy, Switches
        <5> QED BY <5>1, <5>2, <5>3, <5>4
      <4> QED BY <3>4, <4>1 DEF Holds, Service
    <3> QED BY <3>2, <3>3, <3>4, FactCases DEF Facts
  <2> QED BY <2>1, <2>4 DEF AllHold
<1> QED BY <1>1, <1>2

LEMMA WipeAndFacts ==
  ASSUME Step \in PlainStep, NEW E \in Facts, NEW F \in Facts,
         Leaving(E, Step, F), AllHold(E), WipeLab
  PROVE  Continues /\ AllHold(F)'
<1>1. Continues /\ Step.do = "wipe"
  BY DEF WipeLab, Doing
<1>2. \A c \in Fact : Holds(c)' \/ c \in {"sent", "there"}
  BY DEF WipeLab, Holds, Fact, Tidy, Switches, Service, Arrival, Open, Batch
<1>3. ~Leaving(E, Step, {"sent"}) /\ ~Leaving(E, Step, {"there"})
  BY <1>1 DEF Leaving, Brings, Takes, Tidy, Switches, Service
<1>4. F \subseteq Fact /\ "sent" \notin F /\ "there" \notin F
  BY <1>3 DEF Leaving, Facts
<1> QED BY <1>1, <1>2, <1>4 DEF AllHold

LEMMA ControlsAndFacts ==
  ASSUME LabTypeOK, Step \in PlainStep, NEW E \in Facts, NEW F \in Facts,
         Leaving(E, Step, F), AllHold(E),
         SetControl \/ DeriveHold \/ ReloadProxy \/ OutliveDocument
  PROVE  Continues /\ AllHold(F)'
<1>1. Continues /\ UNCHANGED <<services, queue, indexed>>
  BY DEF SetControl, DeriveHold, ReloadProxy, OutliveDocument
<1>2. Step.do \in {"hold", "document", "scoped", "gate", "alert", "derive", "reload", "outlive"}
  BY DEF SetControl, DeriveHold, ReloadProxy, OutliveDocument, Doing
<1>3. ASSUME NEW c \in F
      PROVE  Holds(c)'
  <2>1. Brings(E, Step, c) \/ (c \in E /\ ~Takes(Step, c))
    BY DEF Leaving
  <2>2. CASE c \in Service \cup Arrival
    BY <1>1, <1>2, <2>1, <2>2 DEF AllHold, Holds, Brings, Arrival, Service, Tidy, Switches
  <2>3. CASE c \in Switches
    <3>1. CASE SetControl
      <4>1. PICK field \in {"hold", "document", "scoped", "gate", "alert"} :
              Step.do = field /\ control' = [control EXCEPT ![field] = Step.value]
        BY <3>1 DEF SetControl, Doing
      <4>2. CASE c = field
        <5>1. control'[field] = Step.value
          BY <4>1 DEF LabTypeOK, Controls
        <5>2. (c = "document" /\ Step.value = "open") \/ (c # "document" /\ ~Step.value)
          BY <2>1, <4>1, <4>2 DEF Brings, Takes, Tidy, Service, Switches
        <5> QED BY <4>1, <4>2, <5>1, <5>2 DEF Holds, Service
      <4>3. CASE c # field
        <5>1. c \in E
          BY <2>1, <2>3, <4>1, <4>3 DEF Brings, Tidy, Service, Switches
        <5>2. control'[c] = control[c]
          BY <2>3, <4>1, <4>3 DEF LabTypeOK, Controls, Switches
        <5> QED BY <2>3, <5>1, <5>2 DEF AllHold, Holds, Service, Switches
      <4> QED BY <4>2, <4>3
    <3>2. CASE DeriveHold
      <4>1. Step.do = "derive"
            /\ control' = [control EXCEPT !.hold = control.scoped \/ control.document \in {"kill", "invalid"}]
        BY <3>2 DEF DeriveHold, Doing
      <4>2. CASE c = "hold"
        <5>1. {"scoped", "document"} \subseteq E
          BY <2>1, <4>1, <4>2 DEF Brings, Takes, Tidy, Service, Switches
        <5>2. ~control.scoped /\ control.document = "open"
          BY <5>1 DEF AllHold, Holds
        <5>3. ~control'.hold
          BY <4>1, <5>2 DEF LabTypeOK, Controls
        <5> QED BY <4>2, <5>3 DEF Holds, Service
      <4>3. CASE c # "hold"
        <5>1. c \in E
          BY <2>1, <2>3, <4>1, <4>3 DEF Brings, Tidy, Service, Switches
        <5>2. control'[c] = control[c]
          BY <2>3, <4>1, <4>3 DEF LabTypeOK, Controls, Switches
        <5> QED BY <2>3, <4>3, <5>1, <5>2 DEF AllHold, Holds, Service, Switches
      <4> QED BY <4>2, <4>3
    <3>3. CASE ReloadProxy
      <4>1. Step.do = "reload" /\ control' = [control EXCEPT !.closed = control.gate]
        BY <3>3 DEF ReloadProxy, Doing
      <4>2. CASE c = "closed"
        <5>1. "gate" \in E
          BY <2>1, <4>1, <4>2 DEF Brings, Takes, Tidy, Service, Switches
        <5>2. ~control'.closed
          BY <4>1, <5>1 DEF AllHold, Holds, LabTypeOK, Controls
        <5> QED BY <4>2, <5>2 DEF Holds, Service
      <4>3. CASE c # "closed"
        <5>1. c \in E
          BY <2>1, <2>3, <4>1, <4>3 DEF Brings, Tidy, Service, Switches
        <5>2. control'[c] = control[c]
          BY <2>3, <4>1, <4>3 DEF LabTypeOK, Controls, Switches
        <5> QED BY <2>3, <4>3, <5>1, <5>2 DEF AllHold, Holds, Service, Switches
      <4> QED BY <4>2, <4>3
    <3>4. CASE OutliveDocument
      <4>1. Step.do = "outlive" /\ control' = [control EXCEPT !.document = "invalid"]
        BY <3>4 DEF OutliveDocument, Doing
      <4>2. c # "document" /\ c \in E
        BY <2>1, <2>3, <4>1 DEF Brings, Takes, Tidy, Service, Switches
      <4>3. control'[c] = control[c]
        BY <2>3, <4>1, <4>2 DEF LabTypeOK, Controls, Switches
      <4> QED BY <2>3, <4>2, <4>3 DEF AllHold, Holds, Service, Switches
    <3> QED BY <3>1, <3>2, <3>3, <3>4
  <2> QED BY <2>2, <2>3, FactCases DEF Facts
<1> QED BY <1>1, <1>3 DEF AllHold

LEMMA QueuesAndFacts ==
  ASSUME LabTypeOK, Step \in PlainStep, NEW E \in Facts, NEW F \in Facts,
         Leaving(E, Step, F), AllHold(E), PublishBatch \/ PurgeQueue \/ RunHarness
  PROVE  found' = TRUE \/ (Continues /\ AllHold(F)')
<1>1. CASE PublishBatch
  <2>1. Step.do = "publish" /\ Step.batch \in Batch
    BY <1>1, PlainFields DEF PublishBatch, Doing
  <2>2. UNCHANGED <<services, control>>
    BY <1>1 DEF PublishBatch
  <2>3. Continues \/ found' = TRUE
    BY <1>1 DEF PublishBatch, Finds
  <2>4. "first" \in Batch /\ "left" \in Batch /\ "main" \in Place
    BY DEF Batch, Place
  <2>5. ASSUME NEW c \in F, Step.statuses = {"202"} => Status(Step.origin) = "202"
        PROVE  Holds(c)'
    <3>1. Brings(E, Step, c) \/ (c \in E /\ ~Takes(Step, c))
      BY DEF Leaving
    <3>2. CASE c \notin Arrival
      BY <2>1, <2>2, <3>1, <3>2 DEF AllHold, Holds, Brings, Arrival, Service, Tidy, Switches
    <3>3. CASE c \in Arrival
      <4>1. c = "sent"
        BY <2>1, <3>1, <3>3 DEF Brings, Takes, Arrival, Service, Tidy, Switches
      <4>2. queue'["first"] # "none" \/ "first" \in indexed'
        <5>1. CASE Step.batch = "first" /\ Status(Step.origin) = "202"
          <6>1. queue'["first"] = "main"
            BY <1>1, <2>4, <5>1 DEF PublishBatch, LabTypeOK
          <6> QED BY <6>1
        <5>2. CASE Step.batch = "first" /\ Status(Step.origin) # "202"
          <6>1. "sent" \in E
            BY <2>1, <2>5, <3>1, <4>1, <5>2 DEF Brings, Tidy, Switches, Service
          <6>2. UNCHANGED <<queue, indexed>>
            BY <1>1, <5>2 DEF PublishBatch
          <6> QED BY <6>1, <6>2 DEF AllHold, Holds
        <5>3. CASE Step.batch # "first"
          <6>1. "sent" \in E
            BY <2>1, <3>1, <4>1, <5>3 DEF Brings, Tidy, Switches, Service
          <6>2. queue'["first"] = queue["first"] /\ ("first" \in indexed => "first" \in indexed')
            BY <1>1, <2>1, <2>4, <5>3 DEF PublishBatch, LabTypeOK
          <6> QED BY <6>1, <6>2 DEF AllHold, Holds
        <5> QED BY <5>1, <5>2, <5>3
      <4> QED BY <4>1, <4>2 DEF Holds, Service
    <3> QED BY <3>2, <3>3
  <2>6. CASE Step.statuses = {"202"} /\ Status(Step.origin) # "202"
    BY <1>1, <2>6 DEF PublishBatch, Finds
  <2> QED BY <2>3, <2>5, <2>6 DEF AllHold
<1>2. CASE PurgeQueue
  <2>1. Step.do = "purge" /\ Continues /\ UNCHANGED <<services, control, indexed>>
    BY <1>2 DEF PurgeQueue, Doing
  <2>2. queue["first"] = "none" => queue'["first"] = "none"
    BY <1>2 DEF PurgeQueue, Batch
  <2>3. ASSUME NEW c \in F
        PROVE  Holds(c)'
    <3>1. c \in E /\ c # "sent"
      BY <2>1 DEF Leaving, Brings, Takes, Arrival, Service, Tidy, Switches
    <3> QED BY <2>1, <2>2, <3>1 DEF AllHold, Holds
  <2> QED BY <2>1, <2>3 DEF AllHold
<1>3. CASE RunHarness
  <2>1. Step.do = "harness" /\ UNCHANGED <<services, control, queue>>
    BY <1>3 DEF RunHarness, Doing
  <2>2. Continues \/ found' = TRUE
    BY <1>3 DEF RunHarness, Finds
  <2>3. "first" \in indexed => "first" \in indexed'
    BY <1>3 DEF RunHarness
  <2>4. ASSUME NEW c \in F
        PROVE  Holds(c)'
    <3>1. c \in E
      BY <2>1 DEF Leaving, Brings, Takes, Arrival, Service, Tidy, Switches
    <3> QED BY <2>1, <2>3, <3>1 DEF AllHold, Holds
  <2> QED BY <2>2, <2>4 DEF AllHold
<1> QED BY <1>1, <1>2, <1>3

(* A step that only looks, or waits.                                       *)
LEMMA WaitsAndFacts ==
  ASSUME NEW condition, NEW how, Waits(condition, how)
  PROVE  \/ found' = TRUE \/ Throws
         \/ Continues /\ (how = "found" => condition)
BY DEF Waits, Ends, Finds

LEMMA LooksAndFacts ==
  ASSUME LabTypeOK, Step \in PlainStep, NEW E \in Facts, NEW F \in Facts,
         Leaving(E, Step, F), AllHold(E),
         \/ LookAtDepth \/ CountBatch \/ AskOpenObserve \/ ProbeLab \/ BrowsePage
         \/ AwaitContainers \/ WaitForDepth \/ WaitForRows \/ SettleHold \/ SeePage
  PROVE  found' = TRUE \/ Throws \/ (Continues /\ AllHold(F)')
<1>1. UNCHANGED <<services, control, queue, indexed>>
  BY DEF LookAtDepth, CountBatch, AskOpenObserve, ProbeLab, BrowsePage,
         AwaitContainers, WaitForDepth, WaitForRows, SettleHold, SeePage
<1>2. Step.do \in {"look", "count", "ask", "probe", "browse", "await", "depth", "index", "settle", "see"}
  BY DEF LookAtDepth, CountBatch, AskOpenObserve, ProbeLab, BrowsePage,
         AwaitContainers, WaitForDepth, WaitForRows, SettleHold, SeePage, Doing
<1>3. ASSUME NEW c \in F, c \in E
      PROVE  Holds(c)'
  BY <1>1, <1>3, LookKeepsFacts DEF AllHold
<1>4. ASSUME NEW c \in F, c \notin E
      PROVE  \/ /\ c = "drained" /\ Step.do = "depth" /\ Step.is = "drained"
                /\ Step.otherwise = "found" /\ ~Step.blind
             \/ c = "there" /\ Step.do = "count" /\ Step.batch = "first"
             \/ c = "there" /\ Step.do = "look" /\ {"sent", "drained"} \subseteq E
  BY <1>2, <1>4 DEF Leaving, Brings, Service, Tidy, Switches
<1>5. CASE LookAtDepth \/ AskOpenObserve \/ ProbeLab \/ BrowsePage
  <2>1. found' = TRUE \/ Throws \/ Continues
    BY <1>5 DEF LookAtDepth, AskOpenObserve, ProbeLab, BrowsePage, Finds
  <2>2. Step.do \in {"look", "ask", "probe", "browse"}
    BY <1>5 DEF LookAtDepth, AskOpenObserve, ProbeLab, BrowsePage, Doing
  <2>3. ASSUME NEW c \in F, c \notin E
        PROVE  Holds(c)'
    <3>1. c = "there" /\ {"sent", "drained"} \subseteq E
      BY <1>4, <2>2, <2>3
    <3>2. "first" \in indexed
      BY <3>1 DEF AllHold, Holds
    <3> QED BY <1>1, <3>1, <3>2 DEF Holds, Service
  <2> QED BY <1>3, <2>1, <2>3 DEF AllHold
<1>6. CASE CountBatch
  <2>1. Step.do = "count" /\ (found' = TRUE \/ (Continues /\ Step.batch \in indexed))
    BY <1>6 DEF CountBatch, Doing, Finds
  <2>2. ASSUME NEW c \in F, c \notin E, Step.batch \in indexed
        PROVE  Holds(c)'
    <3>1. c = "there" /\ Step.batch = "first"
      BY <1>4, <2>1, <2>2
    <3> QED BY <1>1, <2>2, <3>1 DEF Holds, Service
  <2> QED BY <1>3, <2>1, <2>2 DEF AllHold
<1>7. CASE AwaitContainers \/ WaitForRows \/ SettleHold \/ SeePage
  <2>1. Step.do \in {"await", "index", "settle", "see"}
    BY <1>7 DEF AwaitContainers, WaitForRows, SettleHold, SeePage, Doing
  <2>2. found' = TRUE \/ Throws \/ Continues
    BY <1>7, WaitsAndFacts DEF AwaitContainers, WaitForRows, SettleHold, SeePage
  <2>3. F \subseteq E
    BY <1>4, <2>1
  <2> QED BY <1>3, <2>2, <2>3 DEF AllHold
<1>8. CASE WaitForDepth
  <2>1. Step.do = "depth"
    BY <1>8 DEF WaitForDepth, Doing
  <2>2. \/ found' = TRUE \/ Throws
        \/ /\ Continues
           /\ Step.otherwise = "found" /\ ~Step.blind => Up("rabbitmq") /\ DepthIs(Step.is)
    <3>1. CASE Up("rabbitmq")
      <4>1. Waits(DepthIs(Step.is), Step.otherwise)
        BY <1>8, <3>1 DEF WaitForDepth
      <4>2. found' = TRUE \/ Throws \/ (Continues /\ (Step.otherwise = "found" => DepthIs(Step.is)))
        BY <4>1 DEF Waits, Ends, Finds
      <4> QED BY <3>1, <4>2
    <3>2. CASE ~Up("rabbitmq") /\ Step.blind
      <4>1. Waits(Step.is = "none", Step.otherwise)
        BY <1>8, <3>2 DEF WaitForDepth
      <4> QED BY <3>2, <4>1, WaitsAndFacts
    <3>3. CASE ~Up("rabbitmq") /\ ~Step.blind
      BY <1>8, <3>3 DEF WaitForDepth
    <3> QED BY <3>1, <3>2, <3>3
  <2>3. ASSUME NEW c \in F, c \notin E,
               Step.otherwise = "found" /\ ~Step.blind => Up("rabbitmq") /\ DepthIs(Step.is)
        PROVE  Holds(c)'
    <3>1. c = "drained" /\ DepthIs("drained")
      BY <1>4, <2>1, <2>3
    <3>2. Queued = {}
      BY <3>1 DEF DepthIs
    <3>3. queue["first"] = "none"
      BY <3>2 DEF Queued, Batch
    <3> QED BY <1>1, <3>1, <3>3 DEF Holds, Service
  <2> QED BY <1>3, <2>2, <2>3 DEF AllHold
<1> QED BY <1>5, <1>6, <1>7, <1>8

(* What a plain step leads to.                                             *)
LEMMA PlainAndFacts ==
  ASSUME LabTypeOK, CodeOK, todo # <<>>, Step.do # "enter", ScriptStep,
         NEW E \in Facts, NEW F \in Facts, Leaving(E, Step, F), AllHold(E)
  PROVE  found' = TRUE \/ Doomed' \/ (Continues /\ AllHold(F)')
<1>1. Step \in PlainStep
  BY HeadStep
<1>2. CASE StopContainer \/ StartContainers \/ RecreateContainers \/ RotateCredential
  BY <1>1, <1>2, ServicesAndFacts
<1>3. CASE WipeLab
  BY <1>1, <1>3, WipeAndFacts
<1>4. CASE SetControl \/ DeriveHold \/ ReloadProxy \/ OutliveDocument
  BY <1>1, <1>4, ControlsAndFacts
<1>5. CASE PublishBatch \/ PurgeQueue \/ RunHarness
  BY <1>1, <1>5, QueuesAndFacts
<1>6. CASE \/ LookAtDepth \/ CountBatch \/ AskOpenObserve \/ ProbeLab \/ BrowsePage
           \/ AwaitContainers \/ WaitForDepth \/ WaitForRows \/ SettleHold \/ SeePage
  <2>1. found' = TRUE \/ Throws \/ (Continues /\ AllHold(F)')
    BY <1>1, <1>6, LooksAndFacts
  <2> QED BY <2>1, ThrownIsDoomed
<1>7. CASE ThrowOn \/ CallFails
  BY <1>7, ThrownIsDoomed DEF ThrowOn, CallFails
<1>8. CASE EnterBlock \/ LeaveBlock
  BY <1>8 DEF EnterBlock, LeaveBlock, Doing
<1> QED BY <1>2, <1>3, <1>4, <1>5, <1>6, <1>7, <1>8 DEF ScriptStep

(* The command under way will, unless it finds something, end with the     *)
(* facts of the goal.                                                      *)
Secured(goal) ==
  \E E \in Facts :
    AllHold(E) /\ Proceeds(Facts, ScriptTidy, Facts, E, todo, frames, goal)

LEMMA TidySteps ==
  ASSUME NEW E, NEW F, NEW step, <<E, step, F>> \in ScriptTidy
  PROVE  /\ step.do # "enter" => Leaving(E, step, F)
         /\ step.do = "enter" => \/ <<E, step, F>> \in Through(Facts, PlainTidy, Facts, PlainStep)
                                 \/ <<E, step, F>> \in Through(Facts, NestedTidy, Facts, NestedStep)
<1>1. <<E, step, F>> \in PlainTidy => Leaving(E, step, F) /\ step \in PlainStep
  BY DEF PlainTidy
<1>2. <<E, step, F>> \in Through(Facts, PlainTidy, Facts, PlainStep)
        \/ <<E, step, F>> \in Through(Facts, NestedTidy, Facts, NestedStep) => step.do = "enter"
  BY DEF Through, Enter
<1>3. step \in PlainStep => step.do # "enter"
  BY DEF PlainStep
<1> QED BY <1>1, <1>2, <1>3 DEF ScriptTidy, NestedTidy

(* It stays so, whatever the lab and the script do next.                   *)
LEMMA SecuredStep ==
  ASSUME LabTypeOK, CodeOK, NEW goal \in Facts, Secured(goal), LabMoves \/ ScriptStep
  PROVE  found' = TRUE \/ Doomed' \/ Secured(goal)'
<1>1. PICK E \in Facts : AllHold(E) /\ Proceeds(Facts, ScriptTidy, Facts, E, todo, frames, goal)
  BY DEF Secured
<1>2. CASE LabMoves
  <2>1. UNCHANGED <<todo, frames>>
    BY <1>2 DEF LabMoves
  <2>2. AllHold(E)'
    BY <1>1, <1>2, MovesKeepFacts DEF AllHold
  <2> QED BY <1>1, <2>1, <2>2 DEF Secured
<1>3. CASE EnterBlock
  <2>1. todo # <<>> /\ Step.do = "enter" /\ UNCHANGED <<services, control, queue, indexed>>
    BY <1>3 DEF EnterBlock, Doing
  <2>2. AllHold(E)'
    BY <1>1, <2>1, LookKeepsFacts DEF AllHold
  <2>3. PICK F \in Facts : /\ <<E, Head(todo), F>> \in ScriptTidy
                           /\ Proceeds(Facts, ScriptTidy, Facts, F, Tail(todo), frames, goal)
    BY <1>1, <2>1, ProceedsOn DEF CodeOK
  <2>4. Tail(todo) \in Seq(ScriptSteps) /\ frames \in Seq(Frames(ScriptSteps))
    BY <2>1, HeadStep DEF CodeOK
  <2> DEFINE frame == [rest |-> Tail(todo), always |-> Step.always,
                       cleanup |-> Step.cleanup, caught |-> Step.caught]
  <2>5. Proceeds(Facts, ScriptTidy, Facts, E, Step.body, <<frame>> \o frames, goal)
    <3>1. CASE <<E, Step, F>> \in Through(Facts, PlainTidy, Facts, PlainStep)
      <4>1. Step \in Enter(PlainStep) /\ PlainTidy \subseteq ScriptTidy /\ PlainStep \subseteq ScriptSteps
        BY <3>1, StepLevels DEF Through, ScriptTidy, NestedTidy
      <4> QED BY <2>3, <2>4, <3>1, <4>1, ProceedsIn
    <3>2. CASE <<E, Step, F>> \in Through(Facts, NestedTidy, Facts, NestedStep)
      <4>1. Step \in Enter(NestedStep) /\ NestedTidy \subseteq ScriptTidy /\ NestedStep \subseteq ScriptSteps
        BY <3>2, StepLevels DEF Through, ScriptTidy
      <4> QED BY <2>3, <2>4, <3>2, <4>1, ProceedsIn
    <3> QED BY <2>1, <2>3, <3>1, <3>2, TidySteps DEF Step
  <2>6. todo' = Step.body /\ frames' = <<frame>> \o frames
    BY <1>3 DEF EnterBlock
  <2> HIDE DEF frame
  <2> QED BY <2>2, <2>5, <2>6 DEF Secured
<1>4. CASE LeaveBlock
  <2>1. todo = <<>> /\ frames # <<>> /\ UNCHANGED <<services, control, queue, indexed>>
        /\ todo' = Left(Head(frames)) /\ frames' = Tail(frames)
    BY <1>4 DEF LeaveBlock, Left, Closing
  <2>2. AllHold(E)'
    BY <1>1, <2>1, LookKeepsFacts DEF AllHold
  <2>3. Proceeds(Facts, ScriptTidy, Facts, E, Left(Head(frames)), Tail(frames), goal)
    BY <1>1, <2>1, ProceedsOut DEF CodeOK
  <2> QED BY <2>1, <2>2, <2>3 DEF Secured
<1>5. CASE ScriptStep /\ todo # <<>> /\ Step.do # "enter"
  <2>1. PICK F \in Facts : /\ <<E, Head(todo), F>> \in ScriptTidy
                           /\ Proceeds(Facts, ScriptTidy, Facts, F, Tail(todo), frames, goal)
    BY <1>1, <1>5, ProceedsOn DEF CodeOK
  <2>2. Leaving(E, Step, F)
    BY <1>5, <2>1, TidySteps DEF Step
  <2>3. found' = TRUE \/ Doomed' \/ (Continues /\ AllHold(F)')
    BY <1>1, <1>5, <2>2, PlainAndFacts
  <2>4. ASSUME Continues, AllHold(F)'
        PROVE  Secured(goal)'
    BY <2>1, <2>4 DEF Continues, Secured
  <2> QED BY <2>3, <2>4
<1> QED BY <1>2, <1>3, <1>4, <1>5, StepEnds

(***************************************************************************)
(* What a script can rely on as long as nothing comes between: the state   *)
(* of the containers and of the switches, where the batches can be, what   *)
(* the page can show.  An expectation lasts while the lab moves by itself: *)
(* a batch stays in the main queue only where nothing takes it, and in     *)
(* some queue only while OpenObserve is away.  Between the two purges no   *)
(* message is in the queue that was purged first.                          *)
(***************************************************************************)
Shown(c, origin) ==
  IF c.scoped /\ origin = "primary" /\ c.document # "invalid" THEN "kill" ELSE c.document

Resting(e) == "worker" \in e.down \/ "rabbitmq" \in e.down \/ (e.control.hold /\ e.synced)

Expectations ==
  {e \in [up : SUBSET Service, down : SUBSET Service, control : Controls, synced : BOOLEAN,
          none : SUBSET Batch, main : SUBSET Batch, queued : SUBSET Batch, kept : SUBSET Batch,
          swept : BOOLEAN, page : SUBSET Pages] :
     /\ e.main # {} => Resting(e)
     /\ e.queued # {} => "openobserve" \in e.down
     /\ "active" \in e.page =>
          /\ Shown(e.control, "primary") = "kill" => "latched" \in e.page
          /\ Shown(e.control, "primary") = "older" => "rejected" \in e.page}

ServicesMeet(e) ==
  \A s \in Service : (s \in e.up => services[s] = "up") /\ (s \in e.down <=> services[s] = "down")

ControlMeets(e) ==
  /\ \A c \in Switches : control[c] = e.control[c]
  /\ e.synced /\ services["worker"] = "up" => control.held = control.hold

QueuesMeet(e) ==
  \A b \in Batch :
    /\ b \in e.none => queue[b] = "none"
    /\ b \in e.main => queue[b] = "main"
    /\ b \in e.queued => queue[b] # "none"
    /\ b \in e.kept => queue[b] # "none" \/ b \in indexed
    /\ e.swept /\ Doing("purge") => queue[b] \in {"none", "retry"}

Meets(e) == ServicesMeet(e) /\ ControlMeets(e) /\ QueuesMeet(e) /\ page \in e.page

LEMMA ShownIsServed ==
  ASSUME NEW e, ControlMeets(e), NEW origin
  PROVE  Served(origin) = Shown(e.control, origin)
<1>1. "scoped" \in Switches /\ "document" \in Switches
  BY DEF Switches
<1>2. control.scoped = e.control.scoped /\ control.document = e.control.document
  BY <1>1 DEF ControlMeets
<1> QED BY <1>2 DEF Served, Shown

LEMMA RestingTakesNothing ==
  ASSUME NEW e, Resting(e), ServicesMeet(e), ControlMeets(e)
  PROVE  ~(Consuming /\ ~control.held)
<1>1. "worker" \in Service /\ "rabbitmq" \in Service /\ "hold" \in Switches
  BY DEF Service, Switches
<1>2. CASE "worker" \in e.down \/ "rabbitmq" \in e.down
  BY <1>1, <1>2 DEF ServicesMeet, Consuming, Up
<1>3. CASE e.control.hold /\ e.synced
  <2>1. control.hold
    BY <1>1, <1>3, Zenon DEF ControlMeets
  <2>2. services["worker"] = "up" => control.held = control.hold
    BY <1>3 DEF ControlMeets
  <2> QED BY <2>1, <2>2 DEF Consuming, Up
<1> QED BY <1>2, <1>3 DEF Resting

(* What the lab does by itself is expected, unless it disturbs a purge.    *)
LEMMA MovesMeet ==
  ASSUME LabTypeOK, LabMoves, ~disturbed', NEW e \in Expectations, Meets(e)
  PROVE  Meets(e)'
<1>1. ServicesMeet(e) /\ ControlMeets(e) /\ QueuesMeet(e) /\ page \in e.page
  BY DEF Meets
<1>2. UNCHANGED todo
  BY DEF LabMoves
<1>3. CASE \E s \in Service : Rise(s)
  <2>1. PICK s \in Service : Rise(s)
    BY <1>3
  <2>2. ServicesMeet(e)'
    BY <1>1, <2>1 DEF Rise, CanRise, ServicesMeet, LabTypeOK
  <2>3. ControlMeets(e)'
    <3>1. \A c \in Switches : control'[c] = control[c]
      BY <2>1 DEF Rise, LabTypeOK, Controls, Switches
    <3>2. CASE s = "worker"
      <4>1. control'.held = control'.hold
        BY <2>1, <3>2 DEF Rise, LabTypeOK, Controls
      <4> QED BY <1>1, <3>1, <4>1 DEF ControlMeets
    <3>3. CASE s # "worker"
      <4>1. control' = control /\ services'["worker"] = services["worker"]
        BY <2>1, <3>3 DEF Rise, LabTypeOK, Service
      <4> QED BY <1>1, <4>1 DEF ControlMeets
    <3> QED BY <3>2, <3>3
  <2>4. UNCHANGED <<queue, indexed, page>>
    BY <2>1 DEF Rise
  <2>5. QueuesMeet(e)'
    BY <1>1, <1>2, <2>4 DEF QueuesMeet, Doing, Step
  <2> QED BY <1>1, <2>2, <2>3, <2>4, <2>5 DEF Meets
<1>4. CASE Notice
  <2>1. UNCHANGED <<services, queue, indexed, page>>
    BY <1>4 DEF Notice
  <2>2. ControlMeets(e)'
    BY <1>1, <1>4 DEF Notice, ControlMeets, LabTypeOK, Controls, Switches
  <2>3. QueuesMeet(e)' /\ ServicesMeet(e)'
    BY <1>1, <1>2, <2>1 DEF QueuesMeet, ServicesMeet, Doing, Step
  <2> QED BY <1>1, <2>1, <2>2, <2>3 DEF Meets
<1>5. CASE \E b \in Batch : Take(b) \/ Deliver(b) \/ Expire(b)
  <2>1. PICK b \in Batch : Take(b) \/ Deliver(b) \/ Expire(b)
    BY <1>5
  <2>2. UNCHANGED <<services, control, page>>
    BY <2>1 DEF Take, Deliver, Expire
  <2>3. ServicesMeet(e)' /\ ControlMeets(e)'
    BY <1>1, <2>2 DEF ServicesMeet, ControlMeets
  <2>4. ~(Doing("purge") /\ \E x \in Batch : queue[x] = "retry" /\ queue'[x] = "main")
    BY DEF LabMoves
  <2>5. Doing("purge")' <=> Doing("purge")
    BY <1>2 DEF Doing, Step
  <2>6. ASSUME NEW x \in Batch
        PROVE  /\ x \in e.none => queue'[x] = "none"
               /\ x \in e.main => queue'[x] = "main"
               /\ x \in e.queued => queue'[x] # "none"
               /\ x \in e.kept => queue'[x] # "none" \/ x \in indexed'
               /\ e.swept /\ Doing("purge") => queue'[x] \in {"none", "retry"}
    <3>1. /\ x \in e.none => queue[x] = "none"
          /\ x \in e.main => queue[x] = "main"
          /\ x \in e.queued => queue[x] # "none"
          /\ x \in e.kept => queue[x] # "none" \/ x \in indexed
          /\ e.swept /\ Doing("purge") => queue[x] \in {"none", "retry"}
      BY <1>1 DEF QueuesMeet
    <3>2. CASE x # b
      <4>1. queue'[x] = queue[x] /\ (x \in indexed => x \in indexed')
        BY <2>1, <3>2 DEF Take, Deliver, Expire, LabTypeOK
      <4> QED BY <3>1, <4>1
    <3>3. CASE x = b /\ Take(b)
      <4>1. queue[x] = "main" /\ queue'[x] = "taken" /\ Consuming /\ ~control.held
        BY <3>3 DEF Take, CanTake, LabTypeOK
      <4>2. x \notin e.main
        BY <1>1, <4>1, RestingTakesNothing DEF Expectations
      <4> QED BY <3>1, <4>1, <4>2
    <3>4. CASE x = b /\ Deliver(b)
      <4>1. /\ queue[x] = "taken" /\ x \notin e.main
            /\ Up("openobserve") => queue'[x] = "none" /\ x \in indexed'
            /\ ~Up("openobserve") => queue'[x] = "retry"
        BY <3>1, <3>4 DEF Deliver, CanDeliver, LabTypeOK
      <4>2. x \in e.queued => ~Up("openobserve")
        BY <1>1 DEF Expectations, ServicesMeet, Up, Service
      <4> QED BY <3>1, <4>1, <4>2
    <3>5. CASE x = b /\ Expire(b)
      <4>1. queue[x] = "retry" /\ queue'[x] = "main"
        BY <3>5 DEF Expire, CanExpire, LabTypeOK
      <4> QED BY <2>4, <3>1, <4>1
    <3> QED BY <2>1, <3>2, <3>3, <3>4, <3>5
  <2>7. QueuesMeet(e)'
    BY <2>5, <2>6 DEF QueuesMeet
  <2> QED BY <1>1, <2>2, <2>3, <2>7 DEF Meets
<1>6. CASE Poll
  <2>1. UNCHANGED <<services, control, queue, indexed>>
    BY <1>6 DEF Poll
  <2>2. page = "active" /\ Served("primary") \in {"kill", "older"}
        /\ page' = IF Served("primary") = "kill" THEN "latched" ELSE "rejected"
    BY <1>6 DEF Poll, CanPoll
  <2>3. Served("primary") = Shown(e.control, "primary")
    BY <1>1, ShownIsServed
  <2>4. page' \in e.page
    BY <1>1, <2>2, <2>3 DEF Expectations
  <2>5. ServicesMeet(e)' /\ ControlMeets(e)' /\ QueuesMeet(e)'
    BY <1>1, <1>2, <2>1 DEF ServicesMeet, ControlMeets, QueuesMeet, Doing, Step
  <2> QED BY <2>4, <2>5 DEF Meets
<1> QED BY <1>3, <1>4, <1>5, <1>6 DEF LabMoves

(* The step finds nothing and throws nothing, now or once the lab is still.*)
Drains(e) == {"worker", "rabbitmq"} \cap e.down = {} /\ ~e.control.hold

Reply(e, origin) ==
  IF e.control.closed THEN "410"
  ELSE IF Shown(e.control, origin) \in {"kill", "invalid"} \/ {"ingest", "rabbitmq"} \cap e.down # {} THEN "503"
  ELSE IF {"ingest", "rabbitmq"} \subseteq e.up THEN "202"
  ELSE "unknown"

DepthSure(e, is) ==
  \/ is = "any"
  \/ is \in {"none", "drained"} /\ Batch \subseteq e.none
  \/ is = "queued" /\ e.queued # {}
  \/ is = "some" /\ e.main # {}
  \/ is = "one" /\ \E b \in e.main : Batch \ {b} \subseteq e.none

DepthComes(e, is) ==
  DepthSure(e, is) \/ (Drains(e) /\ (is \in {"none", "drained"} \/ e.queued # {}))

PageComes(e, states) ==
  \/ e.page \subseteq states
  \/ Shown(e.control, "primary") \in {"kill", "older"} /\ e.page \ {"active"} \subseteq states

LooksRight(e, what) ==
  /\ what \in Service => what \in e.up
  /\ what = "gate" => ~e.control.gate
  /\ what = "hold" => e.control.hold
  /\ what = "scopes" => e.control.scoped /\ e.control.document \notin {"kill", "invalid"}
  /\ what = "alert" => e.control.alert

Passes(e, step) ==
  /\ step.do # "throw"
  /\ step.do = "rotate" => "rabbitmq" \in e.up /\ step.services \cap e.down = {}
  /\ step.do = "await" => /\ step.services \cap e.down = {}
                          /\ step.services \cap {"ingest", "worker"} # {} => "rabbitmq" \notin e.down
  /\ step.do = "publish" => Reply(e, step.origin) \in step.statuses /\ step.batch # "left"
  /\ step.do = "purge" => "rabbitmq" \in e.up
  /\ step.do = "depth" => "rabbitmq" \in e.up /\ DepthComes(e, step.is)
  /\ step.do = "look" => "rabbitmq" \in e.up /\ DepthSure(e, step.is)
  /\ step.do = "index" => Drains(e) /\ "openobserve" \notin e.down /\ step.batches \cap e.kept # {}
  /\ step.do = "count" => "openobserve" \in e.up /\ step.batch \in e.kept \cap e.none
  /\ step.do = "ask" => "openobserve" \in e.up
  /\ step.do = "harness" =>
       {"rabbitmq", "openobserve"} \subseteq e.up /\ ~e.control.hold /\ step.batch \in e.main
  /\ step.do = "see" => PageComes(e, step.states)
  /\ step.do = "probe" => LooksRight(e, step.what)
  /\ step.do = "derive" => e.control.scoped \/ e.control.document = "open"

(* What can be relied on after it.                                         *)
UpAfter(e, step) ==
  CASE step.do = "stop" ->
         e.up \ (step.services \cup IF "rabbitmq" \in step.services THEN {"ingest", "worker"} ELSE {})
    [] step.do \in {"recreate", "rotate"} -> e.up \ step.services
    [] step.do = "await" -> e.up \cup step.services
    [] step.do = "wipe" -> {}
    [] OTHER -> e.up

DownAfter(e, step) ==
  CASE step.do = "stop" -> e.down \cup step.services
    [] step.do \in {"start", "recreate"} -> e.down \ step.services
    [] step.do = "wipe" -> {}
    [] OTHER -> e.down

ControlAfter(e, step) ==
  CASE step.do \in {"hold", "document", "scoped", "gate", "alert"} ->
         [e.control EXCEPT ![step.do] = step.value]
    [] step.do = "derive" ->
         [e.control EXCEPT !.hold = e.control.scoped \/ e.control.document \in {"kill", "invalid"}]
    [] step.do = "reload" -> [e.control EXCEPT !.closed = e.control.gate]
    [] step.do = "outlive" -> [e.control EXCEPT !.document = "invalid"]
    [] step.do = "wipe" -> Open
    [] OTHER -> e.control

SyncedAfter(e, step) ==
  step.do = "settle" \/ (e.synced /\ step.do \notin {"hold", "derive", "wipe"})

Admits(e, step) == step.do = "publish" /\ Reply(e, step.origin) = "202"
Empties(step) == step.do \in {"purge", "wipe"}

NoneAfter(e, step) ==
  CASE step.do = "wipe" -> Batch
    [] step.do = "depth" /\ step.is = "drained" -> Batch
    [] step.do = "purge" /\ step.place = "retry" /\ e.swept -> Batch
    [] Admits(e, step) -> e.none \ ({step.batch} \cup IF step.batch \in e.none THEN {} ELSE {"left"})
    [] OTHER -> e.none

KeptAfter(e, step, kept) ==
  CASE Empties(step) -> {}
    [] Admits(e, step) -> (kept \ {"left"}) \cup {step.batch}
    [] OTHER -> kept

PageAfter(e, step) ==
  CASE step.do = "browse" -> {CASE Shown(e.control, "primary") = "kill" -> "latched"
                                [] Shown(e.control, "primary") = "invalid" -> "blocked"
                                [] OTHER -> "active"}
    [] step.do = "see" -> e.page \cap step.states
    [] step.do = "outlive" ->
         (e.page \ {"active"}) \cup IF "active" \in e.page THEN {"blocked"} ELSE {}
    [] step.do = "wipe" -> {"none"}
    [] OTHER -> e.page

Justified(e, step, f) ==
  /\ f.up \subseteq UpAfter(e, step) /\ f.down = DownAfter(e, step)
  /\ f.control = ControlAfter(e, step) /\ (f.synced => SyncedAfter(e, step))
  /\ f.none \subseteq NoneAfter(e, step) /\ f.main \subseteq KeptAfter(e, step, e.main)
  /\ f.queued \subseteq KeptAfter(e, step, e.main \cup e.queued)
  /\ f.kept \subseteq KeptAfter(e, step, e.kept)
  /\ f.swept => step.do = "purge" /\ step.place = "main"
  /\ PageAfter(e, step) \subseteq f.page

PlainQuiet ==
  {x \in Expectations \X PlainStep \X Expectations : Passes(x[1], x[2]) /\ Justified(x[1], x[2], x[3])}

(* At the edges of a block no purge is half done.                          *)
Edges == {e \in Expectations : ~e.swept}
NestedQuiet == PlainQuiet \cup Through(Expectations, PlainQuiet, Edges, PlainStep)
ScriptQuiet == NestedQuiet \cup Through(Expectations, NestedQuiet, Edges, NestedStep)

(* Once the lab is still, what can rise has risen and what can drain has   *)
(* drained: a wait that nothing cut short has found what it was for.       *)
LEMMA StillIsUp ==
  ASSUME LabTypeOK, Still, NEW e \in Expectations, Meets(e), NEW s \in Service, s \notin e.down,
         s \in {"ingest", "worker"} => "rabbitmq" \notin e.down
  PROVE  Up(s)
<1>1. "rabbitmq" \in Service
  BY DEF Service
<1>2. ASSUME NEW x \in Service, x \notin e.down
      PROVE  services[x] \in {"up", "starting"}
  BY <1>2 DEF Meets, ServicesMeet, LabTypeOK
<1>3. ASSUME NEW x \in Service, services[x] = "starting"
      PROVE  x \in {"ingest", "worker"} /\ ~Up("rabbitmq")
  BY <1>3 DEF Still, CanRise
<1>4. "rabbitmq" \notin e.down => Up("rabbitmq")
  BY <1>1, <1>2, <1>3 DEF Up
<1> QED BY <1>2, <1>3, <1>4 DEF Up

LEMMA StillDrains ==
  ASSUME LabTypeOK, Still, NEW e \in Expectations, Meets(e), Drains(e)
  PROVE  Queued = {}
<1>1. {"worker", "rabbitmq"} \subseteq Service /\ "hold" \in Switches
  BY DEF Service, Switches
<1>2. Up("worker") /\ Up("rabbitmq")
  BY <1>1, StillIsUp DEF Drains
<1>3. ~control.hold
  BY <1>1 DEF Drains, Meets, ControlMeets
<1>4. control.held = control.hold
  BY <1>2 DEF Still, CanNotice
<1>5. ASSUME NEW b \in Batch
      PROVE  queue[b] = "none"
  <2>1. queue[b] # "main"
    BY <1>2, <1>3, <1>4 DEF Still, CanTake, Consuming
  <2>2. queue[b] # "taken" /\ queue[b] # "retry"
    BY <1>2 DEF Still, CanDeliver, CanExpire, Consuming
  <2> QED BY <2>1, <2>2 DEF LabTypeOK, Place
<1> QED BY <1>5 DEF Queued

LEMMA DepthSureIs ==
  ASSUME LabTypeOK, NEW e \in Expectations, Meets(e), NEW is \in Depths, DepthSure(e, is)
  PROVE  DepthIs(is)
<1>1. \A b \in Batch : /\ b \in e.none => queue[b] = "none"
                       /\ b \in e.main => queue[b] = "main"
                       /\ b \in e.queued => queue[b] # "none"
  BY DEF Meets, QueuesMeet
<1>2. e.main \subseteq Batch /\ e.queued \subseteq Batch
  BY DEF Expectations
<1>3. CASE is = "one"
  <2>1. PICK b \in e.main : Batch \ {b} \subseteq e.none
    BY <1>3 DEF DepthSure
  <2>2. InQueue = {b}
    BY <1>1, <1>2, <2>1 DEF InQueue
  <2>3. Cardinality(InQueue) = 1
    BY <2>2, FS_Singleton
  <2> QED BY <1>3, <2>3 DEF DepthIs
<1>4. CASE is = "any"
  BY <1>4 DEF DepthIs
<1>5. CASE is \in {"none", "drained"}
  <2>1. Queued = {} /\ InQueue = {}
    BY <1>1, <1>5 DEF DepthSure, Queued, InQueue
  <2> QED BY <1>5, <2>1 DEF DepthIs
<1>6. CASE is = "queued"
  <2>1. Queued # {}
    BY <1>1, <1>2, <1>6 DEF DepthSure, Queued
  <2> QED BY <1>6, <2>1 DEF DepthIs
<1>7. CASE is = "some"
  <2>1. InQueue # {}
    BY <1>1, <1>2, <1>7 DEF DepthSure, InQueue
  <2> QED BY <1>7, <2>1 DEF DepthIs
<1> QED BY <1>3, <1>4, <1>5, <1>6, <1>7 DEF Depths

LEMMA DepthComesIs ==
  ASSUME LabTypeOK, NEW e \in Expectations, Meets(e), NEW is \in Depths, DepthComes(e, is), Still
  PROVE  DepthIs(is)
<1>1. CASE DepthSure(e, is)
  BY <1>1, DepthSureIs
<1>2. CASE Drains(e)
  <2>1. Queued = {}
    BY <1>2, StillDrains
  <2>2. InQueue = {}
    BY <2>1 DEF Queued, InQueue
  <2>3. e.queued = {}
    BY <2>1 DEF Meets, QueuesMeet, Queued, Expectations
  <2> QED BY <1>1, <2>1, <2>2, <2>3 DEF DepthComes, DepthIs
<1> QED BY <1>1, <1>2 DEF DepthComes

LEMMA ReplyIsStatus ==
  ASSUME LabTypeOK, NEW e \in Expectations, Meets(e), NEW origin, Reply(e, origin) # "unknown"
  PROVE  Status(origin) = Reply(e, origin)
<1>1. {"ingest", "rabbitmq"} \subseteq Service /\ "closed" \in Switches
  BY DEF Service, Switches
<1>2. control.closed = e.control.closed /\ Served(origin) = Shown(e.control, origin)
  BY <1>1, ShownIsServed DEF Meets, ControlMeets
<1>3. /\ "ingest" \in e.down <=> services["ingest"] = "down"
      /\ "ingest" \in e.down => ~Up("ingest")
      /\ "rabbitmq" \in e.down => ~Up("rabbitmq")
      /\ "ingest" \in e.up => Up("ingest")
      /\ "rabbitmq" \in e.up => Up("rabbitmq")
  BY <1>1 DEF Meets, ServicesMeet, Up
<1> QED BY <1>2, <1>3 DEF Status, Ingests, Reply

(* What a step leaves alone is as it was relied on.                        *)
LEMMA ServicesStay ==
  ASSUME NEW e \in Expectations, NEW f \in Expectations, NEW step, Justified(e, step, f),
         ServicesMeet(e), UNCHANGED services,
         step.do \notin {"stop", "start", "recreate", "rotate", "await", "wipe"}
  PROVE  ServicesMeet(f)'
<1>1. f.up \subseteq e.up /\ f.down = e.down
  BY DEF Justified, UpAfter, DownAfter
<1> QED BY <1>1 DEF ServicesMeet

LEMMA ControlStays ==
  ASSUME NEW e \in Expectations, NEW f \in Expectations, NEW step, Justified(e, step, f),
         ControlMeets(e), UNCHANGED control, services'["worker"] = "up" => services["worker"] = "up",
         step.do \notin {"hold", "document", "scoped", "gate", "alert", "derive", "reload", "outlive",
                         "wipe", "settle"}
  PROVE  ControlMeets(f)'
<1>1. f.control = e.control /\ (f.synced => e.synced)
  BY DEF Justified, ControlAfter, SyncedAfter
<1> QED BY <1>1 DEF ControlMeets

LEMMA QueuesStay ==
  ASSUME NEW e \in Expectations, NEW f \in Expectations, NEW step, Justified(e, step, f),
         QueuesMeet(e), \A b \in Batch : queue'[b] = "none" <=> queue[b] = "none",
         \A b \in Batch : queue[b] = "main" => queue'[b] = "main", indexed \subseteq indexed',
         step.do \notin {"publish", "purge", "wipe"},
         step.do = "depth" /\ step.is = "drained" => Queued = {}
  PROVE  QueuesMeet(f)'
<1>1. /\ f.main \subseteq e.main /\ f.queued \subseteq e.main \cup e.queued /\ f.kept \subseteq e.kept
      /\ ~f.swept
      /\ f.none \subseteq IF step.do = "depth" /\ step.is = "drained" THEN Batch ELSE e.none
  BY DEF Justified, NoneAfter, KeptAfter, Admits, Empties
<1>2. ASSUME NEW b \in Batch, b \in f.none
      PROVE  queue'[b] = "none"
  <2>1. CASE b \in e.none
    BY <2>1 DEF QueuesMeet
  <2>2. CASE Queued = {}
    BY <2>2 DEF Queued
  <2> QED BY <1>1, <1>2, <2>1, <2>2
<1>3. ASSUME NEW b \in Batch
      PROVE  /\ b \in f.main => queue'[b] = "main"
             /\ b \in f.queued => queue'[b] # "none"
             /\ b \in f.kept => queue'[b] # "none" \/ b \in indexed'
  BY <1>1 DEF QueuesMeet
<1> QED BY <1>1, <1>2, <1>3 DEF QueuesMeet

LEMMA PageStays ==
  ASSUME NEW e \in Expectations, NEW f \in Expectations, NEW step, Justified(e, step, f),
         page \in e.page, UNCHANGED page, step.do \notin {"browse", "see", "outlive", "wipe"}
  PROVE  (page \in f.page)'
BY DEF Justified, PageAfter

(* The steps of an undisturbed script, by what they change.                *)
LEMMA QuietContainers ==
  ASSUME LabTypeOK, NEW e \in Expectations, NEW f \in Expectations, Meets(e), Step \in PlainStep,
         Passes(e, Step), Justified(e, Step, f),
         StopContainer \/ StartContainers \/ RecreateContainers \/ RotateCredential
  PROVE  Continues /\ Meets(f)'
<1> DEFINE S == Step.services
<1>1. Step.do \in {"stop", "start", "recreate", "rotate"}
  BY DEF StopContainer, StartContainers, RecreateContainers, RotateCredential, Doing
<1>2. S \subseteq Service /\ {"worker", "rabbitmq"} \subseteq Service
  BY <1>1, PlainFields DEF Service
<1>3. ServicesMeet(e) /\ ControlMeets(e) /\ QueuesMeet(e) /\ page \in e.page
  BY DEF Meets
<1>4. RotateCredential => Up("rabbitmq") /\ S \cap e.down = {}
  <2>1. RotateCredential => "rabbitmq" \in e.up /\ S \cap e.down = {}
    BY DEF RotateCredential, Doing, Passes
  <2> QED BY <1>2, <1>3, <2>1 DEF ServicesMeet, Up
<1>5. Continues /\ UNCHANGED <<control, indexed, page>>
  BY <1>4 DEF StopContainer, StartContainers, RecreateContainers, RotateCredential
<1>6. queue' = queue \/ queue' = Untaken
  BY <1>4 DEF StopContainer, StartContainers, RecreateContainers, RotateCredential, Recreated
<1>7. \A b \in Batch : /\ queue'[b] = "none" <=> queue[b] = "none"
                       /\ queue[b] = "main" => queue'[b] = "main"
  BY <1>6 DEF Untaken
<1>8. QueuesMeet(f)'
  BY <1>1, <1>3, <1>5, <1>7, QueuesStay
<1>9. (page \in f.page)'
  BY <1>1, <1>3, <1>5, PageStays
<1>10. ServicesMeet(f)' /\ (services'["worker"] = "up" => services["worker"] = "up")
  <2>1. CASE StopContainer
    <3>1. /\ f.up \subseteq e.up \ (S \cup IF "rabbitmq" \in S THEN {"ingest", "worker"} ELSE {})
          /\ f.down = e.down \cup S
      BY <2>1 DEF StopContainer, Doing, Justified, UpAfter, DownAfter
    <3>2. \A s \in Service :
            /\ s \in S => services'[s] = "down"
            /\ s \notin S => \/ services'[s] = services[s]
                             \/ /\ "rabbitmq" \in S /\ s \in {"ingest", "worker"}
                                /\ services[s] = "up" /\ services'[s] = "starting"
      BY <2>1 DEF StopContainer, Up, LabTypeOK
    <3>3. "worker" \in Service
      BY DEF Service
    <3>4. services'["worker"] = "up" => services["worker"] = "up"
      BY <3>2, <3>3
    <3>5. ASSUME NEW s \in Service
          PROVE  (s \in f.up => services'[s] = "up") /\ (s \in f.down <=> services'[s] = "down")
      <4>1. (s \in e.up => services[s] = "up") /\ (s \in e.down <=> services[s] = "down")
        BY <1>3 DEF ServicesMeet
      <4>2. CASE s \in S
        BY <3>1, <3>2, <4>2
      <4>3. CASE s \notin S
        BY <3>1, <3>2, <4>1, <4>3
      <4> QED BY <4>2, <4>3
    <3> QED BY <3>4, <3>5 DEF ServicesMeet
  <2>2. CASE StartContainers
    <3>1. f.up \subseteq e.up /\ f.down = e.down \ S
      BY <2>2 DEF StartContainers, Doing, Justified, UpAfter, DownAfter
    <3> QED BY <1>2, <1>3, <2>2, <3>1 DEF StartContainers, ServicesMeet, LabTypeOK
  <2>3. CASE RecreateContainers
    <3>1. f.up \subseteq e.up \ S /\ f.down = e.down \ S
      BY <2>3 DEF RecreateContainers, Doing, Justified, UpAfter, DownAfter
    <3> QED BY <1>2, <1>3, <2>3, <3>1 DEF RecreateContainers, Recreated, ServicesMeet, LabTypeOK
  <2>4. CASE RotateCredential
    <3>1. f.up \subseteq e.up \ S /\ f.down = e.down
      BY <2>4 DEF RotateCredential, Doing, Justified, UpAfter, DownAfter
    <3>2. services' = [s \in Service |-> IF s \in S THEN "starting" ELSE services[s]]
      BY <1>4, <2>4 DEF RotateCredential, Recreated
    <3> QED BY <1>2, <1>3, <1>4, <2>4, <3>1, <3>2 DEF ServicesMeet, LabTypeOK
  <2> QED BY <2>1, <2>2, <2>3, <2>4
<1>11. ControlMeets(f)'
  BY <1>1, <1>3, <1>5, <1>10, ControlStays
<1> QED BY <1>5, <1>8, <1>9, <1>10, <1>11 DEF Meets

LEMMA QuietWipe ==
  ASSUME NEW e \in Expectations, NEW f \in Expectations, Justified(e, Step, f), WipeLab
  PROVE  Continues /\ Meets(f)'
<1>1. Step.do = "wipe" /\ Continues
  BY DEF WipeLab, Doing
<1>2. f.control = Open /\ ~f.synced /\ ~f.swept
  BY <1>1 DEF Justified, ControlAfter, SyncedAfter
<1>a. f.main = {} /\ f.queued = {} /\ f.kept = {} /\ "none" \in f.page
  BY <1>1 DEF Justified, KeptAfter, Empties, Admits, PageAfter
<1>b. f.up = {} /\ f.down = {}
  BY <1>1 DEF Justified, UpAfter, DownAfter
<1>3. ServicesMeet(f)'
  BY <1>b DEF WipeLab, ServicesMeet
<1>4. ControlMeets(f)'
  BY <1>2 DEF WipeLab, ControlMeets
<1>5. QueuesMeet(f)'
  BY <1>2, <1>a DEF WipeLab, QueuesMeet
<1>6. (page \in f.page)'
  BY <1>a DEF WipeLab
<1> QED BY <1>1, <1>3, <1>4, <1>5, <1>6 DEF Meets

LEMMA QuietControls ==
  ASSUME LabTypeOK, NEW e \in Expectations, NEW f \in Expectations, Meets(e),
         Justified(e, Step, f), SetControl \/ DeriveHold \/ ReloadProxy \/ OutliveDocument
  PROVE  Continues /\ Meets(f)'
<1>1. Step.do \in {"hold", "document", "scoped", "gate", "alert", "derive", "reload", "outlive"}
  BY DEF SetControl, DeriveHold, ReloadProxy, OutliveDocument, Doing
<1>2. ServicesMeet(e) /\ ControlMeets(e) /\ QueuesMeet(e) /\ page \in e.page
  BY DEF Meets
<1>3. Continues /\ UNCHANGED <<services, queue, indexed>>
  BY DEF SetControl, DeriveHold, ReloadProxy, OutliveDocument
<1>4. ServicesMeet(f)'
  BY <1>1, <1>2, <1>3, ServicesStay
<1>5. QueuesMeet(f)'
  BY <1>1, <1>2, <1>3, QueuesStay
<1>6. (page \in f.page)'
  <2>1. CASE OutliveDocument
    <3>1. (e.page \ {"active"}) \cup (IF "active" \in e.page THEN {"blocked"} ELSE {}) \subseteq f.page
      BY <2>1 DEF OutliveDocument, Doing, Justified, PageAfter
    <3> QED BY <1>2, <2>1, <3>1 DEF OutliveDocument
  <2>2. CASE SetControl \/ DeriveHold \/ ReloadProxy
    <3>1. UNCHANGED page /\ Step.do # "outlive"
      BY <2>2 DEF SetControl, DeriveHold, ReloadProxy, Doing
    <3> QED BY <1>1, <1>2, <3>1, PageStays
  <2> QED BY <2>1, <2>2
<1>7. /\ e.control \in Controls /\ f.control = ControlAfter(e, Step)
      /\ \A c \in Switches : control[c] = e.control[c]
  BY <1>2 DEF Expectations, Justified, ControlMeets
<1>8. \A c \in Switches : control'[c] = f.control[c]
  <2>1. CASE SetControl
    <3>1. PICK field \in {"hold", "document", "scoped", "gate", "alert"} :
            Step.do = field /\ control' = [control EXCEPT ![field] = Step.value]
      BY <2>1 DEF SetControl, Doing
    <3>2. f.control = [e.control EXCEPT ![field] = Step.value]
      BY <1>7, <3>1 DEF ControlAfter
    <3> QED BY <1>7, <3>1, <3>2 DEF LabTypeOK, Controls, Switches
  <2>2. CASE DeriveHold
    <3>1. Step.do = "derive"
          /\ control' = [control EXCEPT !.hold = control.scoped \/ control.document \in {"kill", "invalid"}]
      BY <2>2 DEF DeriveHold, Doing
    <3>2. f.control = [e.control EXCEPT !.hold = e.control.scoped \/ e.control.document \in {"kill", "invalid"}]
      BY <1>7, <3>1 DEF ControlAfter
    <3>3. control.scoped = e.control.scoped /\ control.document = e.control.document
      BY <1>7 DEF Switches
    <3> QED BY <1>7, <3>1, <3>2, <3>3 DEF LabTypeOK, Controls, Switches
  <2>3. CASE ReloadProxy
    <3>1. Step.do = "reload" /\ control' = [control EXCEPT !.closed = control.gate]
      BY <2>3 DEF ReloadProxy, Doing
    <3>2. f.control = [e.control EXCEPT !.closed = e.control.gate]
      BY <1>7, <3>1 DEF ControlAfter
    <3>3. control.gate = e.control.gate
      BY <1>7 DEF Switches
    <3> QED BY <1>7, <3>1, <3>2, <3>3 DEF LabTypeOK, Controls, Switches
  <2>4. CASE OutliveDocument
    <3>1. Step.do = "outlive" /\ control' = [control EXCEPT !.document = "invalid"]
      BY <2>4 DEF OutliveDocument, Doing
    <3>2. f.control = [e.control EXCEPT !.document = "invalid"]
      BY <1>7, <3>1 DEF ControlAfter
    <3> QED BY <1>7, <3>1, <3>2 DEF LabTypeOK, Controls, Switches
  <2> QED BY <2>1, <2>2, <2>3, <2>4
<1>9. f.synced /\ services'["worker"] = "up" => control'.held = control'.hold
  <2>1. f.synced => e.synced /\ Step.do \notin {"hold", "derive", "settle"}
    BY <1>1 DEF Justified, SyncedAfter
  <2>2. Step.do \notin {"hold", "derive"} => control'.held = control.held /\ control'.hold = control.hold
    BY DEF SetControl, DeriveHold, ReloadProxy, OutliveDocument, Doing, LabTypeOK, Controls
  <2>3. e.synced /\ services["worker"] = "up" => control.held = control.hold
    BY <1>2 DEF ControlMeets
  <2> QED BY <1>3, <2>1, <2>2, <2>3
<1>10. ControlMeets(f)'
  BY <1>8, <1>9 DEF ControlMeets
<1> QED BY <1>3, <1>4, <1>5, <1>6, <1>10 DEF Meets

LEMMA QuietPublish ==
  ASSUME LabTypeOK, NEW e \in Expectations, NEW f \in Expectations, Meets(e), Step \in PlainStep,
         Passes(e, Step), Justified(e, Step, f), PublishBatch
  PROVE  Continues /\ Meets(f)'
<1> DEFINE b == Step.batch
<1>1. Step.do = "publish" /\ b \in Batch /\ b # "left" /\ "left" \in Batch /\ Step.statuses \subseteq Answers
  BY PlainFields DEF PublishBatch, Doing, Passes, Batch
<1>2. ServicesMeet(e) /\ ControlMeets(e) /\ QueuesMeet(e) /\ page \in e.page
  BY DEF Meets
<1>3. Reply(e, Step.origin) \in Step.statuses
  BY <1>1 DEF Passes
<1>4. Status(Step.origin) = Reply(e, Step.origin)
  <2>1. "unknown" \notin Step.statuses
    BY <1>1 DEF Answers
  <2> QED BY <1>3, <2>1, ReplyIsStatus
<1>5. Continues /\ UNCHANGED <<services, control, page>>
  BY <1>3, <1>4 DEF PublishBatch
<1>6. ServicesMeet(f)' /\ ControlMeets(f)' /\ (page \in f.page)'
  BY <1>1, <1>2, <1>5, ServicesStay, ControlStays, PageStays
<1>7. ~f.swept
  BY <1>1 DEF Justified
<1>8. CASE Reply(e, Step.origin) = "202"
  <2>1. /\ f.none \subseteq e.none \ ({b} \cup IF b \in e.none THEN {} ELSE {"left"})
        /\ f.main \subseteq (e.main \ {"left"}) \cup {b}
        /\ f.queued \subseteq ((e.main \cup e.queued) \ {"left"}) \cup {b}
        /\ f.kept \subseteq (e.kept \ {"left"}) \cup {b}
    BY <1>1, <1>8 DEF Justified, NoneAfter, KeptAfter, Admits, Empties
  <2>2. /\ queue'[b] = "main"
        /\ queue'["left"] = IF queue[b] = "none" THEN queue["left"] ELSE queue[b]
        /\ \A x \in Batch \ {b, "left"} : queue'[x] = queue[x]
        /\ indexed' = indexed \ {b}
    BY <1>1, <1>4, <1>8 DEF PublishBatch, LabTypeOK
  <2>3. ASSUME NEW x \in Batch
        PROVE  /\ x \in f.none => queue'[x] = "none"
               /\ x \in f.main => queue'[x] = "main"
               /\ x \in f.queued => queue'[x] # "none"
               /\ x \in f.kept => queue'[x] # "none" \/ x \in indexed'
    <3>1. CASE x = b
      BY <2>1, <2>2, <3>1
    <3>2. CASE x = "left"
      BY <1>1, <1>2, <2>1, <2>2, <3>2 DEF QueuesMeet
    <3>3. CASE x # b /\ x # "left"
      BY <1>2, <2>1, <2>2, <3>3 DEF QueuesMeet
    <3> QED BY <3>1, <3>2, <3>3
  <2> QED BY <1>5, <1>6, <1>7, <2>3 DEF Meets, QueuesMeet
<1>9. CASE Reply(e, Step.origin) # "202"
  <2>1. UNCHANGED <<queue, indexed>>
    BY <1>4, <1>9 DEF PublishBatch
  <2>2. /\ f.none \subseteq e.none /\ f.main \subseteq e.main
        /\ f.queued \subseteq e.main \cup e.queued /\ f.kept \subseteq e.kept
    BY <1>1, <1>9 DEF Justified, NoneAfter, KeptAfter, Admits, Empties
  <2>3. QueuesMeet(f)'
    BY <1>2, <1>7, <2>1, <2>2 DEF QueuesMeet
  <2> QED BY <1>5, <1>6, <2>3 DEF Meets
<1> QED BY <1>8, <1>9

LEMMA QuietPurge ==
  ASSUME LabTypeOK, NEW e \in Expectations, NEW f \in Expectations, Meets(e), Step \in PlainStep,
         Passes(e, Step), Justified(e, Step, f), PurgeQueue, ~disturbed'
  PROVE  Continues /\ Meets(f)'
<1>1. Step.do = "purge" /\ Doing("purge") /\ Continues /\ UNCHANGED <<services, control, indexed, page>>
  BY DEF PurgeQueue, Doing
<1>2. ServicesMeet(e) /\ ControlMeets(e) /\ QueuesMeet(e) /\ page \in e.page
  BY DEF Meets
<1>3. ServicesMeet(f)' /\ ControlMeets(f)' /\ (page \in f.page)'
  BY <1>1, <1>2, ServicesStay, ControlStays, PageStays
<1>4. Up("rabbitmq") /\ \A b \in Batch : queue[b] # "taken"
  <2>1. "rabbitmq" \in e.up /\ "rabbitmq" \in Service
    BY <1>1 DEF Passes, Service
  <2> QED BY <1>2, <2>1 DEF ServicesMeet, Up, PurgeQueue
<1>5. f.main = {} /\ f.queued = {} /\ f.kept = {} /\ (f.swept => Step.place = "main")
  BY <1>1 DEF Justified, KeptAfter, Empties, Admits
<1>6. f.none \subseteq IF Step.place = "retry" /\ e.swept THEN Batch ELSE e.none
  BY <1>1 DEF Justified, NoneAfter, Admits
<1>7. \A b \in Batch : queue'[b] = IF queue[b] = Step.place THEN "none" ELSE queue[b]
  BY <1>4 DEF PurgeQueue
<1>8. ASSUME NEW b \in Batch
      PROVE  /\ b \in f.none => queue'[b] = "none"
             /\ f.swept => queue'[b] \in {"none", "retry"}
  <2>1. queue[b] \in {"none", "main", "retry"}
    BY <1>4 DEF LabTypeOK, Place
  <2>2. e.swept => queue[b] \in {"none", "retry"}
    BY <1>1, <1>2 DEF QueuesMeet
  <2>3. b \in e.none => queue[b] = "none"
    BY <1>2 DEF QueuesMeet
  <2> QED BY <1>5, <1>6, <1>7, <2>1, <2>2, <2>3
<1>9. QueuesMeet(f)'
  BY <1>5, <1>8 DEF QueuesMeet
<1> QED BY <1>1, <1>3, <1>9 DEF Meets

LEMMA QuietLooks ==
  ASSUME LabTypeOK, NEW e \in Expectations, NEW f \in Expectations, Meets(e), Step \in PlainStep,
         Passes(e, Step), Justified(e, Step, f),
         LookAtDepth \/ CountBatch \/ AskOpenObserve \/ ProbeLab \/ RunHarness \/ BrowsePage
  PROVE  Continues /\ Meets(f)'
<1>1. Step.do \in {"look", "count", "ask", "probe", "harness", "browse"}
  BY DEF LookAtDepth, CountBatch, AskOpenObserve, ProbeLab, RunHarness, BrowsePage, Doing
<1>2. ServicesMeet(e) /\ ControlMeets(e) /\ QueuesMeet(e) /\ page \in e.page
  BY DEF Meets
<1>3. UNCHANGED <<services, control, queue>> /\ indexed \subseteq indexed'
  BY DEF LookAtDepth, CountBatch, AskOpenObserve, ProbeLab, RunHarness, BrowsePage
<1>4. ServicesMeet(f)' /\ ControlMeets(f)' /\ QueuesMeet(f)'
  BY <1>1, <1>2, <1>3, ServicesStay, ControlStays, QueuesStay
<1>5. (page \in f.page)'
  <2>1. CASE BrowsePage
    <3>1. Served("primary") = Shown(e.control, "primary")
      BY <1>2, ShownIsServed
    <3>2. (CASE Shown(e.control, "primary") = "kill" -> "latched"
             [] Shown(e.control, "primary") = "invalid" -> "blocked"
             [] OTHER -> "active") \in f.page
      BY <2>1 DEF BrowsePage, Doing, Justified, PageAfter
    <3> QED BY <2>1, <3>1, <3>2 DEF BrowsePage
  <2>2. CASE ~BrowsePage
    <3>1. UNCHANGED page /\ Step.do # "browse"
      BY <2>2 DEF LookAtDepth, CountBatch, AskOpenObserve, ProbeLab, RunHarness, Doing
    <3> QED BY <1>1, <1>2, <3>1, PageStays
  <2> QED BY <2>1, <2>2
<1>6. \A s \in Service : s \in e.up => Up(s)
  BY <1>2 DEF ServicesMeet, Up
<1>7. "openobserve" \in Service /\ "rabbitmq" \in Service
  BY DEF Service
<1>8. Continues
  <2>1. CASE LookAtDepth
    <3>1. Step.do = "look" /\ Step.is \in Depths /\ "rabbitmq" \in e.up /\ DepthSure(e, Step.is)
      BY <2>1, PlainFields DEF LookAtDepth, Doing, Passes
    <3>2. Up("rabbitmq") /\ DepthIs(Step.is)
      BY <1>6, <1>7, <3>1, DepthSureIs
    <3> QED BY <2>1, <3>2 DEF LookAtDepth
  <2>2. CASE CountBatch
    <3>1. Step.batch \in Batch /\ "openobserve" \in e.up /\ Step.batch \in e.kept \cap e.none
      BY <2>2, PlainFields DEF CountBatch, Doing, Passes
    <3>2. Step.batch \in indexed
      BY <1>2, <3>1 DEF QueuesMeet
    <3> QED BY <1>6, <1>7, <2>2, <3>1, <3>2 DEF CountBatch
  <2>3. CASE AskOpenObserve
    <3>1. "openobserve" \in e.up
      BY <2>3 DEF AskOpenObserve, Doing, Passes
    <3> QED BY <1>6, <1>7, <2>3, <3>1 DEF AskOpenObserve
  <2>4. CASE ProbeLab
    <3>1. LooksRight(e, Step.what)
      BY <2>4 DEF ProbeLab, Doing, Passes
    <3>2. control.gate = e.control.gate /\ control.hold = e.control.hold /\ control.alert = e.control.alert
          /\ control.scoped = e.control.scoped /\ control.document = e.control.document
      BY <1>2 DEF ControlMeets, Switches
    <3>3. Served("primary") = Shown(e.control, "primary") /\ Served("alternate") = Shown(e.control, "alternate")
      BY <1>2, ShownIsServed
    <3>4. AsItShould(Step.what)
      <4>1. CASE Step.what \in Service
        BY <1>6, <3>1, <4>1 DEF LooksRight, AsItShould, Service
      <4>2. CASE Step.what = "scopes"
        BY <3>1, <3>3, <4>2 DEF LooksRight, AsItShould, Shown, Service
      <4>3. CASE Step.what \notin Service /\ Step.what # "scopes"
        <5>1. CASE Step.what = "gate"
          BY <3>1, <3>2, <5>1 DEF LooksRight, AsItShould, Service
        <5>2. CASE Step.what = "hold"
          BY <3>1, <3>2, <5>2 DEF LooksRight, AsItShould, Service
        <5>3. CASE Step.what = "alert"
          BY <3>1, <3>2, <5>3 DEF LooksRight, AsItShould, Service
        <5>4. CASE Step.what \notin {"gate", "hold", "alert"}
          BY <4>3, <5>4 DEF AsItShould
        <5> QED BY <5>1, <5>2, <5>3, <5>4
      <4> QED BY <4>1, <4>2, <4>3
    <3> QED BY <2>4, <3>4 DEF ProbeLab
  <2>5. CASE RunHarness
    <3>1. /\ Step.batch \in Batch /\ {"rabbitmq", "openobserve"} \subseteq e.up
          /\ ~e.control.hold /\ Step.batch \in e.main
      BY <2>5, PlainFields DEF RunHarness, Doing, Passes
    <3>2. "hold" \in Switches
      BY DEF Switches
    <3>3. ~control.hold
      <4>1. control.hold = e.control.hold
        BY <1>2, <3>2 DEF ControlMeets
      <4> QED BY <3>1, <4>1
    <3>4. Up("rabbitmq") /\ Up("openobserve") /\ queue[Step.batch] = "main"
      BY <1>2, <1>6, <1>7, <3>1 DEF QueuesMeet
    <3> QED BY <2>5, <3>3, <3>4 DEF RunHarness
  <2>6. CASE BrowsePage
    BY <2>6 DEF BrowsePage
  <2> QED BY <2>1, <2>2, <2>3, <2>4, <2>5, <2>6
<1> QED BY <1>4, <1>5, <1>8 DEF Meets

LEMMA QuietWaitings ==
  ASSUME LabTypeOK, NEW e \in Expectations, NEW f \in Expectations, Meets(e), Step \in PlainStep,
         Passes(e, Step), Justified(e, Step, f), ~disturbed',
         AwaitContainers \/ WaitForDepth \/ WaitForRows \/ SettleHold \/ SeePage
  PROVE  Continues /\ Meets(f)'
<1>1. Step.do \in {"await", "depth", "index", "settle", "see"}
  BY DEF AwaitContainers, WaitForDepth, WaitForRows, SettleHold, SeePage, Doing
<1>2. ServicesMeet(e) /\ ControlMeets(e) /\ QueuesMeet(e) /\ page \in e.page
  BY DEF Meets
<1>3. UNCHANGED <<services, control, queue, indexed, page>>
  BY DEF AwaitContainers, WaitForDepth, WaitForRows, SettleHold, SeePage
<1>4. \A s \in Service : s \in e.up => Up(s)
  BY <1>2 DEF ServicesMeet, Up
<1>5. {"openobserve", "rabbitmq", "worker"} \subseteq Service
  BY DEF Service
<1>6. CASE AwaitContainers
  <2>1. /\ Step.do = "await" /\ Step.services \subseteq Service /\ Step.services \cap e.down = {}
        /\ Step.services \cap {"ingest", "worker"} # {} => "rabbitmq" \notin e.down
    BY <1>6, PlainFields DEF AwaitContainers, Doing, Passes
  <2>2. Still => \A s \in Step.services : Up(s)
    BY <2>1, StillIsUp
  <2>3. Waits(\A s \in Step.services : Up(s), Step.otherwise)
    BY <1>6 DEF AwaitContainers
  <2>4. Continues /\ \A s \in Step.services : Up(s)
    BY <2>2, <2>3 DEF Waits
  <2>5. f.up \subseteq e.up \cup Step.services /\ f.down = e.down
    BY <2>1 DEF Justified, UpAfter, DownAfter
  <2>6. ServicesMeet(f)'
    BY <1>2, <1>3, <2>4, <2>5 DEF ServicesMeet, Up
  <2> QED BY <1>2, <1>3, <2>1, <2>4, <2>6, ControlStays, QueuesStay, PageStays DEF Meets
<1>7. CASE WaitForDepth
  <2>1. Step.do = "depth" /\ Step.is \in Depths /\ "rabbitmq" \in e.up /\ DepthComes(e, Step.is)
    BY <1>7, PlainFields DEF WaitForDepth, Doing, Passes
  <2>2. Up("rabbitmq")
    BY <1>4, <1>5, <2>1
  <2>3. Waits(DepthIs(Step.is), Step.otherwise)
    BY <1>7, <2>2 DEF WaitForDepth
  <2>4. Still => DepthIs(Step.is)
    BY <2>1, DepthComesIs
  <2>5. Continues /\ DepthIs(Step.is)
    BY <2>3, <2>4 DEF Waits
  <2>6. Step.is = "drained" => Queued = {}
    BY <2>5 DEF DepthIs
  <2> QED BY <1>2, <1>3, <2>1, <2>5, <2>6, ServicesStay, ControlStays, QueuesStay, PageStays DEF Meets
<1>8. CASE WaitForRows
  <2>1. /\ Step.do = "index" /\ Step.batches \subseteq Batch
        /\ Drains(e) /\ "openobserve" \notin e.down /\ Step.batches \cap e.kept # {}
    BY <1>8, PlainFields DEF WaitForRows, Doing, Passes
  <2>2. Waits(Up("openobserve") /\ Step.batches \cap indexed # {}, Step.otherwise)
    BY <1>8 DEF WaitForRows
  <2>3. ASSUME Still
        PROVE  Up("openobserve") /\ Step.batches \cap indexed # {}
    <3>1. Up("openobserve")
      BY <1>5, <2>1, <2>3, StillIsUp
    <3>2. Queued = {}
      BY <2>1, <2>3, StillDrains
    <3>3. \A b \in Batch : queue[b] = "none"
      BY <3>2 DEF Queued
    <3>4. e.kept \subseteq Batch /\ \A b \in Batch : b \in e.kept => queue[b] # "none" \/ b \in indexed
      BY <1>2 DEF QueuesMeet, Expectations
    <3> QED BY <2>1, <3>1, <3>3, <3>4
  <2>4. Continues
    BY <2>2, <2>3 DEF Waits
  <2> QED BY <1>2, <1>3, <2>1, <2>4, ServicesStay, ControlStays, QueuesStay, PageStays DEF Meets
<1>9. CASE SettleHold
  <2>1. Step.do = "settle" /\ Waits(~CanNotice, "ignored")
    BY <1>9 DEF SettleHold, Doing
  <2>2. Still => ~CanNotice
    BY DEF Still
  <2>3. Continues /\ ~CanNotice
    BY <2>1, <2>2 DEF Waits
  <2>4. f.control = e.control
    BY <2>1 DEF Justified, ControlAfter
  <2>5. ControlMeets(f)'
    BY <1>2, <1>3, <2>3, <2>4 DEF ControlMeets, CanNotice, Up
  <2> QED BY <1>2, <1>3, <2>1, <2>3, <2>5, ServicesStay, QueuesStay, PageStays DEF Meets
<1>10. CASE SeePage
  <2>1. Step.do = "see" /\ Waits(page \in Step.states, "found") /\ PageComes(e, Step.states)
    BY <1>10 DEF SeePage, Doing, Passes
  <2>2. Still => page \in Step.states
    <3>1. Served("primary") = Shown(e.control, "primary")
      BY <1>2, ShownIsServed
    <3> QED BY <1>2, <2>1, <3>1 DEF PageComes, Still, CanPoll
  <2>3. Continues /\ page \in Step.states
    BY <2>1, <2>2 DEF Waits
  <2>4. e.page \cap Step.states \subseteq f.page
    BY <2>1 DEF Justified, PageAfter
  <2>5. (page \in f.page)'
    BY <1>2, <1>3, <2>3, <2>4
  <2> QED BY <1>2, <1>3, <2>1, <2>3, <2>5, ServicesStay, ControlStays, QueuesStay DEF Meets
<1> QED BY <1>6, <1>7, <1>8, <1>9, <1>10

(* A plain step of an undisturbed script.                                  *)
LEMMA QuietStep ==
  ASSUME LabTypeOK, CodeOK, ScriptStep, todo # <<>>, Step.do # "enter", ~disturbed',
         NEW e \in Expectations, NEW f \in Expectations, Meets(e), Passes(e, Step), Justified(e, Step, f)
  PROVE  Continues /\ Meets(f)'
<1>1. Step \in PlainStep
  BY HeadStep
<1>2. CASE StopContainer \/ StartContainers \/ RecreateContainers \/ RotateCredential
  BY <1>1, <1>2, QuietContainers
<1>3. CASE WipeLab
  BY <1>3, QuietWipe
<1>4. CASE SetControl \/ DeriveHold \/ ReloadProxy \/ OutliveDocument
  BY <1>4, QuietControls
<1>5. CASE PublishBatch
  BY <1>1, <1>5, QuietPublish
<1>6. CASE PurgeQueue
  BY <1>1, <1>6, QuietPurge
<1>7. CASE LookAtDepth \/ CountBatch \/ AskOpenObserve \/ ProbeLab \/ RunHarness \/ BrowsePage
  BY <1>1, <1>7, QuietLooks
<1>8. CASE AwaitContainers \/ WaitForDepth \/ WaitForRows \/ SettleHold \/ SeePage
  BY <1>1, <1>8, QuietWaitings
<1>9. CASE EnterBlock \/ LeaveBlock \/ ThrowOn
  BY <1>9 DEF EnterBlock, LeaveBlock, ThrowOn, Doing, Passes
<1>10. CASE CallFails
  BY <1>10 DEF CallFails
<1> QED BY <1>2, <1>3, <1>4, <1>5, <1>6, <1>7, <1>8, <1>9, <1>10 DEF ScriptStep

(* The command under way goes on as planned, to the goal.                  *)
OnTrack(goal) ==
  \E e \in Expectations :
    Meets(e) /\ Proceeds(Expectations, ScriptQuiet, Edges, e, todo, frames, goal)

LEMMA EdgeMeets ==
  ASSUME NEW e \in Edges, Meets(e), UNCHANGED <<services, control, queue, indexed, page>>
  PROVE  Meets(e)'
<1>1. ServicesMeet(e)' /\ ControlMeets(e)'
  BY DEF Meets, ServicesMeet, ControlMeets
<1>2. QueuesMeet(e)'
  BY DEF Meets, QueuesMeet, Edges
<1> QED BY <1>1, <1>2 DEF Meets

LEMMA QuietKinds ==
  ASSUME NEW e, NEW f, NEW step, <<e, step, f>> \in ScriptQuiet
  PROVE  /\ step.do # "enter" => Passes(e, step) /\ Justified(e, step, f)
         /\ step.do = "enter" => \/ <<e, step, f>> \in Through(Expectations, PlainQuiet, Edges, PlainStep)
                                 \/ <<e, step, f>> \in Through(Expectations, NestedQuiet, Edges, NestedStep)
<1>1. <<e, step, f>> \in PlainQuiet => Passes(e, step) /\ Justified(e, step, f) /\ step \in PlainStep
  BY DEF PlainQuiet
<1>2. <<e, step, f>> \in Through(Expectations, PlainQuiet, Edges, PlainStep)
        \/ <<e, step, f>> \in Through(Expectations, NestedQuiet, Edges, NestedStep) => step.do = "enter"
  BY DEF Through, Enter
<1>3. step \in PlainStep => step.do # "enter"
  BY DEF PlainStep
<1> QED BY <1>1, <1>2, <1>3 DEF ScriptQuiet, NestedQuiet

(* It stays so and finds nothing, as long as nothing is disturbed.         *)
LEMMA OnTrackStep ==
  ASSUME LabTypeOK, CodeOK, NEW goal, OnTrack(goal), LabMoves \/ ScriptStep, ~disturbed'
  PROVE  OnTrack(goal)' /\ UNCHANGED found
<1>1. PICK e \in Expectations :
        Meets(e) /\ Proceeds(Expectations, ScriptQuiet, Edges, e, todo, frames, goal)
  BY DEF OnTrack
<1>2. CASE LabMoves
  <2>1. UNCHANGED <<todo, frames, found>>
    BY <1>2 DEF LabMoves
  <2>2. Meets(e)'
    BY <1>1, <1>2, MovesMeet
  <2> QED BY <1>1, <2>1, <2>2 DEF OnTrack
<1>3. CASE EnterBlock
  <2>1. todo # <<>> /\ Step.do = "enter" /\ UNCHANGED <<services, control, queue, indexed, page, found>>
    BY <1>3 DEF EnterBlock, Doing
  <2>2. PICK f \in Expectations : /\ <<e, Head(todo), f>> \in ScriptQuiet
                                  /\ Proceeds(Expectations, ScriptQuiet, Edges, f, Tail(todo), frames, goal)
    BY <1>1, <2>1, ProceedsOn DEF CodeOK
  <2>3. Tail(todo) \in Seq(ScriptSteps) /\ frames \in Seq(Frames(ScriptSteps))
    BY <2>1, HeadStep DEF CodeOK
  <2> DEFINE frame == [rest |-> Tail(todo), always |-> Step.always,
                       cleanup |-> Step.cleanup, caught |-> Step.caught]
  <2>4. e \in Edges /\ Proceeds(Expectations, ScriptQuiet, Edges, e, Step.body, <<frame>> \o frames, goal)
    <3>1. CASE <<e, Step, f>> \in Through(Expectations, PlainQuiet, Edges, PlainStep)
      <4>1. Step \in Enter(PlainStep) /\ PlainQuiet \subseteq ScriptQuiet /\ PlainStep \subseteq ScriptSteps
        BY <3>1, StepLevels DEF Through, ScriptQuiet, NestedQuiet
      <4> QED BY <2>2, <2>3, <3>1, <4>1, ProceedsIn
    <3>2. CASE <<e, Step, f>> \in Through(Expectations, NestedQuiet, Edges, NestedStep)
      <4>1. Step \in Enter(NestedStep) /\ NestedQuiet \subseteq ScriptQuiet /\ NestedStep \subseteq ScriptSteps
        BY <3>2, StepLevels DEF Through, ScriptQuiet
      <4> QED BY <2>2, <2>3, <3>2, <4>1, ProceedsIn
    <3> QED BY <2>1, <2>2, <3>1, <3>2, QuietKinds DEF Step
  <2>5. todo' = Step.body /\ frames' = <<frame>> \o frames
    BY <1>3 DEF EnterBlock
  <2> HIDE DEF frame
  <2>6. Meets(e)'
    BY <1>1, <2>1, <2>4, EdgeMeets
  <2> QED BY <2>1, <2>4, <2>5, <2>6 DEF OnTrack
<1>4. CASE LeaveBlock
  <2>1. todo = <<>> /\ frames # <<>> /\ UNCHANGED <<services, control, queue, indexed, page, found>>
        /\ todo' = Left(Head(frames)) /\ frames' = Tail(frames)
    BY <1>4 DEF LeaveBlock, Left, Closing
  <2>2. e \in Edges /\ Proceeds(Expectations, ScriptQuiet, Edges, e, Left(Head(frames)), Tail(frames), goal)
    BY <1>1, <2>1, ProceedsOut DEF CodeOK
  <2>3. Meets(e)'
    BY <1>1, <2>1, <2>2, EdgeMeets
  <2> QED BY <2>1, <2>2, <2>3 DEF OnTrack
<1>5. CASE ScriptStep /\ todo # <<>> /\ Step.do # "enter"
  <2>1. PICK f \in Expectations : /\ <<e, Head(todo), f>> \in ScriptQuiet
                                  /\ Proceeds(Expectations, ScriptQuiet, Edges, f, Tail(todo), frames, goal)
    BY <1>1, <1>5, ProceedsOn DEF CodeOK
  <2>2. Passes(e, Step) /\ Justified(e, Step, f)
    BY <1>5, <2>1, QuietKinds DEF Step
  <2>3. Continues /\ Meets(f)'
    BY <1>1, <1>5, <2>2, QuietStep
  <2> QED BY <2>1, <2>3 DEF Continues, OnTrack
<1> QED BY <1>2, <1>3, <1>4, <1>5, StepEnds

(***************************************************************************)
(* A script that is undisturbed puts back what it has taken away; this is  *)
(* known of it whatever calls fail.                                        *)
(***************************************************************************)
Known(e) == {c \in Switches : e.control[c] = Open[c]} \cup (Service \ e.down)

(* Assertions mapped to others, step by step.                              *)
LEMMA LeadsAlike ==
  ASSUME NEW E, NEW R, NEW F, NEW Q, NEW map \in [E -> F],
         NEW S, NEW s \in Seq(S), NEW e, NEW f, Leads(E, R, e, s, f),
         \A a \in E, b \in E, step \in S : <<a, step, b>> \in R => <<map[a], step, map[b]>> \in Q
  PROVE  Leads(F, Q, map[e], s, map[f])
<1>1. PICK plan \in [1..(Len(s) + 1) -> E] :
        /\ plan[1] = e /\ plan[Len(s) + 1] = f
        /\ \A i \in 1..Len(s) : <<plan[i], s[i], plan[i + 1]>> \in R
  BY DEF Leads
<1>2. Len(s) \in Nat /\ \A i \in 1..Len(s) : s[i] \in S
  OBVIOUS
<1> DEFINE image == [i \in 1..(Len(s) + 1) |-> map[plan[i]]]
<1>3. image \in [1..(Len(s) + 1) -> F] /\ image[1] = map[e] /\ image[Len(s) + 1] = map[f]
  BY <1>1, <1>2
<1>4. ASSUME NEW i \in 1..Len(s)
      PROVE  <<image[i], s[i], image[i + 1]>> \in Q
  <2>1. i \in 1..(Len(s) + 1) /\ i + 1 \in 1..(Len(s) + 1)
    BY <1>2
  <2>2. image[i] = map[plan[i]] /\ image[i + 1] = map[plan[i + 1]]
    BY <2>1
  <2>3. plan[i] \in E /\ plan[i + 1] \in E /\ s[i] \in S /\ <<plan[i], s[i], plan[i + 1]>> \in R
    BY <1>1, <1>2, <2>1
  <2> QED BY <2>2, <2>3
<1> HIDE DEF image
<1> QED BY <1>3, <1>4 DEF Leads

LEMMA ThroughAlike ==
  ASSUME NEW E, NEW R, NEW J, J \subseteq E, NEW F, NEW Q, NEW K, NEW map \in [E -> F],
         \A j \in J : map[j] \in K, NEW S,
         \A a \in E, b \in E, step \in S : <<a, step, b>> \in R => <<map[a], step, map[b]>> \in Q,
         NEW e, NEW block, NEW f, <<e, block, f>> \in Through(E, R, J, S)
  PROVE  <<map[e], block, map[f]>> \in Through(F, Q, K, S)
<1>1. /\ e \in J /\ block \in Enter(S) /\ f \in E
      /\ \E m \in J : Leads(E, R, e, block.body, m) /\ Leads(E, R, m, Closing(block), f)
  BY DEF Through
<1>2. PICK m \in J : Leads(E, R, e, block.body, m) /\ Leads(E, R, m, Closing(block), f)
  BY <1>1
<1>3. block.body \in Seq(S) /\ Closing(block) \in Seq(S)
  BY <1>1 DEF Enter, Closing
<1>4. Leads(F, Q, map[e], block.body, map[m])
  BY <1>2, <1>3, LeadsAlike
<1>5. Leads(F, Q, map[m], Closing(block), map[f])
  BY <1>2, <1>3, LeadsAlike
<1>6. map[e] \in F /\ map[f] \in F /\ map[e] \in K /\ map[m] \in K
  BY <1>1
<1> QED BY <1>1, <1>4, <1>5, <1>6 DEF Through

LEMMA OpenFields ==
  /\ Open.document = "open" /\ Open["document"] = "open"
  /\ \A c \in Switches \ {"document"} : Open[c] = FALSE
<1>1. Open.document = "open"
  BY DEF Open
<1>2. Open.hold = FALSE /\ Open.scoped = FALSE /\ Open.gate = FALSE /\ Open.closed = FALSE /\ Open.alert = FALSE
  BY DEF Open
<1> QED BY <1>1, <1>2 DEF Switches

(* What a step leads to, of the facts that are known.                      *)
LEMMA QuietKnown ==
  ASSUME NEW e \in Expectations, NEW f \in Expectations, NEW step \in PlainStep,
         Passes(e, step), Justified(e, step, f)
  PROVE  Leaving(Known(e), step, Known(f))
<1>1. ASSUME NEW c \in Service, c \notin f.down
      PROVE  Brings(Known(e), step, c) \/ (c \in Known(e) /\ ~Takes(step, c))
  <2>1. f.down = DownAfter(e, step)
    BY DEF Justified
  <2>2. c \notin e.down => c \in Known(e)
    BY <1>1 DEF Known
  <2>3. ~Takes(step, c) \/ (step.do = "stop" /\ c \in step.services)
    BY <1>1 DEF Takes, Service
  <2>4. CASE step.do = "stop"
    BY <1>1, <2>1, <2>2, <2>3, <2>4 DEF DownAfter
  <2>5. CASE step.do \in {"start", "recreate"}
    BY <1>1, <2>1, <2>2, <2>3, <2>5 DEF DownAfter, Brings
  <2>6. CASE step.do = "wipe"
    BY <1>1, <2>6 DEF Brings, Tidy
  <2>7. CASE step.do \notin {"stop", "start", "recreate", "wipe"}
    BY <1>1, <2>1, <2>2, <2>3, <2>7 DEF DownAfter
  <2> QED BY <2>4, <2>5, <2>6, <2>7
<1>2. ASSUME NEW c \in Switches, f.control[c] = Open[c]
      PROVE  Brings(Known(e), step, c) \/ (c \in Known(e) /\ ~Takes(step, c))
  <2>1. f.control = ControlAfter(e, step) /\ e.control \in Controls
    BY DEF Justified, Expectations
  <2>2. e.control[c] = Open[c] => c \in Known(e)
    BY <1>2 DEF Known
  <2>3. Open[c] = IF c = "document" THEN "open" ELSE FALSE
    BY <1>2, OpenFields
  <2>4. c \notin Service
    BY <1>2 DEF Switches, Service
  <2>5. CASE step.do \in {"hold", "document", "scoped", "gate", "alert"}
    <3>1. f.control = [e.control EXCEPT ![step.do] = step.value]
      BY <2>1, <2>5 DEF ControlAfter
    <3>2. CASE c = step.do
      <4>1. step.value = Open[c]
        BY <1>2, <2>1, <3>1, <3>2 DEF Controls, Switches
      <4>2. (c = "document" /\ step.value = "open") \/ (c # "document" /\ ~step.value)
        BY <2>3, <4>1
      <4> QED BY <1>2, <2>5, <3>2, <4>2 DEF Brings, Switches
    <3>3. CASE c # step.do
      <4>1. e.control[c] = Open[c]
        BY <1>2, <2>1, <3>1, <3>3 DEF Controls, Switches
      <4> QED BY <1>2, <2>2, <2>4, <2>5, <3>3, <4>1 DEF Takes, Switches
    <3> QED BY <3>2, <3>3
  <2>6. CASE step.do = "derive"
    <3>1. f.control = [e.control EXCEPT !.hold = e.control.scoped \/ e.control.document \in {"kill", "invalid"}]
      BY <2>1, <2>6 DEF ControlAfter
    <3>2. CASE c = "hold"
      <4>1. ~f.control.hold
        BY <1>2, <2>3, <3>2
      <4>2. ~e.control.scoped
        BY <2>1, <3>1, <4>1 DEF Controls
      <4>3. e.control.document = "open"
        BY <2>6, <4>2 DEF Passes
      <4>4. {"scoped", "document"} \subseteq Known(e)
        <5>1. e.control.scoped = FALSE
          BY <2>1, <4>2 DEF Controls
        <5>2. {"scoped", "document"} \subseteq Switches /\ Open["scoped"] = FALSE /\ Open["document"] = "open"
          BY OpenFields DEF Switches
        <5> QED BY <4>3, <5>1, <5>2 DEF Known
      <4> QED BY <2>6, <3>2, <4>4 DEF Brings
    <3>3. CASE c # "hold"
      <4>1. e.control[c] = Open[c]
        BY <1>2, <2>1, <3>1, <3>3 DEF Controls, Switches
      <4> QED BY <1>2, <2>2, <2>4, <2>6, <3>3, <4>1 DEF Takes, Switches
    <3> QED BY <3>2, <3>3
  <2>7. CASE step.do = "reload"
    <3>1. f.control = [e.control EXCEPT !.closed = e.control.gate]
      BY <2>1, <2>7 DEF ControlAfter
    <3>2. CASE c = "closed"
      <4>1. e.control.gate = Open.gate
        BY <1>2, <2>1, <2>3, <3>1, <3>2 DEF Controls, Open
      <4>2. "gate" \in Known(e)
        BY <4>1 DEF Known, Switches
      <4> QED BY <2>7, <3>2, <4>2 DEF Brings
    <3>3. CASE c # "closed"
      <4>1. e.control[c] = Open[c]
        BY <1>2, <2>1, <3>1, <3>3 DEF Controls, Switches
      <4> QED BY <1>2, <2>2, <2>4, <2>7, <3>3, <4>1 DEF Takes, Switches
    <3> QED BY <3>2, <3>3
  <2>8. CASE step.do = "outlive"
    <3>1. f.control = [e.control EXCEPT !.document = "invalid"]
      BY <2>1, <2>8 DEF ControlAfter
    <3>2. c # "document"
      BY <1>2, <2>1, <2>3, <3>1 DEF Controls
    <3>3. e.control[c] = Open[c]
      BY <1>2, <2>1, <3>1, <3>2 DEF Controls, Switches
    <3> QED BY <1>2, <2>2, <2>4, <2>8, <3>2, <3>3 DEF Takes, Switches
  <2>9. CASE step.do = "wipe"
    BY <1>2, <2>9 DEF Brings, Tidy
  <2>10. CASE step.do \notin {"hold", "document", "scoped", "gate", "alert", "derive", "reload", "outlive", "wipe"}
    <3>1. f.control = e.control
      BY <2>1, <2>10 DEF ControlAfter
    <3> QED BY <1>2, <2>2, <2>4, <2>10, <3>1 DEF Takes, Switches
  <2> QED BY <2>5, <2>6, <2>7, <2>8, <2>9, <2>10
<1> QED BY <1>1, <1>2 DEF Leaving, Known

Knowing == [e \in Expectations |-> Known(e)]

LEMMA KnowingTidy ==
  /\ Knowing \in [Expectations -> Facts]
  /\ \A a \in Expectations, b \in Expectations, step \in ScriptSteps :
       <<a, step, b>> \in ScriptQuiet => <<Knowing[a], step, Knowing[b]>> \in ScriptTidy
<1>1. \A e \in Expectations : Known(e) \in Facts
  BY DEF Known, Facts, Fact, Tidy
<1>2. Knowing \in [Expectations -> Facts] /\ \A e \in Expectations : Knowing[e] = Known(e)
  BY <1>1 DEF Knowing
<1>3. ASSUME NEW a \in Expectations, NEW b \in Expectations, NEW step, <<a, step, b>> \in PlainQuiet
      PROVE  <<Knowing[a], step, Knowing[b]>> \in PlainTidy
  <2>1. step \in PlainStep /\ Passes(a, step) /\ Justified(a, step, b)
    BY <1>3 DEF PlainQuiet
  <2>2. Leaving(Known(a), step, Known(b))
    BY <2>1, QuietKnown
  <2> QED BY <1>1, <1>2, <2>1, <2>2 DEF PlainTidy
<1>4. Edges \subseteq Expectations /\ \A e \in Edges : Knowing[e] \in Facts
  BY <1>2 DEF Edges
<1>5. ASSUME NEW a, NEW b, NEW step, <<a, step, b>> \in Through(Expectations, PlainQuiet, Edges, PlainStep)
      PROVE  <<Knowing[a], step, Knowing[b]>> \in Through(Facts, PlainTidy, Facts, PlainStep)
  BY <1>2, <1>3, <1>4, <1>5, ThroughAlike
<1>6. ASSUME NEW a \in Expectations, NEW b \in Expectations, NEW step, <<a, step, b>> \in NestedQuiet
      PROVE  <<Knowing[a], step, Knowing[b]>> \in NestedTidy
  BY <1>3, <1>5, <1>6 DEF NestedQuiet, NestedTidy
<1>7. ASSUME NEW a, NEW b, NEW step, <<a, step, b>> \in Through(Expectations, NestedQuiet, Edges, NestedStep)
      PROVE  <<Knowing[a], step, Knowing[b]>> \in Through(Facts, NestedTidy, Facts, NestedStep)
  BY <1>2, <1>4, <1>6, <1>7, ThroughAlike
<1> QED BY <1>2, <1>6, <1>7 DEF ScriptQuiet, ScriptTidy

LEMMA QuietIsTidy ==
  ASSUME NEW run \in Seq(ScriptSteps), NEW e \in Expectations, NEW f \in Expectations,
         Leads(Expectations, ScriptQuiet, e, run, f)
  PROVE  Leads(Facts, ScriptTidy, Known(e), run, Known(f))
<1>1. Leads(Facts, ScriptTidy, Knowing[e], run, Knowing[f])
  BY KnowingTidy, LeadsAlike
<1> QED BY <1>1 DEF Knowing

(***************************************************************************)
(* The scripts.  A run of one that nothing disturbs goes from edge to      *)
(* edge: without blocks (Plainly), with blocks (Nestedly), with blocks in  *)
(* blocks (Fully).                                                         *)
(***************************************************************************)
Plainly(e, s, f) == s \in Seq(PlainStep) /\ Leads(Expectations, PlainQuiet, e, s, f)
Nestedly(e, s, f) == s \in Seq(NestedStep) /\ Leads(Expectations, NestedQuiet, e, s, f)
Fully(e, s, f) == s \in Seq(ScriptSteps) /\ Leads(Expectations, ScriptQuiet, e, s, f)

LEMMA QuietLevels ==
  ASSUME NEW e, NEW s, NEW f
  PROVE  /\ Plainly(e, s, f) => Nestedly(e, s, f)
         /\ Nestedly(e, s, f) => Fully(e, s, f)
<1>1. PlainQuiet \subseteq NestedQuiet /\ NestedQuiet \subseteq ScriptQuiet
  BY DEF NestedQuiet, ScriptQuiet
<1>2. Seq(PlainStep) \subseteq Seq(NestedStep) /\ Seq(NestedStep) \subseteq Seq(ScriptSteps)
  BY StepLevels
<1>3. Plainly(e, s, f) => Nestedly(e, s, f)
  BY <1>1, <1>2, LeadsMore DEF Plainly, Nestedly
<1>4. Nestedly(e, s, f) => Fully(e, s, f)
  BY <1>1, <1>2, LeadsMore DEF Nestedly, Fully
<1> QED BY <1>3, <1>4

LEMMA QuietOn ==
  ASSUME NEW e, NEW s, NEW m, NEW t, NEW f
  PROVE  /\ Plainly(e, s, m) /\ Plainly(m, t, f) => Plainly(e, s \o t, f)
         /\ Nestedly(e, s, m) /\ Nestedly(m, t, f) => Nestedly(e, s \o t, f)
         /\ Fully(e, s, m) /\ Fully(m, t, f) => Fully(e, s \o t, f)
<1>1. ASSUME Plainly(e, s, m), Plainly(m, t, f)
      PROVE  Plainly(e, s \o t, f)
  BY <1>1, LeadsOn DEF Plainly
<1>2. ASSUME Nestedly(e, s, m), Nestedly(m, t, f)
      PROVE  Nestedly(e, s \o t, f)
  BY <1>2, LeadsOn DEF Nestedly
<1>3. ASSUME Fully(e, s, m), Fully(m, t, f)
      PROVE  Fully(e, s \o t, f)
  BY <1>3, LeadsOn DEF Fully
<1> QED BY <1>1, <1>2, <1>3

LEMMA EdgesAre == Edges \subseteq Expectations
BY DEF Edges

(* A plan: what is expected before each step and behind the last one.      *)
LEMMA PlainPlan ==
  ASSUME NEW plan \in Seq(Expectations), NEW s \in Seq(PlainStep), Len(plan) = Len(s) + 1,
         NEW e, NEW f, plan[1] = e, plan[Len(plan)] = f,
         \A i \in 1..Len(s) : <<plan[i], s[i], plan[i + 1]>> \in PlainQuiet
  PROVE  Plainly(e, s, f)
<1>1. plan \in [1..(Len(s) + 1) -> Expectations]
  OBVIOUS
<1> QED BY <1>1 DEF Leads, Plainly

LEMMA QuietPair ==
  ASSUME NEW e \in Expectations, NEW f \in Expectations, NEW step \in PlainStep,
         Passes(e, step), Justified(e, step, f)
  PROVE  <<e, step, f>> \in PlainQuiet
BY DEF PlainQuiet

(* The three kinds of blocks.                                              *)
LEMMA ProtectRuns ==
  ASSUME NEW e \in Edges, NEW m \in Edges, NEW f \in Edges, NEW body, NEW cleanup
  PROVE  /\ Plainly(e, body, m) /\ Plainly(m, cleanup, f) => Nestedly(e, <<Protect(body, cleanup)>>, f)
         /\ Nestedly(e, body, m) /\ Nestedly(m, cleanup, f) => Fully(e, <<Protect(body, cleanup)>>, f)
<1> DEFINE block == Protect(body, cleanup)
<1>1. Closing(block) = cleanup /\ block.body = body
  BY DEF Closing, Protect
<1>2. ASSUME Plainly(e, body, m), Plainly(m, cleanup, f)
      PROVE  Nestedly(e, <<block>>, f)
  <2>1. block \in Enter(PlainStep)
    BY <1>2 DEF Plainly, Enter, Protect
  <2> HIDE DEF block
  <2>2. <<e, block, f>> \in NestedQuiet
    BY <1>1, <1>2, <2>1, EdgesAre DEF NestedQuiet, Through, Plainly
  <2>3. block \in NestedStep
    BY <2>1 DEF NestedStep
  <2> QED BY <2>2, <2>3, EdgesAre, LeadsOne DEF Nestedly
<1>3. ASSUME Nestedly(e, body, m), Nestedly(m, cleanup, f)
      PROVE  Fully(e, <<block>>, f)
  <2>1. block \in Enter(NestedStep)
    BY <1>3 DEF Nestedly, Enter, Protect
  <2> HIDE DEF block
  <2>2. <<e, block, f>> \in ScriptQuiet
    BY <1>1, <1>3, <2>1, EdgesAre DEF ScriptQuiet, Through, Nestedly
  <2>3. block \in ScriptSteps
    BY <2>1 DEF ScriptSteps
  <2> QED BY <2>2, <2>3, EdgesAre, LeadsOne DEF Fully
<1> QED BY <1>2, <1>3

LEMMA CaughtRuns ==
  ASSUME NEW e \in Edges, NEW f \in Edges, NEW body
  PROVE  /\ Plainly(e, body, f) => Nestedly(e, <<Caught(body)>>, f)
         /\ Nestedly(e, body, f) => Fully(e, <<Caught(body)>>, f)
<1> DEFINE block == Caught(body)
<1>1. ASSUME NEW S, body \in Seq(S)
      PROVE  block \in Enter(S)
  <2> DEFINE whole == Protect(body, <<>>)
  <2>1. whole \in Enter(S)
    BY <1>1 DEF Protect, Enter
  <2> HIDE DEF whole
  <2>2. [whole EXCEPT !.caught = TRUE] \in Enter(S)
    BY <2>1 DEF Enter
  <2> QED BY <2>2 DEF Caught, whole
<1>2. Closing(block) = <<>> /\ block.body = body
  BY DEF Closing, Caught, Protect
<1>3. Leads(Expectations, PlainQuiet, f, <<>>, f) /\ Leads(Expectations, NestedQuiet, f, <<>>, f)
  BY LeadsNowhere, EdgesAre
<1>4. ASSUME Plainly(e, body, f)
      PROVE  Nestedly(e, <<block>>, f)
  <2>1. block \in Enter(PlainStep)
    BY <1>1, <1>4 DEF Plainly
  <2> HIDE DEF block
  <2>2. <<e, block, f>> \in NestedQuiet
    BY <1>2, <1>3, <1>4, <2>1, EdgesAre DEF NestedQuiet, Through, Plainly
  <2>3. block \in NestedStep
    BY <2>1 DEF NestedStep
  <2> QED BY <2>2, <2>3, EdgesAre, LeadsOne DEF Nestedly
<1>5. ASSUME Nestedly(e, body, f)
      PROVE  Fully(e, <<block>>, f)
  <2>1. block \in Enter(NestedStep)
    BY <1>1, <1>5 DEF Nestedly
  <2> HIDE DEF block
  <2>2. <<e, block, f>> \in ScriptQuiet
    BY <1>2, <1>3, <1>5, <2>1, EdgesAre DEF ScriptQuiet, Through, Nestedly
  <2>3. block \in ScriptSteps
    BY <2>1 DEF ScriptSteps
  <2> QED BY <2>2, <2>3, EdgesAre, LeadsOne DEF Fully
<1> QED BY <1>4, <1>5

LEMMA RescueRuns ==
  ASSUME NEW e \in Edges, NEW f \in Edges, NEW body, NEW cleanup \in Seq(NestedStep), Nestedly(e, body, f)
  PROVE  Fully(e, <<Rescue(body, cleanup)>>, f)
<1> DEFINE block == Rescue(body, cleanup)
<1>1. Closing(block) = <<>> /\ block.body = body
  BY DEF Closing, Rescue, Protect
<1>2. Leads(Expectations, NestedQuiet, f, <<>>, f)
  BY LeadsNowhere, EdgesAre
<1>3. block \in Enter(NestedStep)
  BY DEF Nestedly, Enter, Rescue, Protect
<1> HIDE DEF block
<1>4. <<e, block, f>> \in ScriptQuiet
  BY <1>1, <1>2, <1>3, EdgesAre DEF ScriptQuiet, Through, Nestedly
<1>5. block \in ScriptSteps
  BY <1>3 DEF ScriptSteps
<1>6. Fully(e, <<block>>, f)
  BY <1>4, <1>5, EdgesAre, LeadsOne DEF Fully
<1> QED BY <1>6 DEF block

(***************************************************************************)
(* What is expected at the edges.                                          *)
(***************************************************************************)
Expect(running, down, switches, synced, none, main, queued, kept, shows) ==
  [up |-> running, down |-> down, control |-> switches, synced |-> synced,
   none |-> none, main |-> main, queued |-> queued, kept |-> kept, swept |-> FALSE, page |-> shows]


LEMMA ExpectType ==
  ASSUME NEW running, running \subseteq Service, NEW down, down \subseteq Service,
         NEW switches \in Controls, NEW synced \in BOOLEAN,
         NEW none, none \subseteq Batch, NEW main, main \subseteq Batch,
         NEW queued, queued \subseteq Batch, NEW kept, kept \subseteq Batch,
         NEW shows, shows \subseteq Pages,
         main # {} => "worker" \in down \/ "rabbitmq" \in down \/ (switches.hold /\ synced),
         queued # {} => "openobserve" \in down,
         "active" \in shows =>
          /\ Shown(switches, "primary") = "kill" => "latched" \in shows
          /\ Shown(switches, "primary") = "older" => "rejected" \in shows
  PROVE  Expect(running, down, switches, synced, none, main, queued, kept, shows) \in Edges
<1> DEFINE e == Expect(running, down, switches, synced, none, main, queued, kept, shows)
<1>1. /\ e.up = running /\ e.down = down /\ e.control = switches /\ e.synced = synced
      /\ e.main = main /\ e.queued = queued /\ e.page = shows /\ e.swept = FALSE
  BY DEF Expect
<1>2. e \in [up : SUBSET Service, down : SUBSET Service, control : Controls, synced : BOOLEAN,
          none : SUBSET Batch, main : SUBSET Batch, queued : SUBSET Batch, kept : SUBSET Batch,
          swept : BOOLEAN, page : SUBSET Pages]
  BY DEF Expect
<1> HIDE DEF e
<1>3. e \in Edges
  BY <1>1, <1>2 DEF Expectations, Edges, Resting
<1> QED BY <1>3 DEF e

(* The switches between the commands of the scripts.                       *)
Held == [Open EXCEPT !["hold"] = TRUE]
Gated == [Open EXCEPT !["gate"] = TRUE]
Closed == [Gated EXCEPT !["closed"] = TRUE]
Killed == [Closed EXCEPT !["document"] = "kill"]
Off == [Killed EXCEPT !["hold"] = TRUE]
Lifted == [Off EXCEPT !["document"] = "open"]
Shut == [Closed EXCEPT !["gate"] = FALSE]
Scoped == [Open EXCEPT !["scoped"] = TRUE]
ScopeHeld == [Scoped EXCEPT !["hold"] = TRUE]
Alerted == [Open EXCEPT !["alert"] = TRUE]
Expired == [Open EXCEPT !["document"] = "invalid"]
Older == [Open EXCEPT !["document"] = "older"]
Killing == [Open EXCEPT !["document"] = "kill"]

(* What each of them is.                                                   *)
LEMMA Switchboard ==
  /\ Open \in Controls /\ Open.hold = FALSE /\ Open.held = FALSE /\ Open.document = "open"
  /\ Open.scoped = FALSE /\ Open.gate = FALSE /\ Open.closed = FALSE /\ Open.alert = FALSE
  /\ Held \in Controls /\ Held.hold = TRUE /\ Held.held = FALSE /\ Held.document = "open"
  /\ Held.scoped = FALSE /\ Held.gate = FALSE /\ Held.closed = FALSE /\ Held.alert = FALSE
  /\ Gated \in Controls /\ Gated.hold = FALSE /\ Gated.held = FALSE /\ Gated.document = "open"
  /\ Gated.scoped = FALSE /\ Gated.gate = TRUE /\ Gated.closed = FALSE /\ Gated.alert = FALSE
  /\ Closed \in Controls /\ Closed.hold = FALSE /\ Closed.held = FALSE /\ Closed.document = "open"
  /\ Closed.scoped = FALSE /\ Closed.gate = TRUE /\ Closed.closed = TRUE /\ Closed.alert = FALSE
  /\ Killed \in Controls /\ Killed.hold = FALSE /\ Killed.held = FALSE /\ Killed.document = "kill"
  /\ Killed.scoped = FALSE /\ Killed.gate = TRUE /\ Killed.closed = TRUE /\ Killed.alert = FALSE
  /\ Off \in Controls /\ Off.hold = TRUE /\ Off.held = FALSE /\ Off.document = "kill"
  /\ Off.scoped = FALSE /\ Off.gate = TRUE /\ Off.closed = TRUE /\ Off.alert = FALSE
  /\ Lifted \in Controls /\ Lifted.hold = TRUE /\ Lifted.held = FALSE /\ Lifted.document = "open"
  /\ Lifted.scoped = FALSE /\ Lifted.gate = TRUE /\ Lifted.closed = TRUE /\ Lifted.alert = FALSE
  /\ Shut \in Controls /\ Shut.hold = FALSE /\ Shut.held = FALSE /\ Shut.document = "open"
  /\ Shut.scoped = FALSE /\ Shut.gate = FALSE /\ Shut.closed = TRUE /\ Shut.alert = FALSE
  /\ Scoped \in Controls /\ Scoped.hold = FALSE /\ Scoped.held = FALSE /\ Scoped.document = "open"
  /\ Scoped.scoped = TRUE /\ Scoped.gate = FALSE /\ Scoped.closed = FALSE /\ Scoped.alert = FALSE
  /\ ScopeHeld \in Controls /\ ScopeHeld.hold = TRUE /\ ScopeHeld.held = FALSE /\ ScopeHeld.document = "open"
  /\ ScopeHeld.scoped = TRUE /\ ScopeHeld.gate = FALSE /\ ScopeHeld.closed = FALSE /\ ScopeHeld.alert = FALSE
  /\ Alerted \in Controls /\ Alerted.hold = FALSE /\ Alerted.held = FALSE /\ Alerted.document = "open"
  /\ Alerted.scoped = FALSE /\ Alerted.gate = FALSE /\ Alerted.closed = FALSE /\ Alerted.alert = TRUE
  /\ Expired \in Controls /\ Expired.hold = FALSE /\ Expired.held = FALSE /\ Expired.document = "invalid"
  /\ Expired.scoped = FALSE /\ Expired.gate = FALSE /\ Expired.closed = FALSE /\ Expired.alert = FALSE
  /\ Older \in Controls /\ Older.hold = FALSE /\ Older.held = FALSE /\ Older.document = "older"
  /\ Older.scoped = FALSE /\ Older.gate = FALSE /\ Older.closed = FALSE /\ Older.alert = FALSE
  /\ Killing \in Controls /\ Killing.hold = FALSE /\ Killing.held = FALSE /\ Killing.document = "kill"
  /\ Killing.scoped = FALSE /\ Killing.gate = FALSE /\ Killing.closed = FALSE /\ Killing.alert = FALSE
<1>0. {"open", "kill", "invalid", "older"} \subseteq Document
  BY DEF Document
<1>1. /\ Open \in Controls /\ Open.hold = FALSE /\ Open.held = FALSE /\ Open.document = "open"
      /\ Open.scoped = FALSE /\ Open.gate = FALSE /\ Open.closed = FALSE /\ Open.alert = FALSE
  BY <1>0 DEF Open, Controls
<1>2. /\ Held \in Controls /\ Held.hold = TRUE /\ Held.held = FALSE /\ Held.document = "open"
      /\ Held.scoped = FALSE /\ Held.gate = FALSE /\ Held.closed = FALSE /\ Held.alert = FALSE
  BY <1>0, <1>1 DEF Held, Controls
<1>3. /\ Gated \in Controls /\ Gated.hold = FALSE /\ Gated.held = FALSE /\ Gated.document = "open"
      /\ Gated.scoped = FALSE /\ Gated.gate = TRUE /\ Gated.closed = FALSE /\ Gated.alert = FALSE
  BY <1>0, <1>1 DEF Gated, Controls
<1>4. /\ Closed \in Controls /\ Closed.hold = FALSE /\ Closed.held = FALSE /\ Closed.document = "open"
      /\ Closed.scoped = FALSE /\ Closed.gate = TRUE /\ Closed.closed = TRUE /\ Closed.alert = FALSE
  BY <1>0, <1>3 DEF Closed, Controls
<1>5. /\ Killed \in Controls /\ Killed.hold = FALSE /\ Killed.held = FALSE /\ Killed.document = "kill"
      /\ Killed.scoped = FALSE /\ Killed.gate = TRUE /\ Killed.closed = TRUE /\ Killed.alert = FALSE
  BY <1>0, <1>4 DEF Killed, Controls
<1>6. /\ Off \in Controls /\ Off.hold = TRUE /\ Off.held = FALSE /\ Off.document = "kill"
      /\ Off.scoped = FALSE /\ Off.gate = TRUE /\ Off.closed = TRUE /\ Off.alert = FALSE
  BY <1>0, <1>5 DEF Off, Controls
<1>7. /\ Lifted \in Controls /\ Lifted.hold = TRUE /\ Lifted.held = FALSE /\ Lifted.document = "open"
      /\ Lifted.scoped = FALSE /\ Lifted.gate = TRUE /\ Lifted.closed = TRUE /\ Lifted.alert = FALSE
  BY <1>0, <1>6 DEF Lifted, Controls
<1>8. /\ Shut \in Controls /\ Shut.hold = FALSE /\ Shut.held = FALSE /\ Shut.document = "open"
      /\ Shut.scoped = FALSE /\ Shut.gate = FALSE /\ Shut.closed = TRUE /\ Shut.alert = FALSE
  BY <1>0, <1>4 DEF Shut, Controls
<1>9. /\ Scoped \in Controls /\ Scoped.hold = FALSE /\ Scoped.held = FALSE /\ Scoped.document = "open"
      /\ Scoped.scoped = TRUE /\ Scoped.gate = FALSE /\ Scoped.closed = FALSE /\ Scoped.alert = FALSE
  BY <1>0, <1>1 DEF Scoped, Controls
<1>10. /\ ScopeHeld \in Controls /\ ScopeHeld.hold = TRUE /\ ScopeHeld.held = FALSE /\ ScopeHeld.document = "open"
      /\ ScopeHeld.scoped = TRUE /\ ScopeHeld.gate = FALSE /\ ScopeHeld.closed = FALSE /\ ScopeHeld.alert = FALSE
  BY <1>0, <1>9 DEF ScopeHeld, Controls
<1>11. /\ Alerted \in Controls /\ Alerted.hold = FALSE /\ Alerted.held = FALSE /\ Alerted.document = "open"
      /\ Alerted.scoped = FALSE /\ Alerted.gate = FALSE /\ Alerted.closed = FALSE /\ Alerted.alert = TRUE
  BY <1>0, <1>1 DEF Alerted, Controls
<1>12. /\ Expired \in Controls /\ Expired.hold = FALSE /\ Expired.held = FALSE /\ Expired.document = "invalid"
      /\ Expired.scoped = FALSE /\ Expired.gate = FALSE /\ Expired.closed = FALSE /\ Expired.alert = FALSE
  BY <1>0, <1>1 DEF Expired, Controls
<1>13. /\ Older \in Controls /\ Older.hold = FALSE /\ Older.held = FALSE /\ Older.document = "older"
      /\ Older.scoped = FALSE /\ Older.gate = FALSE /\ Older.closed = FALSE /\ Older.alert = FALSE
  BY <1>0, <1>1 DEF Older, Controls
<1>14. /\ Killing \in Controls /\ Killing.hold = FALSE /\ Killing.held = FALSE /\ Killing.document = "kill"
      /\ Killing.scoped = FALSE /\ Killing.gate = FALSE /\ Killing.closed = FALSE /\ Killing.alert = FALSE
  BY <1>0, <1>1 DEF Killing, Controls
<1> QED BY <1>1, <1>2, <1>3, <1>4, <1>5, <1>6, <1>7, <1>8, <1>9, <1>10, <1>11, <1>12, <1>13, <1>14

LEMMA SameControls ==
  ASSUME NEW c \in Controls, NEW d \in Controls,
         c.hold = d.hold, c.held = d.held, c.document = d.document, c.scoped = d.scoped,
         c.gate = d.gate, c.closed = d.closed, c.alert = d.alert
  PROVE  c = d
BY DEF Controls

(* Switching one of them back.                                             *)
LEMMA SwitchedBack ==
  /\ [Held EXCEPT !["hold"] = FALSE] = Open
  /\ [Lifted EXCEPT !["hold"] = FALSE] = Closed
  /\ [Shut EXCEPT !["closed"] = FALSE] = Open
  /\ [ScopeHeld EXCEPT !["scoped"] = FALSE] = Held
  /\ [Alerted EXCEPT !["alert"] = FALSE] = Open
  /\ [Expired EXCEPT !["document"] = "open"] = Open
  /\ [Older EXCEPT !["document"] = "open"] = Open
  /\ [Killing EXCEPT !["document"] = "open"] = Open
  /\ [Expired EXCEPT !["scoped"] = FALSE] = Expired
  /\ [Older EXCEPT !["scoped"] = FALSE] = Older
  /\ [Killing EXCEPT !["scoped"] = FALSE] = Killing
  /\ [Open EXCEPT !["hold"] = FALSE] = Open
  /\ [Open EXCEPT !["gate"] = FALSE] = Open
  /\ [Open EXCEPT !["closed"] = FALSE] = Open
  /\ [Open EXCEPT !["scoped"] = FALSE] = Open
  /\ [Open EXCEPT !["alert"] = FALSE] = Open
  /\ [Open EXCEPT !["document"] = "open"] = Open
  /\ [Expired EXCEPT !["document"] = "invalid"] = Expired
<1>1. [Held EXCEPT !["hold"] = FALSE] = Open
  BY Switchboard, SameControls DEF Controls
<1>2. [Lifted EXCEPT !["hold"] = FALSE] = Closed
  BY Switchboard, SameControls DEF Controls
<1>3. [Shut EXCEPT !["closed"] = FALSE] = Open
  BY Switchboard, SameControls DEF Controls
<1>4. [ScopeHeld EXCEPT !["scoped"] = FALSE] = Held
  BY Switchboard, SameControls DEF Controls
<1>5. [Alerted EXCEPT !["alert"] = FALSE] = Open
  BY Switchboard, SameControls DEF Controls
<1>6. [Expired EXCEPT !["document"] = "open"] = Open
  BY Switchboard, SameControls DEF Controls
<1>7. [Older EXCEPT !["document"] = "open"] = Open
  BY Switchboard, SameControls DEF Controls
<1>8. [Killing EXCEPT !["document"] = "open"] = Open
  BY Switchboard, SameControls DEF Controls
<1>9. [Expired EXCEPT !["scoped"] = FALSE] = Expired
  BY Switchboard, SameControls DEF Controls
<1>10. [Older EXCEPT !["scoped"] = FALSE] = Older
  BY Switchboard, SameControls DEF Controls
<1>11. [Killing EXCEPT !["scoped"] = FALSE] = Killing
  BY Switchboard, SameControls DEF Controls
<1>12. [Open EXCEPT !["hold"] = FALSE] = Open
  BY Switchboard, SameControls DEF Controls
<1>13. [Open EXCEPT !["gate"] = FALSE] = Open
  BY Switchboard, SameControls DEF Controls
<1>14. [Open EXCEPT !["closed"] = FALSE] = Open
  BY Switchboard, SameControls DEF Controls
<1>15. [Open EXCEPT !["scoped"] = FALSE] = Open
  BY Switchboard, SameControls DEF Controls
<1>16. [Open EXCEPT !["alert"] = FALSE] = Open
  BY Switchboard, SameControls DEF Controls
<1>17. [Open EXCEPT !["document"] = "open"] = Open
  BY Switchboard, SameControls DEF Controls
<1>18. [Expired EXCEPT !["document"] = "invalid"] = Expired
  BY Switchboard, SameControls DEF Controls
<1> QED BY <1>1, <1>2, <1>3, <1>4, <1>5, <1>6, <1>7, <1>8, <1>9, <1>10, <1>11, <1>12, <1>13, <1>14, <1>15, <1>16, <1>17, <1>18

(* Expecting no more than before, of the services, the switches, the       *)
(* queues and the page.                                                    *)
KeepsServices(e, f) == f.up \subseteq e.up /\ f.down = e.down
KeepsControl(e, f) == f.control = e.control /\ (f.synced => e.synced)
KeepsMessages(e, f) == f.main \subseteq e.main /\ f.queued \subseteq e.main \cup e.queued /\ f.kept \subseteq e.kept
KeepsQueues(e, f) == f.none \subseteq e.none /\ KeepsMessages(e, f)
KeepsPage(e, f) == e.page \subseteq f.page
Keeps(e, f) == KeepsServices(e, f) /\ KeepsControl(e, f) /\ KeepsQueues(e, f) /\ KeepsPage(e, f)

(* One rule for each kind of step.                                         *)
LEMMA StopRule ==
  ASSUME NEW e \in Edges, NEW f \in Edges, NEW s \in Service,
         f.up \subseteq e.up \ ({s} \cup IF s = "rabbitmq" THEN {"ingest", "worker"} ELSE {}),
         f.down = e.down \cup {s}, KeepsControl(e, f), KeepsQueues(e, f), KeepsPage(e, f)
  PROVE  <<e, Stop(s), f>> \in PlainQuiet
<1> DEFINE step == Stop(s)
<1>1. step \in PlainStep /\ step.do = "stop" /\ step.services = {s}
  BY DEF Stop, PlainStep
<1> HIDE DEF step
<1>2. ~f.swept /\ e \in Expectations /\ f \in Expectations
  BY DEF Edges
<1>3. Passes(e, step)
  BY <1>1 DEF Passes
<1>4. Justified(e, step, f)
  <2>1. f.up \subseteq UpAfter(e, step) /\ f.down = DownAfter(e, step)
    BY <1>1 DEF UpAfter, DownAfter, Keeps, KeepsServices
  <2>2. f.control = ControlAfter(e, step) /\ (f.synced => SyncedAfter(e, step))
    BY <1>1 DEF ControlAfter, SyncedAfter, Keeps, KeepsControl
  <2>3. f.none \subseteq NoneAfter(e, step)
    BY <1>1 DEF NoneAfter, Admits, Keeps, KeepsQueues
  <2>4. /\ f.main \subseteq KeptAfter(e, step, e.main) /\ f.kept \subseteq KeptAfter(e, step, e.kept)
        /\ f.queued \subseteq KeptAfter(e, step, e.main \cup e.queued)
    BY <1>1 DEF KeptAfter, Admits, Empties, Keeps, KeepsQueues, KeepsMessages
  <2>5. PageAfter(e, step) \subseteq f.page
    BY <1>1 DEF PageAfter, Keeps, KeepsPage
  <2> QED BY <1>2, <2>1, <2>2, <2>3, <2>4, <2>5 DEF Justified
<1>5. <<e, step, f>> \in PlainQuiet
  BY <1>1, <1>2, <1>3, <1>4 DEF PlainQuiet
<1> QED BY <1>5 DEF step

LEMMA StartRule ==
  ASSUME NEW e \in Edges, NEW f \in Edges, NEW S, S \subseteq Service,
         f.up \subseteq e.up, f.down = e.down \ S, KeepsControl(e, f), KeepsQueues(e, f),
         KeepsPage(e, f)
  PROVE  <<e, Start(S), f>> \in PlainQuiet
<1> DEFINE step == Start(S)
<1>1. step \in PlainStep /\ step.do = "start" /\ step.services = S
  BY DEF Start, PlainStep
<1> HIDE DEF step
<1>2. ~f.swept /\ e \in Expectations /\ f \in Expectations
  BY DEF Edges
<1>3. Passes(e, step)
  BY <1>1 DEF Passes
<1>4. Justified(e, step, f)
  <2>1. f.up \subseteq UpAfter(e, step) /\ f.down = DownAfter(e, step)
    BY <1>1 DEF UpAfter, DownAfter, Keeps, KeepsServices
  <2>2. f.control = ControlAfter(e, step) /\ (f.synced => SyncedAfter(e, step))
    BY <1>1 DEF ControlAfter, SyncedAfter, Keeps, KeepsControl
  <2>3. f.none \subseteq NoneAfter(e, step)
    BY <1>1 DEF NoneAfter, Admits, Keeps, KeepsQueues
  <2>4. /\ f.main \subseteq KeptAfter(e, step, e.main) /\ f.kept \subseteq KeptAfter(e, step, e.kept)
        /\ f.queued \subseteq KeptAfter(e, step, e.main \cup e.queued)
    BY <1>1 DEF KeptAfter, Admits, Empties, Keeps, KeepsQueues, KeepsMessages
  <2>5. PageAfter(e, step) \subseteq f.page
    BY <1>1 DEF PageAfter, Keeps, KeepsPage
  <2> QED BY <1>2, <2>1, <2>2, <2>3, <2>4, <2>5 DEF Justified
<1>5. <<e, step, f>> \in PlainQuiet
  BY <1>1, <1>2, <1>3, <1>4 DEF PlainQuiet
<1> QED BY <1>5 DEF step

LEMMA RecreateRule ==
  ASSUME NEW e \in Edges, NEW f \in Edges, NEW S, S \subseteq Service,
         f.up \subseteq e.up \ S, f.down = e.down \ S, KeepsControl(e, f), KeepsQueues(e, f),
         KeepsPage(e, f)
  PROVE  <<e, Recreate(S), f>> \in PlainQuiet
<1> DEFINE step == Recreate(S)
<1>1. step \in PlainStep /\ step.do = "recreate" /\ step.services = S
  BY DEF Recreate, PlainStep
<1> HIDE DEF step
<1>2. ~f.swept /\ e \in Expectations /\ f \in Expectations
  BY DEF Edges
<1>3. Passes(e, step)
  BY <1>1 DEF Passes
<1>4. Justified(e, step, f)
  <2>1. f.up \subseteq UpAfter(e, step) /\ f.down = DownAfter(e, step)
    BY <1>1 DEF UpAfter, DownAfter, Keeps, KeepsServices
  <2>2. f.control = ControlAfter(e, step) /\ (f.synced => SyncedAfter(e, step))
    BY <1>1 DEF ControlAfter, SyncedAfter, Keeps, KeepsControl
  <2>3. f.none \subseteq NoneAfter(e, step)
    BY <1>1 DEF NoneAfter, Admits, Keeps, KeepsQueues
  <2>4. /\ f.main \subseteq KeptAfter(e, step, e.main) /\ f.kept \subseteq KeptAfter(e, step, e.kept)
        /\ f.queued \subseteq KeptAfter(e, step, e.main \cup e.queued)
    BY <1>1 DEF KeptAfter, Admits, Empties, Keeps, KeepsQueues, KeepsMessages
  <2>5. PageAfter(e, step) \subseteq f.page
    BY <1>1 DEF PageAfter, Keeps, KeepsPage
  <2> QED BY <1>2, <2>1, <2>2, <2>3, <2>4, <2>5 DEF Justified
<1>5. <<e, step, f>> \in PlainQuiet
  BY <1>1, <1>2, <1>3, <1>4 DEF PlainQuiet
<1> QED BY <1>5 DEF step

LEMMA RotateRule ==
  ASSUME NEW e \in Edges, NEW f \in Edges, NEW s \in Service,
         "rabbitmq" \in e.up, s \notin e.down, f.up \subseteq e.up \ {s}, f.down = e.down,
         KeepsControl(e, f), KeepsQueues(e, f), KeepsPage(e, f)
  PROVE  <<e, Rotate(s), f>> \in PlainQuiet
<1> DEFINE step == Rotate(s)
<1>1. step \in PlainStep /\ step.do = "rotate" /\ step.services = {s}
  BY DEF Rotate, PlainStep
<1> HIDE DEF step
<1>2. ~f.swept /\ e \in Expectations /\ f \in Expectations
  BY DEF Edges
<1>3. Passes(e, step)
  BY <1>1 DEF Passes
<1>4. Justified(e, step, f)
  <2>1. f.up \subseteq UpAfter(e, step) /\ f.down = DownAfter(e, step)
    BY <1>1 DEF UpAfter, DownAfter, Keeps, KeepsServices
  <2>2. f.control = ControlAfter(e, step) /\ (f.synced => SyncedAfter(e, step))
    BY <1>1 DEF ControlAfter, SyncedAfter, Keeps, KeepsControl
  <2>3. f.none \subseteq NoneAfter(e, step)
    BY <1>1 DEF NoneAfter, Admits, Keeps, KeepsQueues
  <2>4. /\ f.main \subseteq KeptAfter(e, step, e.main) /\ f.kept \subseteq KeptAfter(e, step, e.kept)
        /\ f.queued \subseteq KeptAfter(e, step, e.main \cup e.queued)
    BY <1>1 DEF KeptAfter, Admits, Empties, Keeps, KeepsQueues, KeepsMessages
  <2>5. PageAfter(e, step) \subseteq f.page
    BY <1>1 DEF PageAfter, Keeps, KeepsPage
  <2> QED BY <1>2, <2>1, <2>2, <2>3, <2>4, <2>5 DEF Justified
<1>5. <<e, step, f>> \in PlainQuiet
  BY <1>1, <1>2, <1>3, <1>4 DEF PlainQuiet
<1> QED BY <1>5 DEF step

LEMMA AwaitRule ==
  ASSUME NEW e \in Edges, NEW f \in Edges, NEW S, S \subseteq Service, NEW otherwise \in Ending,
         S \cap e.down = {}, "rabbitmq" \notin e.down, f.up \subseteq e.up \cup S,
         f.down = e.down, KeepsControl(e, f), KeepsQueues(e, f), KeepsPage(e, f)
  PROVE  <<e, Await(S, otherwise), f>> \in PlainQuiet
<1> DEFINE step == Await(S, otherwise)
<1>1. step \in PlainStep /\ step.do = "await" /\ step.services = S
  BY DEF Await, PlainStep
<1> HIDE DEF step
<1>2. ~f.swept /\ e \in Expectations /\ f \in Expectations
  BY DEF Edges
<1>3. Passes(e, step)
  BY <1>1 DEF Passes
<1>4. Justified(e, step, f)
  <2>1. f.up \subseteq UpAfter(e, step) /\ f.down = DownAfter(e, step)
    BY <1>1 DEF UpAfter, DownAfter, Keeps, KeepsServices
  <2>2. f.control = ControlAfter(e, step) /\ (f.synced => SyncedAfter(e, step))
    BY <1>1 DEF ControlAfter, SyncedAfter, Keeps, KeepsControl
  <2>3. f.none \subseteq NoneAfter(e, step)
    BY <1>1 DEF NoneAfter, Admits, Keeps, KeepsQueues
  <2>4. /\ f.main \subseteq KeptAfter(e, step, e.main) /\ f.kept \subseteq KeptAfter(e, step, e.kept)
        /\ f.queued \subseteq KeptAfter(e, step, e.main \cup e.queued)
    BY <1>1 DEF KeptAfter, Admits, Empties, Keeps, KeepsQueues, KeepsMessages
  <2>5. PageAfter(e, step) \subseteq f.page
    BY <1>1 DEF PageAfter, Keeps, KeepsPage
  <2> QED BY <1>2, <2>1, <2>2, <2>3, <2>4, <2>5 DEF Justified
<1>5. <<e, step, f>> \in PlainQuiet
  BY <1>1, <1>2, <1>3, <1>4 DEF PlainQuiet
<1> QED BY <1>5 DEF step

LEMMA RefusedRule ==
  ASSUME NEW e \in Edges, NEW f \in Edges, NEW b \in {"first", "second"}, NEW statuses, statuses \subseteq Answers,
         Reply(e, "primary") \in statuses, Reply(e, "primary") # "202", Keeps(e, f)
  PROVE  <<e, Publish(b, statuses), f>> \in PlainQuiet
<1> DEFINE step == Publish(b, statuses)
<1>1. step \in PlainStep /\ step.do = "publish" /\ step.batch = b /\ step.statuses = statuses /\ step.origin = "primary"
  BY DEF Publish, Batch, PlainStep
<1> HIDE DEF step
<1>2. ~f.swept /\ e \in Expectations /\ f \in Expectations
  BY DEF Edges
<1>3. Passes(e, step)
  BY <1>1 DEF Passes, Batch
<1>4. Justified(e, step, f)
  <2>1. f.up \subseteq UpAfter(e, step) /\ f.down = DownAfter(e, step)
    BY <1>1 DEF UpAfter, DownAfter, Keeps, KeepsServices
  <2>2. f.control = ControlAfter(e, step) /\ (f.synced => SyncedAfter(e, step))
    BY <1>1 DEF ControlAfter, SyncedAfter, Keeps, KeepsControl
  <2>3. f.none \subseteq NoneAfter(e, step)
    BY <1>1 DEF NoneAfter, Admits, Keeps, KeepsQueues
  <2>4. /\ f.main \subseteq KeptAfter(e, step, e.main) /\ f.kept \subseteq KeptAfter(e, step, e.kept)
        /\ f.queued \subseteq KeptAfter(e, step, e.main \cup e.queued)
    BY <1>1 DEF KeptAfter, Admits, Empties, Keeps, KeepsQueues, KeepsMessages
  <2>5. PageAfter(e, step) \subseteq f.page
    BY <1>1 DEF PageAfter, Keeps, KeepsPage
  <2> QED BY <1>2, <2>1, <2>2, <2>3, <2>4, <2>5 DEF Justified
<1>5. <<e, step, f>> \in PlainQuiet
  BY <1>1, <1>2, <1>3, <1>4 DEF PlainQuiet
<1> QED BY <1>5 DEF step

LEMMA AdmittedRule ==
  ASSUME NEW e \in Edges, NEW f \in Edges, NEW b \in {"first", "second"}, NEW statuses, statuses \subseteq Answers,
         Reply(e, "primary") = "202", "202" \in statuses, KeepsServices(e, f),
         KeepsControl(e, f),
         f.none \subseteq e.none \ ({b} \cup IF b \in e.none THEN {} ELSE {"left"}),
         f.main \subseteq (e.main \ {"left"}) \cup {b},
         f.queued \subseteq ((e.main \cup e.queued) \ {"left"}) \cup {b},
         f.kept \subseteq (e.kept \ {"left"}) \cup {b}, KeepsPage(e, f)
  PROVE  <<e, Publish(b, statuses), f>> \in PlainQuiet
<1> DEFINE step == Publish(b, statuses)
<1>1. step \in PlainStep /\ step.do = "publish" /\ step.batch = b /\ step.statuses = statuses /\ step.origin = "primary"
  BY DEF Publish, Batch, PlainStep
<1> HIDE DEF step
<1>2. ~f.swept /\ e \in Expectations /\ f \in Expectations
  BY DEF Edges
<1>3. Passes(e, step)
  BY <1>1 DEF Passes, Batch
<1>4. Justified(e, step, f)
  <2>1. f.up \subseteq UpAfter(e, step) /\ f.down = DownAfter(e, step)
    BY <1>1 DEF UpAfter, DownAfter, Keeps, KeepsServices
  <2>2. f.control = ControlAfter(e, step) /\ (f.synced => SyncedAfter(e, step))
    BY <1>1 DEF ControlAfter, SyncedAfter, Keeps, KeepsControl
  <2>3. f.none \subseteq NoneAfter(e, step)
    BY <1>1 DEF NoneAfter, Admits, Keeps, KeepsQueues
  <2>4. /\ f.main \subseteq KeptAfter(e, step, e.main) /\ f.kept \subseteq KeptAfter(e, step, e.kept)
        /\ f.queued \subseteq KeptAfter(e, step, e.main \cup e.queued)
    BY <1>1 DEF KeptAfter, Admits, Empties, Keeps, KeepsQueues, KeepsMessages
  <2>5. PageAfter(e, step) \subseteq f.page
    BY <1>1 DEF PageAfter, Keeps, KeepsPage
  <2> QED BY <1>2, <2>1, <2>2, <2>3, <2>4, <2>5 DEF Justified
<1>5. <<e, step, f>> \in PlainQuiet
  BY <1>1, <1>2, <1>3, <1>4 DEF PlainQuiet
<1> QED BY <1>5 DEF step

LEMMA ElsewhereRule ==
  ASSUME NEW e \in Edges, NEW f \in Edges, NEW b \in {"first", "second"},
         Reply(e, "alternate") = "202", KeepsServices(e, f), KeepsControl(e, f), f.none = {},
         f.main = {}, f.queued = {}, f.kept \subseteq (e.kept \ {"left"}) \cup {b},
         KeepsPage(e, f)
  PROVE  <<e, PublishElsewhere(b, {"202"}), f>> \in PlainQuiet
<1> DEFINE step == PublishElsewhere(b, {"202"})
<1>1. /\ step \in [do : {"publish"}, batch : Batch, statuses : SUBSET Answers, origin : {"primary", "alternate"}]
      /\ step.do = "publish" /\ step.batch = b /\ step.statuses = {"202"} /\ step.origin = "alternate"
  BY DEF PublishElsewhere, Publish, Batch, Answers
<1>2. step \in PlainStep
  BY <1>1 DEF PlainStep
<1> HIDE DEF step
<1>3. ~f.swept /\ e \in Expectations /\ f \in Expectations
  BY DEF Edges
<1>4. Passes(e, step)
  BY <1>1 DEF Passes, Batch
<1>5. Justified(e, step, f)
  <2>1. f.up \subseteq UpAfter(e, step) /\ f.down = DownAfter(e, step)
    BY <1>1 DEF UpAfter, DownAfter, Keeps, KeepsServices
  <2>2. f.control = ControlAfter(e, step) /\ (f.synced => SyncedAfter(e, step))
    BY <1>1 DEF ControlAfter, SyncedAfter, Keeps, KeepsControl
  <2>3. f.none \subseteq NoneAfter(e, step)
    BY <1>1 DEF NoneAfter, Admits, Keeps, KeepsQueues
  <2>4. /\ f.main \subseteq KeptAfter(e, step, e.main) /\ f.kept \subseteq KeptAfter(e, step, e.kept)
        /\ f.queued \subseteq KeptAfter(e, step, e.main \cup e.queued)
    BY <1>1 DEF KeptAfter, Admits, Empties, Keeps, KeepsQueues, KeepsMessages
  <2>5. PageAfter(e, step) \subseteq f.page
    BY <1>1 DEF PageAfter, Keeps, KeepsPage
  <2> QED BY <1>3, <2>1, <2>2, <2>3, <2>4, <2>5 DEF Justified
<1>6. <<e, step, f>> \in PlainQuiet
  BY <1>1, <1>2, <1>3, <1>4, <1>5 DEF PlainQuiet
<1> QED BY <1>6 DEF step

LEMMA DepthRule ==
  ASSUME NEW e \in Edges, NEW f \in Edges, NEW is \in Depths, NEW otherwise \in Ending,
         "rabbitmq" \in e.up, DepthComes(e, is), KeepsServices(e, f), KeepsControl(e, f),
         KeepsMessages(e, f), is = "drained" \/ f.none \subseteq e.none, KeepsPage(e, f)
  PROVE  <<e, Depth(is, otherwise), f>> \in PlainQuiet
<1> DEFINE step == Depth(is, otherwise)
<1>1. step \in PlainStep /\ step.do = "depth" /\ step.is = is
  BY DEF Depth, PlainStep
<1> HIDE DEF step
<1>2. ~f.swept /\ e \in Expectations /\ f \in Expectations /\ f.none \subseteq Batch
  BY DEF Edges, Expectations
<1>3. Passes(e, step)
  BY <1>1 DEF Passes
<1>4. Justified(e, step, f)
  <2>1. f.up \subseteq UpAfter(e, step) /\ f.down = DownAfter(e, step)
    BY <1>1 DEF UpAfter, DownAfter, Keeps, KeepsServices
  <2>2. f.control = ControlAfter(e, step) /\ (f.synced => SyncedAfter(e, step))
    BY <1>1 DEF ControlAfter, SyncedAfter, Keeps, KeepsControl
  <2>3. f.none \subseteq NoneAfter(e, step)
    <3>1. CASE is = "drained"
      BY <1>1, <1>2, <3>1 DEF NoneAfter, Admits
    <3>2. CASE is # "drained"
      BY <1>1, <3>2 DEF NoneAfter, Admits, Keeps, KeepsQueues
    <3> QED BY <3>1, <3>2
  <2>4. /\ f.main \subseteq KeptAfter(e, step, e.main) /\ f.kept \subseteq KeptAfter(e, step, e.kept)
        /\ f.queued \subseteq KeptAfter(e, step, e.main \cup e.queued)
    BY <1>1 DEF KeptAfter, Admits, Empties, Keeps, KeepsQueues, KeepsMessages
  <2>5. PageAfter(e, step) \subseteq f.page
    BY <1>1 DEF PageAfter, Keeps, KeepsPage
  <2> QED BY <1>2, <2>1, <2>2, <2>3, <2>4, <2>5 DEF Justified
<1>5. <<e, step, f>> \in PlainQuiet
  BY <1>1, <1>2, <1>3, <1>4 DEF PlainQuiet
<1> QED BY <1>5 DEF step

LEMMA BlindRule ==
  ASSUME NEW e \in Edges, NEW f \in Edges, NEW is \in Depths,
         "rabbitmq" \in e.up, DepthComes(e, is), Keeps(e, f)
  PROVE  <<e, BlindDepth(is), f>> \in PlainQuiet
<1> DEFINE step == BlindDepth(is)
<1>1. /\ step \in [do : {"depth"}, is : Depths, otherwise : Ending, blind : BOOLEAN]
      /\ step.do = "depth" /\ step.is = is
  BY DEF BlindDepth, Depth, Ending
<1>2. step \in PlainStep
  BY <1>1 DEF PlainStep
<1> HIDE DEF step
<1>3. ~f.swept /\ e \in Expectations /\ f \in Expectations /\ f.none \subseteq Batch
  BY DEF Edges, Expectations
<1>4. Passes(e, step)
  BY <1>1 DEF Passes
<1>5. Justified(e, step, f)
  <2>1. f.up \subseteq UpAfter(e, step) /\ f.down = DownAfter(e, step)
    BY <1>1 DEF UpAfter, DownAfter, Keeps, KeepsServices
  <2>2. f.control = ControlAfter(e, step) /\ (f.synced => SyncedAfter(e, step))
    BY <1>1 DEF ControlAfter, SyncedAfter, Keeps, KeepsControl
  <2>3. f.none \subseteq NoneAfter(e, step)
    <3>1. CASE is = "drained"
      BY <1>1, <1>3, <3>1 DEF NoneAfter, Admits
    <3>2. CASE is # "drained"
      BY <1>1, <3>2 DEF NoneAfter, Admits, Keeps, KeepsQueues
    <3> QED BY <3>1, <3>2
  <2>4. /\ f.main \subseteq KeptAfter(e, step, e.main) /\ f.kept \subseteq KeptAfter(e, step, e.kept)
        /\ f.queued \subseteq KeptAfter(e, step, e.main \cup e.queued)
    BY <1>1 DEF KeptAfter, Admits, Empties, Keeps, KeepsQueues, KeepsMessages
  <2>5. PageAfter(e, step) \subseteq f.page
    BY <1>1 DEF PageAfter, Keeps, KeepsPage
  <2> QED BY <1>3, <2>1, <2>2, <2>3, <2>4, <2>5 DEF Justified
<1>6. <<e, step, f>> \in PlainQuiet
  BY <1>1, <1>2, <1>3, <1>4, <1>5 DEF PlainQuiet
<1> QED BY <1>6 DEF step

LEMMA LookRule ==
  ASSUME NEW e \in Edges, NEW f \in Edges, NEW is \in Depths,
         "rabbitmq" \in e.up, DepthSure(e, is), Keeps(e, f)
  PROVE  <<e, Look(is), f>> \in PlainQuiet
<1> DEFINE step == Look(is)
<1>1. step \in PlainStep /\ step.do = "look" /\ step.is = is
  BY DEF Look, PlainStep
<1> HIDE DEF step
<1>2. ~f.swept /\ e \in Expectations /\ f \in Expectations
  BY DEF Edges
<1>3. Passes(e, step)
  BY <1>1 DEF Passes
<1>4. Justified(e, step, f)
  <2>1. f.up \subseteq UpAfter(e, step) /\ f.down = DownAfter(e, step)
    BY <1>1 DEF UpAfter, DownAfter, Keeps, KeepsServices
  <2>2. f.control = ControlAfter(e, step) /\ (f.synced => SyncedAfter(e, step))
    BY <1>1 DEF ControlAfter, SyncedAfter, Keeps, KeepsControl
  <2>3. f.none \subseteq NoneAfter(e, step)
    BY <1>1 DEF NoneAfter, Admits, Keeps, KeepsQueues
  <2>4. /\ f.main \subseteq KeptAfter(e, step, e.main) /\ f.kept \subseteq KeptAfter(e, step, e.kept)
        /\ f.queued \subseteq KeptAfter(e, step, e.main \cup e.queued)
    BY <1>1 DEF KeptAfter, Admits, Empties, Keeps, KeepsQueues, KeepsMessages
  <2>5. PageAfter(e, step) \subseteq f.page
    BY <1>1 DEF PageAfter, Keeps, KeepsPage
  <2> QED BY <1>2, <2>1, <2>2, <2>3, <2>4, <2>5 DEF Justified
<1>5. <<e, step, f>> \in PlainQuiet
  BY <1>1, <1>2, <1>3, <1>4 DEF PlainQuiet
<1> QED BY <1>5 DEF step

LEMMA CountRule ==
  ASSUME NEW e \in Edges, NEW f \in Edges, NEW b \in Batch,
         "openobserve" \in e.up, b \in e.kept \cap e.none, Keeps(e, f)
  PROVE  <<e, Count(b), f>> \in PlainQuiet
<1> DEFINE step == Count(b)
<1>1. step \in PlainStep /\ step.do = "count" /\ step.batch = b
  BY DEF Count, PlainStep
<1> HIDE DEF step
<1>2. ~f.swept /\ e \in Expectations /\ f \in Expectations
  BY DEF Edges
<1>3. Passes(e, step)
  BY <1>1 DEF Passes, Batch
<1>4. Justified(e, step, f)
  <2>1. f.up \subseteq UpAfter(e, step) /\ f.down = DownAfter(e, step)
    BY <1>1 DEF UpAfter, DownAfter, Keeps, KeepsServices
  <2>2. f.control = ControlAfter(e, step) /\ (f.synced => SyncedAfter(e, step))
    BY <1>1 DEF ControlAfter, SyncedAfter, Keeps, KeepsControl
  <2>3. f.none \subseteq NoneAfter(e, step)
    BY <1>1 DEF NoneAfter, Admits, Keeps, KeepsQueues
  <2>4. /\ f.main \subseteq KeptAfter(e, step, e.main) /\ f.kept \subseteq KeptAfter(e, step, e.kept)
        /\ f.queued \subseteq KeptAfter(e, step, e.main \cup e.queued)
    BY <1>1 DEF KeptAfter, Admits, Empties, Keeps, KeepsQueues, KeepsMessages
  <2>5. PageAfter(e, step) \subseteq f.page
    BY <1>1 DEF PageAfter, Keeps, KeepsPage
  <2> QED BY <1>2, <2>1, <2>2, <2>3, <2>4, <2>5 DEF Justified
<1>5. <<e, step, f>> \in PlainQuiet
  BY <1>1, <1>2, <1>3, <1>4 DEF PlainQuiet
<1> QED BY <1>5 DEF step

LEMMA RowsRule ==
  ASSUME NEW e \in Edges, NEW f \in Edges, NEW batches, batches \subseteq Batch, NEW otherwise \in Ending,
         Drains(e), "openobserve" \notin e.down, batches \cap e.kept # {}, Keeps(e, f)
  PROVE  <<e, AwaitAny(batches, otherwise), f>> \in PlainQuiet
<1> DEFINE step == AwaitAny(batches, otherwise)
<1>1. step \in PlainStep /\ step.do = "index" /\ step.batches = batches
  BY DEF AwaitAny, PlainStep
<1> HIDE DEF step
<1>2. ~f.swept /\ e \in Expectations /\ f \in Expectations
  BY DEF Edges
<1>3. Passes(e, step)
  BY <1>1 DEF Passes, Batch
<1>4. Justified(e, step, f)
  <2>1. f.up \subseteq UpAfter(e, step) /\ f.down = DownAfter(e, step)
    BY <1>1 DEF UpAfter, DownAfter, Keeps, KeepsServices
  <2>2. f.control = ControlAfter(e, step) /\ (f.synced => SyncedAfter(e, step))
    BY <1>1 DEF ControlAfter, SyncedAfter, Keeps, KeepsControl
  <2>3. f.none \subseteq NoneAfter(e, step)
    BY <1>1 DEF NoneAfter, Admits, Keeps, KeepsQueues
  <2>4. /\ f.main \subseteq KeptAfter(e, step, e.main) /\ f.kept \subseteq KeptAfter(e, step, e.kept)
        /\ f.queued \subseteq KeptAfter(e, step, e.main \cup e.queued)
    BY <1>1 DEF KeptAfter, Admits, Empties, Keeps, KeepsQueues, KeepsMessages
  <2>5. PageAfter(e, step) \subseteq f.page
    BY <1>1 DEF PageAfter, Keeps, KeepsPage
  <2> QED BY <1>2, <2>1, <2>2, <2>3, <2>4, <2>5 DEF Justified
<1>5. <<e, step, f>> \in PlainQuiet
  BY <1>1, <1>2, <1>3, <1>4 DEF PlainQuiet
<1> QED BY <1>5 DEF step

LEMMA AskRule ==
  ASSUME NEW e \in Edges, NEW f \in Edges,
         "openobserve" \in e.up, Keeps(e, f)
  PROVE  <<e, Ask, f>> \in PlainQuiet
<1> DEFINE step == Ask
<1>1. step \in PlainStep /\ step.do = "ask"
  BY DEF Ask, PlainStep
<1> HIDE DEF step
<1>2. ~f.swept /\ e \in Expectations /\ f \in Expectations
  BY DEF Edges
<1>3. Passes(e, step)
  BY <1>1 DEF Passes
<1>4. Justified(e, step, f)
  <2>1. f.up \subseteq UpAfter(e, step) /\ f.down = DownAfter(e, step)
    BY <1>1 DEF UpAfter, DownAfter, Keeps, KeepsServices
  <2>2. f.control = ControlAfter(e, step) /\ (f.synced => SyncedAfter(e, step))
    BY <1>1 DEF ControlAfter, SyncedAfter, Keeps, KeepsControl
  <2>3. f.none \subseteq NoneAfter(e, step)
    BY <1>1 DEF NoneAfter, Admits, Keeps, KeepsQueues
  <2>4. /\ f.main \subseteq KeptAfter(e, step, e.main) /\ f.kept \subseteq KeptAfter(e, step, e.kept)
        /\ f.queued \subseteq KeptAfter(e, step, e.main \cup e.queued)
    BY <1>1 DEF KeptAfter, Admits, Empties, Keeps, KeepsQueues, KeepsMessages
  <2>5. PageAfter(e, step) \subseteq f.page
    BY <1>1 DEF PageAfter, Keeps, KeepsPage
  <2> QED BY <1>2, <2>1, <2>2, <2>3, <2>4, <2>5 DEF Justified
<1>5. <<e, step, f>> \in PlainQuiet
  BY <1>1, <1>2, <1>3, <1>4 DEF PlainQuiet
<1> QED BY <1>5 DEF step

LEMMA HarnessRule ==
  ASSUME NEW e \in Edges, NEW f \in Edges, NEW b \in Batch,
         {"rabbitmq", "openobserve"} \subseteq e.up, ~e.control.hold, b \in e.main, Keeps(e, f)
  PROVE  <<e, Harness(b), f>> \in PlainQuiet
<1> DEFINE step == Harness(b)
<1>1. step \in PlainStep /\ step.do = "harness" /\ step.batch = b
  BY DEF Harness, PlainStep
<1> HIDE DEF step
<1>2. ~f.swept /\ e \in Expectations /\ f \in Expectations
  BY DEF Edges
<1>3. Passes(e, step)
  BY <1>1 DEF Passes, Batch
<1>4. Justified(e, step, f)
  <2>1. f.up \subseteq UpAfter(e, step) /\ f.down = DownAfter(e, step)
    BY <1>1 DEF UpAfter, DownAfter, Keeps, KeepsServices
  <2>2. f.control = ControlAfter(e, step) /\ (f.synced => SyncedAfter(e, step))
    BY <1>1 DEF ControlAfter, SyncedAfter, Keeps, KeepsControl
  <2>3. f.none \subseteq NoneAfter(e, step)
    BY <1>1 DEF NoneAfter, Admits, Keeps, KeepsQueues
  <2>4. /\ f.main \subseteq KeptAfter(e, step, e.main) /\ f.kept \subseteq KeptAfter(e, step, e.kept)
        /\ f.queued \subseteq KeptAfter(e, step, e.main \cup e.queued)
    BY <1>1 DEF KeptAfter, Admits, Empties, Keeps, KeepsQueues, KeepsMessages
  <2>5. PageAfter(e, step) \subseteq f.page
    BY <1>1 DEF PageAfter, Keeps, KeepsPage
  <2> QED BY <1>2, <2>1, <2>2, <2>3, <2>4, <2>5 DEF Justified
<1>5. <<e, step, f>> \in PlainQuiet
  BY <1>1, <1>2, <1>3, <1>4 DEF PlainQuiet
<1> QED BY <1>5 DEF step

LEMMA SetRule ==
  ASSUME NEW e \in Edges, NEW f \in Edges, NEW field \in {"hold", "scoped", "gate", "alert"}, NEW on \in BOOLEAN,
         KeepsServices(e, f), f.control = [e.control EXCEPT ![field] = on],
         f.synced => e.synced /\ field # "hold", KeepsQueues(e, f), KeepsPage(e, f)
  PROVE  <<e, Set(field, on), f>> \in PlainQuiet
<1> DEFINE step == Set(field, on)
<1>1. step \in PlainStep /\ step.do = field /\ step.value = on
  BY DEF Set, PlainStep
<1> HIDE DEF step
<1>2. ~f.swept /\ e \in Expectations /\ f \in Expectations
  BY DEF Edges
<1>3. Passes(e, step)
  BY <1>1 DEF Passes
<1>4. Justified(e, step, f)
  <2>1. f.up \subseteq UpAfter(e, step) /\ f.down = DownAfter(e, step)
    BY <1>1 DEF UpAfter, DownAfter, Keeps, KeepsServices
  <2>2. f.control = ControlAfter(e, step) /\ (f.synced => SyncedAfter(e, step))
    BY <1>1 DEF ControlAfter, SyncedAfter, Keeps, KeepsControl
  <2>3. f.none \subseteq NoneAfter(e, step)
    BY <1>1 DEF NoneAfter, Admits, Keeps, KeepsQueues
  <2>4. /\ f.main \subseteq KeptAfter(e, step, e.main) /\ f.kept \subseteq KeptAfter(e, step, e.kept)
        /\ f.queued \subseteq KeptAfter(e, step, e.main \cup e.queued)
    BY <1>1 DEF KeptAfter, Admits, Empties, Keeps, KeepsQueues, KeepsMessages
  <2>5. PageAfter(e, step) \subseteq f.page
    BY <1>1 DEF PageAfter, Keeps, KeepsPage
  <2> QED BY <1>2, <2>1, <2>2, <2>3, <2>4, <2>5 DEF Justified
<1>5. <<e, step, f>> \in PlainQuiet
  BY <1>1, <1>2, <1>3, <1>4 DEF PlainQuiet
<1> QED BY <1>5 DEF step

LEMMA DocumentRule ==
  ASSUME NEW e \in Edges, NEW f \in Edges, NEW document \in Document,
         KeepsServices(e, f), f.control = [e.control EXCEPT !["document"] = document],
         f.synced => e.synced, KeepsQueues(e, f), KeepsPage(e, f)
  PROVE  <<e, Set("document", document), f>> \in PlainQuiet
<1> DEFINE step == Set("document", document)
<1>1. step \in PlainStep /\ step.do = "document" /\ step.value = document
  BY DEF Set, PlainStep
<1> HIDE DEF step
<1>2. ~f.swept /\ e \in Expectations /\ f \in Expectations
  BY DEF Edges
<1>3. Passes(e, step)
  BY <1>1 DEF Passes
<1>4. Justified(e, step, f)
  <2>1. f.up \subseteq UpAfter(e, step) /\ f.down = DownAfter(e, step)
    BY <1>1 DEF UpAfter, DownAfter, Keeps, KeepsServices
  <2>2. f.control = ControlAfter(e, step) /\ (f.synced => SyncedAfter(e, step))
    BY <1>1 DEF ControlAfter, SyncedAfter, Keeps, KeepsControl
  <2>3. f.none \subseteq NoneAfter(e, step)
    BY <1>1 DEF NoneAfter, Admits, Keeps, KeepsQueues
  <2>4. /\ f.main \subseteq KeptAfter(e, step, e.main) /\ f.kept \subseteq KeptAfter(e, step, e.kept)
        /\ f.queued \subseteq KeptAfter(e, step, e.main \cup e.queued)
    BY <1>1 DEF KeptAfter, Admits, Empties, Keeps, KeepsQueues, KeepsMessages
  <2>5. PageAfter(e, step) \subseteq f.page
    BY <1>1 DEF PageAfter, Keeps, KeepsPage
  <2> QED BY <1>2, <2>1, <2>2, <2>3, <2>4, <2>5 DEF Justified
<1>5. <<e, step, f>> \in PlainQuiet
  BY <1>1, <1>2, <1>3, <1>4 DEF PlainQuiet
<1> QED BY <1>5 DEF step

LEMMA SettleRule ==
  ASSUME NEW e \in Edges, NEW f \in Edges,
         KeepsServices(e, f), f.control = e.control, KeepsQueues(e, f), KeepsPage(e, f)
  PROVE  <<e, Settle, f>> \in PlainQuiet
<1> DEFINE step == Settle
<1>1. step \in PlainStep /\ step.do = "settle"
  BY DEF Settle, PlainStep
<1> HIDE DEF step
<1>2. ~f.swept /\ e \in Expectations /\ f \in Expectations
  BY DEF Edges
<1>3. Passes(e, step)
  BY <1>1 DEF Passes
<1>4. Justified(e, step, f)
  <2>1. f.up \subseteq UpAfter(e, step) /\ f.down = DownAfter(e, step)
    BY <1>1 DEF UpAfter, DownAfter, Keeps, KeepsServices
  <2>2. f.control = ControlAfter(e, step) /\ (f.synced => SyncedAfter(e, step))
    BY <1>1 DEF ControlAfter, SyncedAfter, Keeps, KeepsControl
  <2>3. f.none \subseteq NoneAfter(e, step)
    BY <1>1 DEF NoneAfter, Admits, Keeps, KeepsQueues
  <2>4. /\ f.main \subseteq KeptAfter(e, step, e.main) /\ f.kept \subseteq KeptAfter(e, step, e.kept)
        /\ f.queued \subseteq KeptAfter(e, step, e.main \cup e.queued)
    BY <1>1 DEF KeptAfter, Admits, Empties, Keeps, KeepsQueues, KeepsMessages
  <2>5. PageAfter(e, step) \subseteq f.page
    BY <1>1 DEF PageAfter, Keeps, KeepsPage
  <2> QED BY <1>2, <2>1, <2>2, <2>3, <2>4, <2>5 DEF Justified
<1>5. <<e, step, f>> \in PlainQuiet
  BY <1>1, <1>2, <1>3, <1>4 DEF PlainQuiet
<1> QED BY <1>5 DEF step

LEMMA DeriveRule ==
  ASSUME NEW e \in Edges, NEW f \in Edges,
         e.control.scoped \/ e.control.document = "open", KeepsServices(e, f),
         f.control = [e.control EXCEPT !["hold"] = e.control.scoped], ~f.synced,
         KeepsQueues(e, f), KeepsPage(e, f)
  PROVE  <<e, Derive, f>> \in PlainQuiet
<1> DEFINE step == Derive
<1>1. step \in PlainStep /\ step.do = "derive"
  BY DEF Derive, PlainStep
<1> HIDE DEF step
<1>2. ~f.swept /\ e \in Expectations /\ f \in Expectations
  BY DEF Edges
<1>3. Passes(e, step)
  BY <1>1 DEF Passes
<1>4. Justified(e, step, f)
  <2>1. f.up \subseteq UpAfter(e, step) /\ f.down = DownAfter(e, step)
    BY <1>1 DEF UpAfter, DownAfter, Keeps, KeepsServices
  <2>2. f.control = ControlAfter(e, step) /\ (f.synced => SyncedAfter(e, step))
    <3>1. e.control.scoped \in BOOLEAN
      BY <1>2 DEF Expectations, Controls
    <3>2. (e.control.scoped \/ e.control.document \in {"kill", "invalid"}) = e.control.scoped
      <4>1. "open" \notin {"kill", "invalid"}
        OBVIOUS
      <4> QED BY <3>1, <4>1, Zenon
    <3>3. ControlAfter(e, step) = [e.control EXCEPT !.hold = e.control.scoped]
      BY <1>1, <3>2 DEF ControlAfter
    <3> QED BY <3>3
  <2>3. f.none \subseteq NoneAfter(e, step)
    BY <1>1 DEF NoneAfter, Admits, Keeps, KeepsQueues
  <2>4. /\ f.main \subseteq KeptAfter(e, step, e.main) /\ f.kept \subseteq KeptAfter(e, step, e.kept)
        /\ f.queued \subseteq KeptAfter(e, step, e.main \cup e.queued)
    BY <1>1 DEF KeptAfter, Admits, Empties, Keeps, KeepsQueues, KeepsMessages
  <2>5. PageAfter(e, step) \subseteq f.page
    BY <1>1 DEF PageAfter, Keeps, KeepsPage
  <2> QED BY <1>2, <2>1, <2>2, <2>3, <2>4, <2>5 DEF Justified
<1>5. <<e, step, f>> \in PlainQuiet
  BY <1>1, <1>2, <1>3, <1>4 DEF PlainQuiet
<1> QED BY <1>5 DEF step

LEMMA ReloadRule ==
  ASSUME NEW e \in Edges, NEW f \in Edges,
         KeepsServices(e, f), f.control = [e.control EXCEPT !["closed"] = e.control.gate],
         f.synced => e.synced, KeepsQueues(e, f), KeepsPage(e, f)
  PROVE  <<e, Reload, f>> \in PlainQuiet
<1> DEFINE step == Reload
<1>1. step \in PlainStep /\ step.do = "reload"
  BY DEF Reload, PlainStep
<1> HIDE DEF step
<1>2. ~f.swept /\ e \in Expectations /\ f \in Expectations
  BY DEF Edges
<1>3. Passes(e, step)
  BY <1>1 DEF Passes
<1>4. Justified(e, step, f)
  <2>1. f.up \subseteq UpAfter(e, step) /\ f.down = DownAfter(e, step)
    BY <1>1 DEF UpAfter, DownAfter, Keeps, KeepsServices
  <2>2. f.control = ControlAfter(e, step) /\ (f.synced => SyncedAfter(e, step))
    BY <1>1 DEF ControlAfter, SyncedAfter, Keeps, KeepsControl
  <2>3. f.none \subseteq NoneAfter(e, step)
    BY <1>1 DEF NoneAfter, Admits, Keeps, KeepsQueues
  <2>4. /\ f.main \subseteq KeptAfter(e, step, e.main) /\ f.kept \subseteq KeptAfter(e, step, e.kept)
        /\ f.queued \subseteq KeptAfter(e, step, e.main \cup e.queued)
    BY <1>1 DEF KeptAfter, Admits, Empties, Keeps, KeepsQueues, KeepsMessages
  <2>5. PageAfter(e, step) \subseteq f.page
    BY <1>1 DEF PageAfter, Keeps, KeepsPage
  <2> QED BY <1>2, <2>1, <2>2, <2>3, <2>4, <2>5 DEF Justified
<1>5. <<e, step, f>> \in PlainQuiet
  BY <1>1, <1>2, <1>3, <1>4 DEF PlainQuiet
<1> QED BY <1>5 DEF step

LEMMA OutliveRule ==
  ASSUME NEW e \in Edges, NEW f \in Edges,
         KeepsServices(e, f), f.control = [e.control EXCEPT !["document"] = "invalid"],
         f.synced => e.synced, KeepsQueues(e, f), "blocked" \in f.page,
         e.page \ {"active"} \subseteq f.page
  PROVE  <<e, Outlive, f>> \in PlainQuiet
<1> DEFINE step == Outlive
<1>1. step \in PlainStep /\ step.do = "outlive"
  BY DEF Outlive, PlainStep
<1> HIDE DEF step
<1>2. ~f.swept /\ e \in Expectations /\ f \in Expectations
  BY DEF Edges
<1>3. Passes(e, step)
  BY <1>1 DEF Passes
<1>4. Justified(e, step, f)
  <2>1. f.up \subseteq UpAfter(e, step) /\ f.down = DownAfter(e, step)
    BY <1>1 DEF UpAfter, DownAfter, Keeps, KeepsServices
  <2>2. f.control = ControlAfter(e, step) /\ (f.synced => SyncedAfter(e, step))
    BY <1>1 DEF ControlAfter, SyncedAfter, Keeps, KeepsControl
  <2>3. f.none \subseteq NoneAfter(e, step)
    BY <1>1 DEF NoneAfter, Admits, Keeps, KeepsQueues
  <2>4. /\ f.main \subseteq KeptAfter(e, step, e.main) /\ f.kept \subseteq KeptAfter(e, step, e.kept)
        /\ f.queued \subseteq KeptAfter(e, step, e.main \cup e.queued)
    BY <1>1 DEF KeptAfter, Admits, Empties, Keeps, KeepsQueues, KeepsMessages
  <2>5. PageAfter(e, step) \subseteq f.page
    BY <1>1 DEF PageAfter, Keeps, KeepsPage
  <2> QED BY <1>2, <2>1, <2>2, <2>3, <2>4, <2>5 DEF Justified
<1>5. <<e, step, f>> \in PlainQuiet
  BY <1>1, <1>2, <1>3, <1>4 DEF PlainQuiet
<1> QED BY <1>5 DEF step

LEMMA BrowseRule ==
  ASSUME NEW e \in Edges, NEW f \in Edges,
         KeepsServices(e, f), KeepsControl(e, f), KeepsQueues(e, f),
         (IF Shown(e.control, "primary") = "kill" THEN "latched" ELSE IF Shown(e.control, "primary") = "invalid" THEN "blocked" ELSE "active") \in f.page
  PROVE  <<e, Browse, f>> \in PlainQuiet
<1> DEFINE step == Browse
<1>1. step \in PlainStep /\ step.do = "browse"
  BY DEF Browse, PlainStep
<1> HIDE DEF step
<1>2. ~f.swept /\ e \in Expectations /\ f \in Expectations
  BY DEF Edges
<1>3. Passes(e, step)
  BY <1>1 DEF Passes
<1>4. Justified(e, step, f)
  <2>1. f.up \subseteq UpAfter(e, step) /\ f.down = DownAfter(e, step)
    BY <1>1 DEF UpAfter, DownAfter, Keeps, KeepsServices
  <2>2. f.control = ControlAfter(e, step) /\ (f.synced => SyncedAfter(e, step))
    BY <1>1 DEF ControlAfter, SyncedAfter, Keeps, KeepsControl
  <2>3. f.none \subseteq NoneAfter(e, step)
    BY <1>1 DEF NoneAfter, Admits, Keeps, KeepsQueues
  <2>4. /\ f.main \subseteq KeptAfter(e, step, e.main) /\ f.kept \subseteq KeptAfter(e, step, e.kept)
        /\ f.queued \subseteq KeptAfter(e, step, e.main \cup e.queued)
    BY <1>1 DEF KeptAfter, Admits, Empties, Keeps, KeepsQueues, KeepsMessages
  <2>5. PageAfter(e, step) \subseteq f.page
    BY <1>1 DEF PageAfter, Keeps, KeepsPage
  <2> QED BY <1>2, <2>1, <2>2, <2>3, <2>4, <2>5 DEF Justified
<1>5. <<e, step, f>> \in PlainQuiet
  BY <1>1, <1>2, <1>3, <1>4 DEF PlainQuiet
<1> QED BY <1>5 DEF step

LEMMA SeeRule ==
  ASSUME NEW e \in Edges, NEW f \in Edges, NEW states, states \subseteq Pages,
         PageComes(e, states), KeepsServices(e, f), KeepsControl(e, f), KeepsQueues(e, f),
         e.page \cap states \subseteq f.page
  PROVE  <<e, See(states), f>> \in PlainQuiet
<1> DEFINE step == See(states)
<1>1. step \in PlainStep /\ step.do = "see" /\ step.states = states
  BY DEF See, PlainStep
<1> HIDE DEF step
<1>2. ~f.swept /\ e \in Expectations /\ f \in Expectations
  BY DEF Edges
<1>3. Passes(e, step)
  BY <1>1 DEF Passes
<1>4. Justified(e, step, f)
  <2>1. f.up \subseteq UpAfter(e, step) /\ f.down = DownAfter(e, step)
    BY <1>1 DEF UpAfter, DownAfter, Keeps, KeepsServices
  <2>2. f.control = ControlAfter(e, step) /\ (f.synced => SyncedAfter(e, step))
    BY <1>1 DEF ControlAfter, SyncedAfter, Keeps, KeepsControl
  <2>3. f.none \subseteq NoneAfter(e, step)
    BY <1>1 DEF NoneAfter, Admits, Keeps, KeepsQueues
  <2>4. /\ f.main \subseteq KeptAfter(e, step, e.main) /\ f.kept \subseteq KeptAfter(e, step, e.kept)
        /\ f.queued \subseteq KeptAfter(e, step, e.main \cup e.queued)
    BY <1>1 DEF KeptAfter, Admits, Empties, Keeps, KeepsQueues, KeepsMessages
  <2>5. PageAfter(e, step) \subseteq f.page
    BY <1>1 DEF PageAfter, Keeps, KeepsPage
  <2> QED BY <1>2, <2>1, <2>2, <2>3, <2>4, <2>5 DEF Justified
<1>5. <<e, step, f>> \in PlainQuiet
  BY <1>1, <1>2, <1>3, <1>4 DEF PlainQuiet
<1> QED BY <1>5 DEF step

LEMMA ProbeRule ==
  ASSUME NEW e \in Edges, NEW f \in Edges, NEW what \in Lookups,
         LooksRight(e, what), Keeps(e, f)
  PROVE  <<e, Probe(what), f>> \in PlainQuiet
<1> DEFINE step == Probe(what)
<1>1. step \in PlainStep /\ step.do = "probe" /\ step.what = what
  BY DEF Probe, PlainStep
<1> HIDE DEF step
<1>2. ~f.swept /\ e \in Expectations /\ f \in Expectations
  BY DEF Edges
<1>3. Passes(e, step)
  BY <1>1 DEF Passes
<1>4. Justified(e, step, f)
  <2>1. f.up \subseteq UpAfter(e, step) /\ f.down = DownAfter(e, step)
    BY <1>1 DEF UpAfter, DownAfter, Keeps, KeepsServices
  <2>2. f.control = ControlAfter(e, step) /\ (f.synced => SyncedAfter(e, step))
    BY <1>1 DEF ControlAfter, SyncedAfter, Keeps, KeepsControl
  <2>3. f.none \subseteq NoneAfter(e, step)
    BY <1>1 DEF NoneAfter, Admits, Keeps, KeepsQueues
  <2>4. /\ f.main \subseteq KeptAfter(e, step, e.main) /\ f.kept \subseteq KeptAfter(e, step, e.kept)
        /\ f.queued \subseteq KeptAfter(e, step, e.main \cup e.queued)
    BY <1>1 DEF KeptAfter, Admits, Empties, Keeps, KeepsQueues, KeepsMessages
  <2>5. PageAfter(e, step) \subseteq f.page
    BY <1>1 DEF PageAfter, Keeps, KeepsPage
  <2> QED BY <1>2, <2>1, <2>2, <2>3, <2>4, <2>5 DEF Justified
<1>5. <<e, step, f>> \in PlainQuiet
  BY <1>1, <1>2, <1>3, <1>4 DEF PlainQuiet
<1> QED BY <1>5 DEF step

(* What is expected at the edges of the scripts.                           *)
Lab(switches) == Expect(Service, {}, switches, FALSE, {}, {}, {}, {}, Pages)
Ready == Lab(Open)
Drained == Expect(Service, {}, Open, FALSE, Batch, {}, {}, {}, Pages)
Holding == Expect(Service, {}, Held, TRUE, {"left", "second"}, {"first"}, {}, {"first"}, Pages)
Rotating == Expect(Service \ {"ingest"}, {}, Held, TRUE, {"left", "second"}, {"first"}, {}, {"first"}, Pages)
Rotated == Expect(Service \ {"ingest", "worker"}, {}, Held, TRUE, {"left", "second"}, {"first"}, {}, {"first"}, Pages)
Active == Expect(Service, {}, Open, FALSE, {}, {}, {}, {}, {"active"})
Away == Expect(Service \ {"openobserve"}, {"openobserve"}, Open, FALSE, {}, {}, {}, {}, Pages)
AwayClosed == Expect(Service \ {"openobserve"}, {"openobserve"}, Closed, FALSE, {}, {}, {}, {}, Pages)
Stuck == Expect(Service \ {"openobserve"}, {"openobserve"}, Open, FALSE, {}, {}, {"first", "second"}, {"first", "second"}, Pages)
OneSent == Expect(Service, {}, Open, FALSE, {}, {}, {}, {"first"}, Pages)
BothSent == Expect(Service, {}, Open, FALSE, {}, {}, {}, {"first", "second"}, Pages)
Waking == Expect(Service \ {"openobserve"}, {}, Open, FALSE, {}, {}, {}, {}, Pages)

(* They are expectations, with no purge half done.                         *)
LEMMA NamedEdges ==
  /\ \A switches \in Controls : Lab(switches) \in Edges
  /\ Ready \in Edges /\ Drained \in Edges /\ Holding \in Edges /\ Rotating \in Edges /\ Rotated \in Edges /\ Active \in Edges
  /\ Away \in Edges /\ AwayClosed \in Edges /\ Stuck \in Edges /\ OneSent \in Edges /\ BothSent \in Edges /\ Waking \in Edges
<1>1. /\ {Open, Held, Closed} \subseteq Controls /\ Open.document = "open" /\ ~Open.scoped
      /\ Held.document = "open" /\ ~Held.scoped /\ Held.hold
  BY Switchboard
<1>2. Shown(Open, "primary") = "open" /\ Shown(Held, "primary") = "open"
  BY <1>1 DEF Shown
<1>3. ASSUME NEW switches \in Controls
      PROVE  Lab(switches) \in Edges
  BY <1>3, ExpectType DEF Lab, Pages
<1>4. Drained \in Edges
  BY <1>1, <1>2, ExpectType DEF Drained, Service, Batch, Pages
<1>5. Holding \in Edges
  BY <1>1, <1>2, ExpectType DEF Holding, Service, Batch, Pages
<1>6. Rotating \in Edges
  BY <1>1, <1>2, ExpectType DEF Rotating, Service, Batch, Pages
<1>7. Rotated \in Edges
  BY <1>1, <1>2, ExpectType DEF Rotated, Service, Batch, Pages
<1>8. Active \in Edges
  BY <1>1, <1>2, ExpectType DEF Active, Service, Batch, Pages
<1>9. Away \in Edges
  BY <1>1, <1>2, ExpectType DEF Away, Service, Batch, Pages
<1>10. AwayClosed \in Edges
  BY <1>1, <1>2, ExpectType DEF AwayClosed, Service, Batch, Pages
<1>11. Stuck \in Edges
  BY <1>1, <1>2, ExpectType DEF Stuck, Service, Batch, Pages
<1>12. OneSent \in Edges
  BY <1>1, <1>2, ExpectType DEF OneSent, Service, Batch, Pages
<1>13. BothSent \in Edges
  BY <1>1, <1>2, ExpectType DEF BothSent, Service, Batch, Pages
<1>14. Waking \in Edges
  BY <1>1, <1>2, ExpectType DEF Waking, Service, Batch, Pages
<1> QED BY <1>1, <1>3, <1>4, <1>5, <1>6, <1>7, <1>8, <1>9, <1>10, <1>11, <1>12, <1>13, <1>14 DEF Ready

(***************************************************************************)
(* Steps that leave a lab in which everything is up as it is expected.     *)
(***************************************************************************)
Steady(c) == {step \in PlainStep : <<Lab(c), step, Lab(c)>> \in PlainQuiet}

LEMMA SteadyRuns ==
  ASSUME NEW c \in Controls, NEW s \in Seq(Steady(c))
  PROVE  Plainly(Lab(c), s, Lab(c))
<1>1. Steady(c) \subseteq PlainStep
  BY DEF Steady
<1>2. s \in Seq(PlainStep)
  BY <1>1
<1>3. \A i \in 1..Len(s) : <<Lab(c), s[i], Lab(c)>> \in PlainQuiet
  BY DEF Steady
<1>4. Lab(c) \in Expectations
  BY NamedEdges, EdgesAre
<1>5. Leads(Expectations, PlainQuiet, Lab(c), s, Lab(c))
  BY <1>2, <1>3, <1>4, LeadsSame
<1> QED BY <1>2, <1>5 DEF Plainly

LEMMA LabFields ==
  ASSUME NEW c
  PROVE  /\ Lab(c).up = Service /\ Lab(c).down = {} /\ Lab(c).control = c /\ Lab(c).synced = FALSE
         /\ Lab(c).none = {} /\ Lab(c).main = {} /\ Lab(c).queued = {} /\ Lab(c).kept = {}
         /\ Lab(c).page = Pages
BY DEF Lab, Expect

LEMMA SteadySteps ==
  ASSUME NEW c \in Controls
  PROVE  /\ Ask \in Steady(c) /\ Settle \in Steady(c) /\ Look("any") \in Steady(c) /\ Browse \in Steady(c)
         /\ \A S \in SUBSET Service, otherwise \in Ending : Await(S, otherwise) \in Steady(c)
         /\ \A what \in Lookups \ {"hold", "scopes", "alert"} :
              what # "gate" \/ ~c.gate => Probe(what) \in Steady(c)
         /\ \A b \in {"first", "second"}, statuses \in SUBSET Answers :
              \/ statuses = Answers
              \/ "410" \in statuses /\ c.closed
              \/ "202" \in statuses /\ c = Open
              => Publish(b, statuses) \in Steady(c)
<1> DEFINE e == Lab(c)
<1>0. /\ e \in Edges /\ e.up = Service /\ e.down = {} /\ e.control = c
      /\ e.none = {} /\ e.main = {} /\ e.queued = {} /\ e.kept = {} /\ e.page = Pages
  BY NamedEdges, LabFields
<1>1. ASSUME NEW step, <<e, step, e>> \in PlainQuiet
      PROVE  step \in Steady(c)
  BY <1>1 DEF Steady, PlainQuiet
<1> HIDE DEF e
<1>2. Keeps(e, e) /\ KeepsServices(e, e) /\ KeepsControl(e, e) /\ KeepsQueues(e, e) /\ KeepsPage(e, e)
  BY DEF Keeps, KeepsServices, KeepsControl, KeepsQueues, KeepsMessages, KeepsPage
<1>3. {"openobserve", "rabbitmq", "ingest"} \subseteq e.up /\ "rabbitmq" \notin e.down
  BY <1>0 DEF Service
<1>4. Ask \in Steady(c)
  BY <1>0, <1>1, <1>2, <1>3, AskRule
<1>5. Settle \in Steady(c)
  BY <1>0, <1>1, <1>2, SettleRule
<1>6. Look("any") \in Steady(c)
  <2>1. DepthSure(e, "any")
    BY DEF DepthSure
  <2> QED BY <1>0, <1>1, <1>2, <1>3, <2>1, LookRule DEF Depths
<1>7. Browse \in Steady(c)
  BY <1>0, <1>1, <1>2, BrowseRule DEF Pages
<1>8. ASSUME NEW S \in SUBSET Service, NEW otherwise \in Ending
      PROVE  Await(S, otherwise) \in Steady(c)
  BY <1>0, <1>1, <1>2, AwaitRule
<1>9. ASSUME NEW what \in Lookups \ {"hold", "scopes", "alert"}, what # "gate" \/ ~c.gate
      PROVE  Probe(what) \in Steady(c)
  <2>1. LooksRight(e, what)
    BY <1>0, <1>9 DEF LooksRight
  <2> QED BY <1>0, <1>1, <1>2, <2>1, ProbeRule
<1>10. ASSUME NEW b \in {"first", "second"}, NEW statuses \in SUBSET Answers,
              statuses = Answers \/ ("410" \in statuses /\ c.closed) \/ ("202" \in statuses /\ c = Open)
       PROVE  Publish(b, statuses) \in Steady(c)
  <2>1. Reply(e, "primary") \in Answers
    BY <1>0 DEF Reply, Answers, Service
  <2>2. c.closed => Reply(e, "primary") = "410"
    BY <1>0 DEF Reply
  <2>3. c = Open => Reply(e, "primary") = "202"
    BY <1>0, Switchboard DEF Reply, Shown, Service
  <2>4. Reply(e, "primary") \in statuses
    BY <1>10, <2>1, <2>2, <2>3
  <2>5. CASE Reply(e, "primary") = "202"
    <3>1. <<e, Publish(b, statuses), e>> \in PlainQuiet
      BY <1>0, <1>2, <2>4, <2>5, AdmittedRule
    <3> QED BY <1>1, <3>1
  <2>6. CASE Reply(e, "primary") # "202"
    <3>1. <<e, Publish(b, statuses), e>> \in PlainQuiet
      BY <1>0, <1>2, <2>4, <2>6, RefusedRule
    <3> QED BY <1>1, <3>1
  <2> QED BY <2>5, <2>6
<1> QED BY <1>4, <1>5, <1>6, <1>7, <1>8, <1>9, <1>10 DEF e

(* The switches, whatever they are.                                        *)
LEMMA SwitchingSteps ==
  ASSUME NEW c \in Controls
  PROVE  /\ \A field \in {"hold", "scoped", "gate", "alert"}, on \in BOOLEAN :
              /\ [c EXCEPT ![field] = on] \in Controls
              /\ <<Lab(c), Set(field, on), Lab([c EXCEPT ![field] = on])>> \in PlainQuiet
         /\ \A document \in Document :
              /\ [c EXCEPT !["document"] = document] \in Controls
              /\ <<Lab(c), Set("document", document), Lab([c EXCEPT !["document"] = document])>> \in PlainQuiet
         /\ [c EXCEPT !["closed"] = c.gate] \in Controls
         /\ <<Lab(c), Reload, Lab([c EXCEPT !["closed"] = c.gate])>> \in PlainQuiet
<1>1. ASSUME NEW d \in Controls
      PROVE  /\ KeepsServices(Lab(c), Lab(d)) /\ KeepsQueues(Lab(c), Lab(d)) /\ KeepsPage(Lab(c), Lab(d))
             /\ Lab(c).control = c /\ Lab(d).control = d /\ Lab(d).synced = FALSE
             /\ Lab(c) \in Edges /\ Lab(d) \in Edges
  <2>1. /\ Lab(c).up = Lab(d).up /\ Lab(c).down = Lab(d).down /\ Lab(c).page = Lab(d).page
        /\ Lab(c).none = {} /\ Lab(d).none = {} /\ Lab(c).main = {} /\ Lab(d).main = {}
        /\ Lab(c).queued = {} /\ Lab(d).queued = {} /\ Lab(c).kept = {} /\ Lab(d).kept = {}
        /\ Lab(c).control = c /\ Lab(d).control = d /\ Lab(d).synced = FALSE
    BY LabFields
  <2>2. Lab(c) \in Edges /\ Lab(d) \in Edges
    BY NamedEdges
  <2> QED BY <2>1, <2>2 DEF KeepsServices, KeepsQueues, KeepsMessages, KeepsPage
<1>2. ASSUME NEW field \in {"hold", "scoped", "gate", "alert"}, NEW on \in BOOLEAN
      PROVE  /\ [c EXCEPT ![field] = on] \in Controls
             /\ <<Lab(c), Set(field, on), Lab([c EXCEPT ![field] = on])>> \in PlainQuiet
  <2>1. [c EXCEPT ![field] = on] \in Controls
    BY DEF Controls
  <2> QED BY <1>1, <2>1, SetRule
<1>3. ASSUME NEW document \in Document
      PROVE  /\ [c EXCEPT !["document"] = document] \in Controls
             /\ <<Lab(c), Set("document", document), Lab([c EXCEPT !["document"] = document])>> \in PlainQuiet
  <2>1. [c EXCEPT !["document"] = document] \in Controls
    BY DEF Controls
  <2> QED BY <1>1, <2>1, DocumentRule
<1>4. [c EXCEPT !["closed"] = c.gate] \in Controls
  BY DEF Controls
<1>5. <<Lab(c), Reload, Lab([c EXCEPT !["closed"] = c.gate])>> \in PlainQuiet
  BY <1>1, <1>4, ReloadRule
<1> QED BY <1>2, <1>3, <1>4, <1>5

(* A run of one, two or more steps.                                        *)
LEMMA PlainOne ==
  ASSUME NEW e, NEW step, NEW f, <<e, step, f>> \in PlainQuiet
  PROVE  Plainly(e, <<step>>, f)
<1>1. e \in Expectations /\ f \in Expectations /\ step \in PlainStep
  BY DEF PlainQuiet
<1> QED BY <1>1, LeadsOne DEF Plainly

LEMMA PlainMore ==
  ASSUME NEW e, NEW step, NEW m, <<e, step, m>> \in PlainQuiet, NEW s, NEW f, Plainly(m, s, f)
  PROVE  Plainly(e, <<step>> \o s, f)
BY PlainOne, QuietOn

(* A sequence in pieces.                                                   *)
LEMMA Pieces ==
  ASSUME NEW a, NEW b, NEW c, NEW d, NEW e
  PROVE  /\ <<a>> \o <<b>> = <<a, b>>
         /\ <<a, b>> \o <<c>> = <<a, b, c>>
         /\ <<a, b, c>> \o <<d>> = <<a, b, c, d>>
         /\ <<a, b, c, d>> \o <<e>> = <<a, b, c, d, e>>
         /\ <<a, b, c>> \o <<d, e>> = <<a, b, c, d, e>>
<1> DEFINE S == {a, b, c, d, e}
<1> HIDE DEF S
<1>0. a \in S /\ b \in S /\ c \in S /\ d \in S /\ e \in S
  BY DEF S
<1> USE <1>0
<1>1. <<a>> \o <<b>> = <<a, b>>
  <2> DEFINE s == <<a>> \o <<b>>
             u == <<a, b>>
  <2>1. s \in Seq(S) /\ u \in Seq(S) /\ Len(s) = 2 /\ Len(u) = 2
    OBVIOUS
  <2>2. s[1] = a /\ s[2] = b
    OBVIOUS
  <2>3. u[1] = a /\ u[2] = b
    OBVIOUS
  <2> HIDE DEF s, u
  <2>4. \A i \in 1..2 : s[i] = u[i]
    BY <2>2, <2>3
  <2>5. s = u
    BY <2>1, <2>4
  <2> QED BY <2>5 DEF s, u
<1>2. <<a, b>> \o <<c>> = <<a, b, c>>
  <2> DEFINE s == <<a, b>> \o <<c>>
             u == <<a, b, c>>
  <2>1. s \in Seq(S) /\ u \in Seq(S) /\ Len(s) = 3 /\ Len(u) = 3
    OBVIOUS
  <2>2. s[1] = a /\ s[2] = b /\ s[3] = c
    OBVIOUS
  <2>3. u[1] = a /\ u[2] = b /\ u[3] = c
    OBVIOUS
  <2> HIDE DEF s, u
  <2>4. \A i \in 1..3 : s[i] = u[i]
    BY <2>2, <2>3
  <2>5. s = u
    BY <2>1, <2>4
  <2> QED BY <2>5 DEF s, u
<1>3. <<a, b, c>> \o <<d>> = <<a, b, c, d>>
  <2> DEFINE s == <<a, b, c>> \o <<d>>
             u == <<a, b, c, d>>
  <2>1. s \in Seq(S) /\ u \in Seq(S) /\ Len(s) = 4 /\ Len(u) = 4
    OBVIOUS
  <2>2. s[1] = a /\ s[2] = b /\ s[3] = c /\ s[4] = d
    OBVIOUS
  <2>3. u[1] = a /\ u[2] = b /\ u[3] = c /\ u[4] = d
    OBVIOUS
  <2> HIDE DEF s, u
  <2>4. \A i \in 1..4 : s[i] = u[i]
    BY <2>2, <2>3
  <2>5. s = u
    BY <2>1, <2>4
  <2> QED BY <2>5 DEF s, u
<1>4. <<a, b, c, d>> \o <<e>> = <<a, b, c, d, e>>
  <2> DEFINE s == <<a, b, c, d>> \o <<e>>
             u == <<a, b, c, d, e>>
  <2>1. s \in Seq(S) /\ u \in Seq(S) /\ Len(s) = 5 /\ Len(u) = 5
    OBVIOUS
  <2>2. s[1] = a /\ s[2] = b /\ s[3] = c /\ s[4] = d /\ s[5] = e
    OBVIOUS
  <2>3. u[1] = a /\ u[2] = b /\ u[3] = c /\ u[4] = d /\ u[5] = e
    OBVIOUS
  <2> HIDE DEF s, u
  <2>4. \A i \in 1..5 : s[i] = u[i]
    BY <2>2, <2>3
  <2>5. s = u
    BY <2>1, <2>4
  <2> QED BY <2>5 DEF s, u
<1>5. <<a, b, c>> \o <<d, e>> = <<a, b, c, d, e>>
  <2> DEFINE s == <<a, b, c>> \o <<d, e>>
             u == <<a, b, c, d, e>>
  <2>1. s \in Seq(S) /\ u \in Seq(S) /\ Len(s) = 5 /\ Len(u) = 5
    OBVIOUS
  <2>2. s[1] = a /\ s[2] = b /\ s[3] = c /\ s[4] = d /\ s[5] = e
    OBVIOUS
  <2>3. u[1] = a /\ u[2] = b /\ u[3] = c /\ u[4] = d /\ u[5] = e
    OBVIOUS
  <2> HIDE DEF s, u
  <2>4. \A i \in 1..5 : s[i] = u[i]
    BY <2>2, <2>3
  <2>5. s = u
    BY <2>1, <2>4
  <2> QED BY <2>5 DEF s, u
<1> QED BY <1>1, <1>2, <1>3, <1>4, <1>5

(* Two to six steps.                                                       *)
LEMMA PlainTwo ==
  ASSUME NEW e0, NEW e1, NEW e2, NEW s1, NEW s2, <<e0, s1, e1>> \in PlainQuiet,
         <<e1, s2, e2>> \in PlainQuiet
  PROVE  Plainly(e0, <<s1, s2>>, e2)
<1> DEFINE plan == <<e0, e1, e2>>
             run == <<s1, s2>>
<1>1. e0 \in Expectations /\ e1 \in Expectations /\ e2 \in Expectations
  BY DEF PlainQuiet
<1>2. s1 \in PlainStep /\ s2 \in PlainStep
  BY DEF PlainQuiet
<1>3. plan \in Seq(Expectations) /\ Len(plan) = 3 /\ plan[1] = e0 /\ plan[3] = e2
  BY <1>1
<1>4. run \in Seq(PlainStep) /\ Len(run) = 2
  BY <1>2
<1>5. \A i \in 1..2 : <<plan[i], run[i], plan[i + 1]>> \in PlainQuiet
  OBVIOUS
<1> HIDE DEF plan, run
<1>6. Plainly(e0, run, e2)
  <2>1. /\ Len(plan) = Len(run) + 1 /\ plan[Len(plan)] = e2
        /\ \A i \in 1..Len(run) : <<plan[i], run[i], plan[i + 1]>> \in PlainQuiet
    BY <1>3, <1>4, <1>5
  <2> QED BY <1>3, <1>4, <2>1, PlainPlan
<1> QED BY <1>6 DEF run

LEMMA PlainThree ==
  ASSUME NEW e0, NEW e1, NEW e2, NEW e3, NEW s1, NEW s2, NEW s3, <<e0, s1, e1>> \in PlainQuiet,
         <<e1, s2, e2>> \in PlainQuiet, <<e2, s3, e3>> \in PlainQuiet
  PROVE  Plainly(e0, <<s1, s2, s3>>, e3)
<1> DEFINE plan == <<e0, e1, e2, e3>>
             run == <<s1, s2, s3>>
<1>1. e0 \in Expectations /\ e1 \in Expectations /\ e2 \in Expectations /\ e3 \in Expectations
  BY DEF PlainQuiet
<1>2. s1 \in PlainStep /\ s2 \in PlainStep /\ s3 \in PlainStep
  BY DEF PlainQuiet
<1>3. plan \in Seq(Expectations) /\ Len(plan) = 4 /\ plan[1] = e0 /\ plan[4] = e3
  BY <1>1
<1>4. run \in Seq(PlainStep) /\ Len(run) = 3
  BY <1>2
<1>5. \A i \in 1..3 : <<plan[i], run[i], plan[i + 1]>> \in PlainQuiet
  OBVIOUS
<1> HIDE DEF plan, run
<1>6. Plainly(e0, run, e3)
  <2>1. /\ Len(plan) = Len(run) + 1 /\ plan[Len(plan)] = e3
        /\ \A i \in 1..Len(run) : <<plan[i], run[i], plan[i + 1]>> \in PlainQuiet
    BY <1>3, <1>4, <1>5
  <2> QED BY <1>3, <1>4, <2>1, PlainPlan
<1> QED BY <1>6 DEF run

LEMMA PlainFour ==
  ASSUME NEW e0, NEW e1, NEW e2, NEW e3, NEW e4, NEW s1, NEW s2, NEW s3, NEW s4,
         <<e0, s1, e1>> \in PlainQuiet, <<e1, s2, e2>> \in PlainQuiet,
         <<e2, s3, e3>> \in PlainQuiet, <<e3, s4, e4>> \in PlainQuiet
  PROVE  Plainly(e0, <<s1, s2, s3, s4>>, e4)
<1> DEFINE plan == <<e0, e1, e2, e3, e4>>
             run == <<s1, s2, s3, s4>>
<1>1. e0 \in Expectations /\ e1 \in Expectations /\ e2 \in Expectations /\ e3 \in Expectations /\ e4 \in Expectations
  BY DEF PlainQuiet
<1>2. s1 \in PlainStep /\ s2 \in PlainStep /\ s3 \in PlainStep /\ s4 \in PlainStep
  BY DEF PlainQuiet
<1>3. plan \in Seq(Expectations) /\ Len(plan) = 5 /\ plan[1] = e0 /\ plan[5] = e4
  BY <1>1
<1>4. run \in Seq(PlainStep) /\ Len(run) = 4
  BY <1>2
<1>5. \A i \in 1..4 : <<plan[i], run[i], plan[i + 1]>> \in PlainQuiet
  OBVIOUS
<1> HIDE DEF plan, run
<1>6. Plainly(e0, run, e4)
  <2>1. /\ Len(plan) = Len(run) + 1 /\ plan[Len(plan)] = e4
        /\ \A i \in 1..Len(run) : <<plan[i], run[i], plan[i + 1]>> \in PlainQuiet
    BY <1>3, <1>4, <1>5
  <2> QED BY <1>3, <1>4, <2>1, PlainPlan
<1> QED BY <1>6 DEF run

LEMMA PlainFive ==
  ASSUME NEW e0, NEW e1, NEW e2, NEW e3, NEW e4, NEW e5, NEW s1, NEW s2, NEW s3, NEW s4, NEW s5,
         <<e0, s1, e1>> \in PlainQuiet, <<e1, s2, e2>> \in PlainQuiet,
         <<e2, s3, e3>> \in PlainQuiet, <<e3, s4, e4>> \in PlainQuiet,
         <<e4, s5, e5>> \in PlainQuiet
  PROVE  Plainly(e0, <<s1, s2, s3, s4, s5>>, e5)
<1> DEFINE plan == <<e0, e1, e2, e3, e4, e5>>
             run == <<s1, s2, s3, s4, s5>>
<1>1. e0 \in Expectations /\ e1 \in Expectations /\ e2 \in Expectations /\ e3 \in Expectations /\ e4 \in Expectations /\ e5 \in Expectations
  BY DEF PlainQuiet
<1>2. s1 \in PlainStep /\ s2 \in PlainStep /\ s3 \in PlainStep /\ s4 \in PlainStep /\ s5 \in PlainStep
  BY DEF PlainQuiet
<1>3. plan \in Seq(Expectations) /\ Len(plan) = 6 /\ plan[1] = e0 /\ plan[6] = e5
  BY <1>1
<1>4. run \in Seq(PlainStep) /\ Len(run) = 5
  BY <1>2
<1>5. \A i \in 1..5 : <<plan[i], run[i], plan[i + 1]>> \in PlainQuiet
  OBVIOUS
<1> HIDE DEF plan, run
<1>6. Plainly(e0, run, e5)
  <2>1. /\ Len(plan) = Len(run) + 1 /\ plan[Len(plan)] = e5
        /\ \A i \in 1..Len(run) : <<plan[i], run[i], plan[i + 1]>> \in PlainQuiet
    BY <1>3, <1>4, <1>5
  <2> QED BY <1>3, <1>4, <2>1, PlainPlan
<1> QED BY <1>6 DEF run

LEMMA PlainSix ==
  ASSUME NEW e0, NEW e1, NEW e2, NEW e3, NEW e4, NEW e5, NEW e6, NEW s1, NEW s2, NEW s3, NEW s4,
         NEW s5, NEW s6, <<e0, s1, e1>> \in PlainQuiet, <<e1, s2, e2>> \in PlainQuiet,
         <<e2, s3, e3>> \in PlainQuiet, <<e3, s4, e4>> \in PlainQuiet,
         <<e4, s5, e5>> \in PlainQuiet, <<e5, s6, e6>> \in PlainQuiet
  PROVE  Plainly(e0, <<s1, s2, s3, s4, s5, s6>>, e6)
<1> DEFINE plan == <<e0, e1, e2, e3, e4, e5, e6>>
             run == <<s1, s2, s3, s4, s5, s6>>
<1>1. e0 \in Expectations /\ e1 \in Expectations /\ e2 \in Expectations /\ e3 \in Expectations /\ e4 \in Expectations /\ e5 \in Expectations /\ e6 \in Expectations
  BY DEF PlainQuiet
<1>2. s1 \in PlainStep /\ s2 \in PlainStep /\ s3 \in PlainStep /\ s4 \in PlainStep /\ s5 \in PlainStep /\ s6 \in PlainStep
  BY DEF PlainQuiet
<1>3. plan \in Seq(Expectations) /\ Len(plan) = 7 /\ plan[1] = e0 /\ plan[7] = e6
  BY <1>1
<1>4. run \in Seq(PlainStep) /\ Len(run) = 6
  BY <1>2
<1>5. \A i \in 1..6 : <<plan[i], run[i], plan[i + 1]>> \in PlainQuiet
  OBVIOUS
<1> HIDE DEF plan, run
<1>6. Plainly(e0, run, e6)
  <2>1. /\ Len(plan) = Len(run) + 1 /\ plan[Len(plan)] = e6
        /\ \A i \in 1..Len(run) : <<plan[i], run[i], plan[i + 1]>> \in PlainQuiet
    BY <1>3, <1>4, <1>5
  <2> QED BY <1>3, <1>4, <2>1, PlainPlan
<1> QED BY <1>6 DEF run

(* Whoever set them, both ways of switching off leave them as they were    *)
(* built.                                                                  *)
LEMMA SwitchingOff ==
  ASSUME NEW c \in Controls, ~c.held, ~c.alert
  PROVE  /\ ~c.scoped => Plainly(Lab(c), KillSwitchOff, Ready)
         /\ Plainly(Lab(c), ResetToCleanState, Ready)
<1>1. ASSUME NEW d \in Controls, ~d.held, ~d.alert, ~d.scoped
      PROVE  Plainly(Lab(d), KillSwitchOff, Ready)
  <2> DEFINE d1 == [d EXCEPT !["document"] = "open"]
             d2 == [d1 EXCEPT !["hold"] = FALSE]
             d3 == [d2 EXCEPT !["gate"] = FALSE]
             d4 == [d3 EXCEPT !["closed"] = d3.gate]
  <2>1. d1 \in Controls /\ <<Lab(d), Set("document", "open"), Lab(d1)>> \in PlainQuiet
    BY SwitchingSteps DEF Document
  <2>2. d2 \in Controls /\ <<Lab(d1), Resume, Lab(d2)>> \in PlainQuiet
    BY <2>1, SwitchingSteps DEF Resume
  <2>3. d3 \in Controls /\ <<Lab(d2), Set("gate", FALSE), Lab(d3)>> \in PlainQuiet
    BY <2>2, SwitchingSteps
  <2>4. d4 \in Controls /\ <<Lab(d3), Reload, Lab(d4)>> \in PlainQuiet
    BY <2>3, SwitchingSteps
  <2>5. d1.document = "open" /\ d1.held = FALSE /\ d1.scoped = FALSE /\ d1.alert = FALSE
    BY <1>1 DEF Controls
  <2>6. /\ d2.document = "open" /\ d2.held = FALSE /\ d2.scoped = FALSE /\ d2.alert = FALSE
        /\ d2.hold = FALSE
    BY <2>1, <2>5 DEF Controls
  <2>7. /\ d3.document = "open" /\ d3.held = FALSE /\ d3.scoped = FALSE /\ d3.alert = FALSE
        /\ d3.hold = FALSE /\ d3.gate = FALSE
    BY <2>2, <2>6 DEF Controls
  <2>8. /\ d4.document = "open" /\ d4.held = FALSE /\ d4.scoped = FALSE /\ d4.alert = FALSE
        /\ d4.hold = FALSE /\ d4.gate = FALSE /\ d4.closed = FALSE
    BY <2>3, <2>7 DEF Controls
  <2> HIDE DEF d1, d2, d3, d4
  <2>9. d4 = Open
    <3>1. /\ Open \in Controls /\ Open.document = "open" /\ Open.held = FALSE /\ Open.scoped = FALSE
          /\ Open.alert = FALSE /\ Open.hold = FALSE /\ Open.gate = FALSE /\ Open.closed = FALSE
      BY Switchboard
    <3> QED BY <2>4, <2>8, <3>1, SameControls
  <2>10. <<Lab(d3), Reload, Ready>> \in PlainQuiet
    BY <2>4, <2>9 DEF Ready
  <2> QED BY <2>1, <2>2, <2>3, <2>10, PlainFour DEF KillSwitchOff
<1>2. Plainly(Lab(c), ResetToCleanState, Ready)
  <2> DEFINE d == [c EXCEPT !["scoped"] = FALSE]
  <2>1. d \in Controls /\ <<Lab(c), Set("scoped", FALSE), Lab(d)>> \in PlainQuiet
    BY SwitchingSteps
  <2>2. ~d.held /\ ~d.alert /\ ~d.scoped
    BY DEF Controls
  <2> HIDE DEF d
  <2>3. Plainly(Lab(c), <<Set("scoped", FALSE)>> \o KillSwitchOff, Ready)
    BY <1>1, <2>1, <2>2, PlainMore
  <2>4. <<Ready, Set("document", "open"), Ready>> \in PlainQuiet
    <3>1. [Open EXCEPT !["document"] = "open"] = Open
      BY SwitchedBack
    <3> QED BY <3>1, SwitchingSteps, Switchboard DEF Ready, Document
  <2>5. Plainly(Ready, <<Set("document", "open")>>, Ready)
    BY <2>4, PlainOne
  <2> QED BY <2>3, <2>5, QuietOn DEF ResetToCleanState
<1> QED BY <1>1, <1>2

(* The scripts, and the pieces of scripts, of such steps.                  *)
LEMMA SteadyScripts ==
  /\ AdmitBatches \in Seq(Steady(Open))
  /\ ManagementAndCredentials \in Seq(Steady(Open))
  /\ DisableAndEnableToken \in Seq(Steady(Open))
  /\ Elsewhere \in Seq(Steady(Open))
  /\ VerifySessionMetadata \in Seq(Steady(Open))
  /\ VerifyPipelineFailureBackstop \in Seq(Steady(Open))
  /\ MeasureBrowserSdkTraffic \in Seq(Steady(Open))
  /\ CheckPositiveAndPolicy \in Seq(Steady(Open))
  /\ CheckBodyLimits \in Seq(Steady(Open))
  /\ CheckRateAndConnectionLimits \in Seq(Steady(Open))
  /\ CheckProtocolProbes \in Seq(Steady(Open))
  /\ CheckPrivacyLogs \in Seq(Steady(Open))
  /\ MeasureBrowserBudgets \in Seq(Steady(Open))
  /\ MeasureProxyLatency \in Seq(Steady(Open))
  /\ MeasureQueryCatalogPerformance \in Seq(Steady(Open))
  /\ CheckNotificationReadiness \in Seq(Steady(Open))
  /\ MeasureContainerResourceRecovery \in Seq(Steady(Open))
  /\ RunBrowserWorkload \in Seq(Steady(Open))
  /\ SoakSample \in Seq(Steady(Open))
  /\ RunBurstProbe \in Seq(Steady(Open))
  /\ <<Look("any")>> \in Seq(Steady(Open))
  /\ <<Probe("toolchain")>> \in Seq(Steady(Open))
  /\ <<Probe("nginx"), Probe("tmpfs")>> \in Seq(Steady(Open))
  /\ <<Probe("browser-token")>> \in Seq(Steady(Open))
  /\ <<Probe("unit-coverage")>> \in Seq(Steady(Open))
  /\ <<Probe("leaks")>> \in Seq(Steady(Open))
  /\ <<Probe("telemetry-request")>> \in Seq(Steady(Open))
  /\ <<Probe("consent-and-shutdown")>> \in Seq(Steady(Open))
  /\ <<Probe("gate")>> \in Seq(Steady(Open))
  /\ <<Publish("first", Anything)>> \in Seq(Steady(Open))
  /\ <<Publish("first", {"202"})>> \in Seq(Steady(Open))
  /\ <<Probe("page")>> \in Seq(Steady(Open))
  /\ <<Probe("static")>> \in Seq(Steady(Open))
  /\ <<Await(Service, "found")>> \in Seq(Steady(Open))
  /\ <<Probe("secrets-proxy-containers")>> \in Seq(Steady(Open))
  /\ <<Ask>> \in Seq(Steady(Open))
<1>1. /\ Ask \in Steady(Open) /\ Look("any") \in Steady(Open) /\ Browse \in Steady(Open)
      /\ Await(Service, "found") \in Steady(Open)
      /\ \A what \in Lookups \ {"hold", "scopes", "alert"} : Probe(what) \in Steady(Open)
      /\ \A b \in {"first", "second"}, statuses \in SUBSET Answers :
           "202" \in statuses => Publish(b, statuses) \in Steady(Open)
  BY SteadySteps, Switchboard DEF Ending
<1>2. Anything \in SUBSET Answers /\ "202" \in Anything /\ Anything \ {"503"} \in SUBSET Answers
      /\ "202" \in Anything \ {"503"} /\ {"202"} \in SUBSET Answers
  BY DEF Anything, Answers
<1>3. AdmitBatches \in Seq(Steady(Open))
  BY <1>1, <1>2 DEF AdmitBatches, Lookups
<1>4. ManagementAndCredentials \in Seq(Steady(Open))
  BY <1>1, <1>2 DEF ManagementAndCredentials, Lookups
<1>5. DisableAndEnableToken \in Seq(Steady(Open))
  BY <1>1, <1>2 DEF DisableAndEnableToken, Lookups
<1>6. Elsewhere \in Seq(Steady(Open))
  BY <1>1, <1>2 DEF Elsewhere, Lookups
<1>7. VerifySessionMetadata \in Seq(Steady(Open))
  BY <1>1, <1>2 DEF VerifySessionMetadata, Lookups
<1>8. VerifyPipelineFailureBackstop \in Seq(Steady(Open))
  BY <1>1, <1>2 DEF VerifyPipelineFailureBackstop, Lookups
<1>9. MeasureBrowserSdkTraffic \in Seq(Steady(Open))
  BY <1>1, <1>2 DEF MeasureBrowserSdkTraffic, Lookups
<1>10. CheckPositiveAndPolicy \in Seq(Steady(Open))
  BY <1>1, <1>2 DEF CheckPositiveAndPolicy, Lookups
<1>11. CheckBodyLimits \in Seq(Steady(Open))
  BY <1>1, <1>2 DEF CheckBodyLimits, Lookups
<1>12. CheckRateAndConnectionLimits \in Seq(Steady(Open))
  BY <1>1, <1>2 DEF CheckRateAndConnectionLimits, Lookups
<1>13. CheckProtocolProbes \in Seq(Steady(Open))
  BY <1>1, <1>2 DEF CheckProtocolProbes, Lookups
<1>14. CheckPrivacyLogs \in Seq(Steady(Open))
  BY <1>1, <1>2 DEF CheckPrivacyLogs, Lookups
<1>15. MeasureBrowserBudgets \in Seq(Steady(Open))
  BY <1>1, <1>2 DEF MeasureBrowserBudgets, Lookups
<1>16. MeasureProxyLatency \in Seq(Steady(Open))
  BY <1>1, <1>2 DEF MeasureProxyLatency, Lookups
<1>17. MeasureQueryCatalogPerformance \in Seq(Steady(Open))
  BY <1>1, <1>2 DEF MeasureQueryCatalogPerformance, Lookups, Service
<1>18. CheckNotificationReadiness \in Seq(Steady(Open))
  BY <1>1, <1>2 DEF CheckNotificationReadiness, Lookups
<1>19. MeasureContainerResourceRecovery \in Seq(Steady(Open))
  BY <1>1, <1>2 DEF MeasureContainerResourceRecovery, Lookups
<1>20. RunBrowserWorkload \in Seq(Steady(Open))
  BY <1>1, <1>2 DEF RunBrowserWorkload, Lookups
<1>21. SoakSample \in Seq(Steady(Open))
  BY <1>1, <1>2 DEF SoakSample, Lookups
<1>22. RunBurstProbe \in Seq(Steady(Open))
  BY <1>1, <1>2 DEF RunBurstProbe, Lookups
<1>23. <<Look("any")>> \in Seq(Steady(Open))
  BY <1>1, <1>2 DEF Lookups
<1>24. <<Probe("toolchain")>> \in Seq(Steady(Open))
  BY <1>1, <1>2 DEF Lookups
<1>25. <<Probe("nginx"), Probe("tmpfs")>> \in Seq(Steady(Open))
  BY <1>1, <1>2 DEF Lookups
<1>26. <<Probe("browser-token")>> \in Seq(Steady(Open))
  BY <1>1, <1>2 DEF Lookups
<1>27. <<Probe("unit-coverage")>> \in Seq(Steady(Open))
  BY <1>1, <1>2 DEF Lookups
<1>28. <<Probe("leaks")>> \in Seq(Steady(Open))
  BY <1>1, <1>2 DEF Lookups
<1>29. <<Probe("telemetry-request")>> \in Seq(Steady(Open))
  BY <1>1, <1>2 DEF Lookups
<1>30. <<Probe("consent-and-shutdown")>> \in Seq(Steady(Open))
  BY <1>1, <1>2 DEF Lookups
<1>31. <<Probe("gate")>> \in Seq(Steady(Open))
  BY <1>1, <1>2 DEF Lookups
<1>32. <<Publish("first", Anything)>> \in Seq(Steady(Open))
  BY <1>1, <1>2 DEF Lookups
<1>33. <<Publish("first", {"202"})>> \in Seq(Steady(Open))
  BY <1>1, <1>2 DEF Lookups
<1>34. <<Probe("page")>> \in Seq(Steady(Open))
  BY <1>1, <1>2 DEF Lookups
<1>35. <<Probe("static")>> \in Seq(Steady(Open))
  BY <1>1, <1>2 DEF Lookups
<1>36. <<Await(Service, "found")>> \in Seq(Steady(Open))
  BY <1>1, <1>2 DEF Lookups
<1>37. <<Probe("secrets-proxy-containers")>> \in Seq(Steady(Open))
  BY <1>1, <1>2 DEF Lookups
<1>38. <<Ask>> \in Seq(Steady(Open))
  BY <1>1, <1>2 DEF Lookups
<1> QED BY <1>3, <1>4, <1>5, <1>6, <1>7, <1>8, <1>9, <1>10, <1>11, <1>12, <1>13, <1>14, <1>15,
           <1>16, <1>17, <1>18, <1>19, <1>20, <1>21, <1>22, <1>23, <1>24, <1>25, <1>26, <1>27,
           <1>28, <1>29, <1>30, <1>31, <1>32, <1>33, <1>34, <1>35, <1>36, <1>37, <1>38

LEMMA SteadyOpen ==
  ASSUME NEW s \in Seq(Steady(Open))
  PROVE  Plainly(Ready, s, Ready)
BY SteadyRuns, Switchboard DEF Ready

(* Durable delivery: each store away in turn, the queues on the broker's   *)
(* volume, the redelivery of what was not acknowledged, the hour without   *)
(* OpenObserve.                                                            *)
LEMMA OutageOfOpenObserveQuiet == Plainly(Ready, OutageOfOpenObserve, Ready)
<1> DEFINE e1 == Expect(Service \ {"openobserve"}, {"openobserve"}, Open, FALSE, {}, {}, {"second"}, {}, Pages)
<1>1. /\ Open \in Controls /\ Open.hold = FALSE /\ Open.held = FALSE /\ Open.document = "open"
      /\ Open.scoped = FALSE /\ Open.gate = FALSE /\ Open.closed = FALSE /\ Open.alert = FALSE
  BY Switchboard
<1>2. e1 \in Edges
  BY <1>1, ExpectType DEF Service, Batch, Pages, Shown
<1>3. Ready \in Edges /\ Away \in Edges /\ Waking \in Edges
  BY <1>1, NamedEdges
<1> HIDE DEF e1
<1>4. Reply(Away, "primary") = "202"
  BY <1>1 DEF Reply, Shown, Service, Expect, Away
<1>5. DepthComes(e1, "one")
  BY <1>1 DEF DepthComes, DepthSure, Drains, Batch, Expect, e1
<1>6. DepthComes(Ready, "none")
  BY <1>1 DEF DepthComes, DepthSure, Drains, Batch, Expect, Ready, Lab
<1> USE DEF Expect, Keeps, KeepsServices, KeepsControl, KeepsMessages, KeepsQueues, KeepsPage
<1>7. /\ <<Ready, Stop("openobserve"), Away>> \in PlainQuiet
      /\ <<Away, Await({"rabbitmq", "ingest"}, "ignored"), Away>> \in PlainQuiet
  BY <1>1, <1>3, StopRule, AwaitRule
     DEF Ready, Lab, Away, Service, Ending
<1>8. <<Away, Publish("second", {"202"}), e1>> \in PlainQuiet
  BY <1>1, <1>2, <1>3, <1>4, AdmittedRule
     DEF Away, e1, Answers, Batch
<1>9. /\ <<e1, Depth("one", "found"), e1>> \in PlainQuiet
      /\ <<e1, Start(OpenObserve), Waking>> \in PlainQuiet
  BY <1>1, <1>2, <1>3, <1>5, DepthRule, StartRule
     DEF e1, Depths, Batch, Service, Ending, Waking, OpenObserve
<1>10. /\ <<Waking, Await({"openobserve", "worker"}, "ignored"), Ready>> \in PlainQuiet
       /\ <<Ready, Depth("none", "found"), Ready>> \in PlainQuiet
  BY <1>1, <1>3, <1>6, AwaitRule, DepthRule
     DEF Waking, Ready, Lab, Service, Ending, Depths, Batch
<1> HIDE DEF Expect, Keeps, KeepsServices, KeepsControl, KeepsMessages, KeepsQueues, KeepsPage
<1> DEFINE plan == <<Ready, Away, Away, e1, e1, Waking, Ready, Ready>>
<1>11. plan \in Seq(Expectations) /\ Len(plan) = 8 /\ plan[1] = Ready /\ plan[8] = Ready
  BY <1>2, <1>3, EdgesAre
<1>12. /\ OutageOfOpenObserve \in Seq(PlainStep) /\ Len(OutageOfOpenObserve) = 7
       /\ \A i \in 1..7 : <<plan[i], OutageOfOpenObserve[i], plan[i + 1]>> \in PlainQuiet
  <2>1. OutageOfOpenObserve \in Seq(PlainStep) /\ Len(OutageOfOpenObserve) = 7
    BY <1>7, <1>8, <1>9, <1>10 DEF OutageOfOpenObserve, PlainQuiet
  <2>2. \A i \in 1..7 : <<plan[i], OutageOfOpenObserve[i], plan[i + 1]>> \in PlainQuiet
    BY <1>7, <1>8, <1>9, <1>10 DEF OutageOfOpenObserve
  <2> QED BY <2>1, <2>2
<1> HIDE DEF plan
<1>13. /\ Len(plan) = Len(OutageOfOpenObserve) + 1 /\ plan[Len(plan)] = Ready
      /\ \A i \in 1..Len(OutageOfOpenObserve) : <<plan[i], OutageOfOpenObserve[i], plan[i + 1]>> \in PlainQuiet
  BY <1>11, <1>12
<1> QED BY <1>11, <1>12, <1>13, PlainPlan

LEMMA OutageOfRabbitmqQuiet == Plainly(Ready, OutageOfRabbitmq, Ready)
<1> DEFINE e1 == Expect({"openobserve", "http"}, {"rabbitmq"}, Open, FALSE, {}, {}, {}, {}, Pages)
<1> DEFINE e2 == Expect({"openobserve", "http"}, {}, Open, FALSE, {}, {}, {}, {}, Pages)
<1>1. /\ Open \in Controls /\ Open.hold = FALSE /\ Open.held = FALSE /\ Open.document = "open"
      /\ Open.scoped = FALSE /\ Open.gate = FALSE /\ Open.closed = FALSE /\ Open.alert = FALSE
  BY Switchboard
<1>2. e1 \in Edges /\ e2 \in Edges
  BY <1>1, ExpectType DEF Service, Batch, Pages, Shown
<1>3. Ready \in Edges
  BY <1>1, NamedEdges
<1> HIDE DEF e1, e2
<1>4. Reply(e1, "primary") = "503"
  BY <1>1 DEF Reply, Shown, Service, Expect, e1
<1> USE DEF Expect, Keeps, KeepsServices, KeepsControl, KeepsMessages, KeepsQueues, KeepsPage
<1>5. <<Ready, Stop("rabbitmq"), e1>> \in PlainQuiet
  BY <1>1, <1>2, <1>3, StopRule
     DEF Ready, Lab, e1, Service
<1>6. <<e1, Publish("first", {"503"}), e1>> \in PlainQuiet
  BY <1>1, <1>2, <1>4, RefusedRule
     DEF e1, Answers, Batch
<1>7. /\ <<e1, Start({"rabbitmq"}), e2>> \in PlainQuiet
      /\ <<e2, Await({"rabbitmq", "ingest", "worker"}, "ignored"), Ready>> \in PlainQuiet
  BY <1>1, <1>2, <1>3, StartRule, AwaitRule
     DEF e1, e2, Service, Ready, Lab, Ending
<1> HIDE DEF Expect, Keeps, KeepsServices, KeepsControl, KeepsMessages, KeepsQueues, KeepsPage
<1> QED BY <1>5, <1>6, <1>7, PlainFour DEF OutageOfRabbitmq

LEMMA DurableDeliveryQuiet == Plainly(Ready, VerifyDurableDelivery, Ready)
<1> DEFINE part1 == <<Look("any")>>
<1>1. Plainly(Ready, AdmitBatches, Ready)
  BY SteadyScripts, SteadyOpen
<1>2. Plainly(Ready, OutageOfOpenObserve, Ready)
  BY OutageOfOpenObserveQuiet
<1>3. Plainly(Ready, OutageOfRabbitmq, Ready)
  BY OutageOfRabbitmqQuiet
<1>4. Plainly(Ready, ManagementAndCredentials, Ready)
  BY SteadyScripts, SteadyOpen
<1>5. Plainly(Ready, part1, Ready)
  BY SteadyScripts, SteadyOpen
<1>6. VerifyDurableDelivery = AdmitBatches \o OutageOfOpenObserve \o OutageOfRabbitmq \o ManagementAndCredentials \o part1
  BY DEF VerifyDurableDelivery
<1> HIDE DEF part1
<1>7. Plainly(Ready,
        AdmitBatches \o OutageOfOpenObserve \o OutageOfRabbitmq \o ManagementAndCredentials \o part1,
        Ready)
  BY <1>1, <1>2, <1>3, <1>4, <1>5, QuietOn
<1> QED BY <1>6, <1>7

LEMMA HeldInItsQueueQuiet == Plainly(Drained, HeldInItsQueue, Holding)
<1> DEFINE e1 == Expect(Service, {}, Held, FALSE, Batch, {}, {}, {}, Pages)
<1> DEFINE e2 == Expect(Service, {}, Held, TRUE, Batch, {}, {}, {}, Pages)
<1>1. /\ Open \in Controls /\ Open.hold = FALSE /\ Open.held = FALSE /\ Open.document = "open"
      /\ Open.scoped = FALSE /\ Open.gate = FALSE /\ Open.closed = FALSE /\ Open.alert = FALSE
  BY Switchboard
<1>2. /\ Held \in Controls /\ Held.hold = TRUE /\ Held.held = FALSE /\ Held.document = "open"
      /\ Held.scoped = FALSE /\ Held.gate = FALSE /\ Held.closed = FALSE /\ Held.alert = FALSE
  BY Switchboard
<1>3. e1 \in Edges /\ e2 \in Edges
  BY <1>2, ExpectType DEF Service, Batch, Pages, Shown
<1>4. Drained \in Edges /\ Holding \in Edges
  BY <1>1, <1>2, NamedEdges
<1> HIDE DEF e1, e2
<1>5. [Open EXCEPT !["hold"] = TRUE] = Held
  BY DEF Held
<1>6. DepthSure(Drained, "drained")
  BY <1>1 DEF DepthSure, Batch, Expect, Drained
<1>7. Reply(e2, "primary") = "202"
  BY <1>2 DEF Reply, Shown, Service, Expect, e2
<1>8. DepthComes(Holding, "some")
  BY <1>2 DEF DepthComes, DepthSure, Drains, Batch, Expect, Holding
<1> USE DEF Expect, Keeps, KeepsServices, KeepsControl, KeepsMessages, KeepsQueues, KeepsPage
<1>9. /\ <<Drained, Look("drained"), Drained>> \in PlainQuiet
      /\ <<Drained, Hold, e1>> \in PlainQuiet
  BY <1>1, <1>2, <1>3, <1>4, <1>5, <1>6, LookRule, SetRule
     DEF Drained, Depths, Batch, Service, e1, Hold
<1>10. <<e1, Settle, e2>> \in PlainQuiet
  BY <1>2, <1>3, SettleRule
     DEF e1, e2
<1>11. <<e2, Publish("first", {"202"}), Holding>> \in PlainQuiet
  BY <1>2, <1>3, <1>4, <1>7, AdmittedRule
     DEF e2, Holding, Answers, Batch
<1>12. /\ <<Holding, Probe("sensitive-payloads"), Holding>> \in PlainQuiet
       /\ <<Holding, Depth("some", "found"), Holding>> \in PlainQuiet
  BY <1>2, <1>4, <1>8, ProbeRule, DepthRule
     DEF Holding, Lookups, LooksRight, Service, Depths, Batch, Ending
<1> HIDE DEF Expect, Keeps, KeepsServices, KeepsControl, KeepsMessages, KeepsQueues, KeepsPage
<1> QED BY <1>9, <1>10, <1>11, <1>12, PlainSix DEF HeldInItsQueue

LEMMA OnTheBrokersVolumeQuiet == Plainly(Holding, OnTheBrokersVolume, Holding)
<1> DEFINE e1 == Expect({"openobserve", "http"}, {"rabbitmq"}, Held, TRUE, {"left", "second"}, {"first"}, {}, {"first"}, Pages)
<1> DEFINE e2 == Expect({"openobserve", "http"}, {}, Held, TRUE, {"left", "second"}, {"first"}, {}, {"first"}, Pages)
<1>1. /\ Held \in Controls /\ Held.hold = TRUE /\ Held.held = FALSE /\ Held.document = "open"
      /\ Held.scoped = FALSE /\ Held.gate = FALSE /\ Held.closed = FALSE /\ Held.alert = FALSE
  BY Switchboard
<1>2. e1 \in Edges /\ e2 \in Edges
  BY <1>1, ExpectType DEF Service, Batch, Pages, Shown
<1>3. Holding \in Edges
  BY <1>1, NamedEdges
<1> HIDE DEF e1, e2
<1>4. DepthComes(Holding, "some")
  BY <1>1 DEF DepthComes, DepthSure, Drains, Batch, Expect, Holding
<1> USE DEF Expect, Keeps, KeepsServices, KeepsControl, KeepsMessages, KeepsQueues, KeepsPage
<1>5. /\ <<Holding, Stop("rabbitmq"), e1>> \in PlainQuiet
      /\ <<e1, Probe("volume"), e1>> \in PlainQuiet
  BY <1>1, <1>2, <1>3, StopRule, ProbeRule
     DEF Holding, e1, Service, Lookups, LooksRight
<1>6. /\ <<e1, Start({"rabbitmq"}), e2>> \in PlainQuiet
      /\ <<e2, Recreate({"ingest", "worker"}), e2>> \in PlainQuiet
  BY <1>1, <1>2, StartRule, RecreateRule
     DEF e1, e2, Service
<1>7. /\ <<e2, Await({"rabbitmq", "ingest", "worker"}, "found"), Holding>> \in PlainQuiet
      /\ <<Holding, Depth("some", "found"), Holding>> \in PlainQuiet
  BY <1>1, <1>2, <1>3, <1>4, AwaitRule, DepthRule
     DEF e2, Holding, Service, Ending, Depths, Batch
<1> HIDE DEF Expect, Keeps, KeepsServices, KeepsControl, KeepsMessages, KeepsQueues, KeepsPage
<1> QED BY <1>5, <1>6, <1>7, PlainSix DEF OnTheBrokersVolume

LEMMA DrainedIntoOpenObserveQuiet == Plainly(Holding, DrainedIntoOpenObserve, Ready)
<1> DEFINE e1 == Expect(Service, {}, Open, FALSE, {"left", "second"}, {}, {}, {"first"}, Pages)
<1> DEFINE e2 == Expect(Service, {}, Open, FALSE, Batch, {}, {}, {"first"}, Pages)
<1>1. /\ Held \in Controls /\ Held.hold = TRUE /\ Held.held = FALSE /\ Held.document = "open"
      /\ Held.scoped = FALSE /\ Held.gate = FALSE /\ Held.closed = FALSE /\ Held.alert = FALSE
  BY Switchboard
<1>2. /\ Open \in Controls /\ Open.hold = FALSE /\ Open.held = FALSE /\ Open.document = "open"
      /\ Open.scoped = FALSE /\ Open.gate = FALSE /\ Open.closed = FALSE /\ Open.alert = FALSE
  BY Switchboard
<1>3. e1 \in Edges /\ e2 \in Edges
  BY <1>2, ExpectType DEF Service, Batch, Pages, Shown
<1>4. Holding \in Edges /\ Ready \in Edges
  BY <1>1, <1>2, NamedEdges
<1> HIDE DEF e1, e2
<1>5. [Held EXCEPT !["hold"] = FALSE] = Open
  BY SwitchedBack
<1>6. DepthComes(e1, "drained")
  BY <1>2 DEF DepthComes, DepthSure, Drains, Batch, Expect, e1
<1> USE DEF Expect, Keeps, KeepsServices, KeepsControl, KeepsMessages, KeepsQueues, KeepsPage
<1>7. /\ <<Holding, Resume, e1>> \in PlainQuiet
      /\ <<e1, Depth("drained", "found"), e2>> \in PlainQuiet
  <2>1. <<Holding, Resume, e1>> \in PlainQuiet
    BY <1>1, <1>2, <1>3, <1>4, <1>5, SetRule
       DEF Holding, e1, Resume, Batch, Service, Ending
  <2>2. <<e1, Depth("drained", "found"), e2>> \in PlainQuiet
    BY <1>2, <1>3, <1>6, DepthRule
       DEF e1, e2, Depths, Batch, Service, Ending
  <2> QED BY <2>1, <2>2
<1>8. /\ <<e2, Look("any"), e2>> \in PlainQuiet
      /\ <<e2, Probe("logs"), e2>> \in PlainQuiet
  BY <1>2, <1>3, LookRule, ProbeRule
     DEF e2, Depths, Batch, Service, DepthSure, Lookups, LooksRight
<1>9. /\ <<e2, Count("first"), e2>> \in PlainQuiet
      /\ <<e2, Probe("canaries"), Ready>> \in PlainQuiet
  BY <1>2, <1>3, <1>4, CountRule, ProbeRule
     DEF e2, Batch, Service, Ready, Lab, Lookups, LooksRight
<1> HIDE DEF Expect, Keeps, KeepsServices, KeepsControl, KeepsMessages, KeepsQueues, KeepsPage
<1> QED BY <1>7, <1>8, <1>9, PlainSix DEF DrainedIntoOpenObserve

LEMMA PreAckQuiet == Plainly(Drained, VerifyPreAckRedelivery, Ready)
<1> DEFINE e1 == Expect(Service, {}, Held, FALSE, Batch, {}, {}, {}, Pages)
<1> DEFINE e2 == Expect(Service \ {"worker"}, {"worker"}, Held, FALSE, Batch, {}, {}, {}, Pages)
<1> DEFINE e3 == Expect(Service \ {"worker"}, {"worker"}, Held, FALSE, {"left", "second"}, {"first"}, {}, {"first"}, Pages)
<1> DEFINE e4 == Expect(Service \ {"worker"}, {"worker"}, Open, FALSE, {"left", "second"}, {"first"}, {}, {"first"}, Pages)
<1> DEFINE e5 == Expect(Service \ {"worker"}, {}, Open, FALSE, {"left", "second"}, {}, {}, {"first"}, Pages)
<1> DEFINE e6 == Expect(Service, {}, Open, FALSE, {"left", "second"}, {}, {}, {"first"}, Pages)
<1> DEFINE e7 == Expect(Service, {}, Open, FALSE, Batch, {}, {}, {"first"}, Pages)
<1>1. /\ Open \in Controls /\ Open.hold = FALSE /\ Open.held = FALSE /\ Open.document = "open"
      /\ Open.scoped = FALSE /\ Open.gate = FALSE /\ Open.closed = FALSE /\ Open.alert = FALSE
  BY Switchboard
<1>2. /\ Held \in Controls /\ Held.hold = TRUE /\ Held.held = FALSE /\ Held.document = "open"
      /\ Held.scoped = FALSE /\ Held.gate = FALSE /\ Held.closed = FALSE /\ Held.alert = FALSE
  BY Switchboard
<1>3. e1 \in Edges /\ e2 \in Edges /\ e3 \in Edges
  BY <1>2, ExpectType DEF Service, Batch, Pages, Shown
<1>4. e4 \in Edges /\ e5 \in Edges /\ e6 \in Edges
  BY <1>1, ExpectType DEF Service, Batch, Pages, Shown
<1>5. e7 \in Edges
  BY <1>1, ExpectType DEF Service, Batch, Pages, Shown
<1>6. Drained \in Edges /\ Ready \in Edges
  BY <1>1, NamedEdges
<1> HIDE DEF e1, e2, e3, e4, e5, e6, e7
<1>7. [Open EXCEPT !["hold"] = TRUE] = Held
  BY DEF Held
<1>8. [Held EXCEPT !["hold"] = FALSE] = Open
  BY SwitchedBack
<1>9. [Open EXCEPT !["hold"] = FALSE] = Open
  BY SwitchedBack
<1>10. Reply(e2, "primary") = "202"
  BY <1>2 DEF Reply, Shown, Service, Expect, e2
<1>11. DepthComes(e3, "some")
  BY <1>2 DEF DepthComes, DepthSure, Drains, Batch, Expect, e3
<1>12. DepthComes(e4, "some")
  BY <1>1 DEF DepthComes, DepthSure, Drains, Batch, Expect, e4
<1>13. DepthComes(e6, "drained")
  BY <1>1 DEF DepthComes, DepthSure, Drains, Batch, Expect, e6
<1>14. DepthSure(e7, "drained")
  BY <1>1 DEF DepthSure, Batch, Expect, e7
<1> USE DEF Expect, Keeps, KeepsServices, KeepsControl, KeepsMessages, KeepsQueues, KeepsPage
<1>15. /\ <<Drained, Hold, e1>> \in PlainQuiet
       /\ <<e1, Stop("worker"), e2>> \in PlainQuiet
  <2>1. <<Drained, Hold, e1>> \in PlainQuiet
    BY <1>1, <1>2, <1>3, <1>6, <1>7, SetRule DEF Drained, e1, Hold
  <2>2. <<e1, Stop("worker"), e2>> \in PlainQuiet
    BY <1>2, <1>3, StopRule DEF e1, e2, Service
  <2> QED BY <2>1, <2>2
<1>16. <<e2, Publish("first", {"202"}), e3>> \in PlainQuiet
  BY <1>2, <1>3, <1>10, AdmittedRule
     DEF e2, e3, Answers, Batch
<1>17. /\ <<e3, Depth("some", "found"), e3>> \in PlainQuiet
       /\ <<e3, Resume, e4>> \in PlainQuiet
  BY <1>1, <1>2, <1>3, <1>4, <1>8, <1>11, DepthRule, SetRule
     DEF e3, Depths, Batch, Service, Ending, e4, Resume
<1>18. /\ <<e4, Harness("first"), e4>> \in PlainQuiet
       /\ <<e4, Depth("some", "found"), e4>> \in PlainQuiet
  BY <1>1, <1>4, <1>12, HarnessRule, DepthRule
     DEF e4, Batch, Service, Depths, Ending
<1>19. /\ <<e4, Recreate({"worker"}), e5>> \in PlainQuiet
       /\ <<e5, Await({"worker"}, "ignored"), e6>> \in PlainQuiet
  BY <1>1, <1>4, RecreateRule, AwaitRule
     DEF e4, e5, Service, e6, Ending
<1>20. /\ <<e6, Resume, e6>> \in PlainQuiet
       /\ <<e6, Depth("drained", "found"), e7>> \in PlainQuiet
  BY <1>1, <1>4, <1>5, <1>9, <1>13, SetRule, DepthRule
     DEF e6, Resume, e7, Depths, Batch, Service, Ending
<1>21. /\ <<e7, Probe("redelivery-log"), e7>> \in PlainQuiet
       /\ <<e7, Count("first"), e7>> \in PlainQuiet
  BY <1>1, <1>5, ProbeRule, CountRule
     DEF e7, Lookups, LooksRight, Service, Batch
<1>22. <<e7, Look("drained"), Ready>> \in PlainQuiet
  BY <1>1, <1>5, <1>6, <1>14, LookRule
     DEF e7, Ready, Lab, Depths, Batch, Service
<1> HIDE DEF Expect, Keeps, KeepsServices, KeepsControl, KeepsMessages, KeepsQueues, KeepsPage
<1> DEFINE plan == <<Drained, e1, e2, e3, e3, e4, e4, e4, e5, e6, e6, e7, e7, e7, Ready>>
<1>23. plan \in Seq(Expectations) /\ Len(plan) = 15 /\ plan[1] = Drained /\ plan[15] = Ready
  BY <1>3, <1>4, <1>5, <1>6, EdgesAre
<1>24. /\ VerifyPreAckRedelivery \in Seq(PlainStep) /\ Len(VerifyPreAckRedelivery) = 14
       /\ \A i \in 1..14 : <<plan[i], VerifyPreAckRedelivery[i], plan[i + 1]>> \in PlainQuiet
  <2>1. VerifyPreAckRedelivery \in Seq(PlainStep) /\ Len(VerifyPreAckRedelivery) = 14
    BY <1>15, <1>16, <1>17, <1>18, <1>19, <1>20, <1>21, <1>22 DEF VerifyPreAckRedelivery, PlainQuiet
  <2>2. \A i \in 1..14 : <<plan[i], VerifyPreAckRedelivery[i], plan[i + 1]>> \in PlainQuiet
    BY <1>15, <1>16, <1>17, <1>18, <1>19, <1>20, <1>21, <1>22 DEF VerifyPreAckRedelivery
  <2> QED BY <2>1, <2>2
<1> HIDE DEF plan
<1>25. /\ Len(plan) = Len(VerifyPreAckRedelivery) + 1 /\ plan[Len(plan)] = Ready
      /\ \A i \in 1..Len(VerifyPreAckRedelivery) : <<plan[i], VerifyPreAckRedelivery[i], plan[i + 1]>> \in PlainQuiet
  BY <1>23, <1>24
<1> QED BY <1>23, <1>24, <1>25, PlainPlan

LEMMA SoakOutageQuiet == Plainly(Drained, SoakOutage, Stuck)
<1> DEFINE e1 == Expect(Service \ {"openobserve"}, {"openobserve"}, Open, FALSE, Batch, {}, {}, {}, Pages)
<1> DEFINE e2 == Expect(Service \ {"openobserve"}, {"openobserve"}, Open, FALSE, {"left", "second"}, {}, {"first"}, {"first"}, Pages)
<1> DEFINE e3 == Expect(Service \ {"openobserve"}, {"openobserve"}, Open, FALSE, {"left"}, {}, {"first", "second"}, {"first", "second"}, Pages)
<1>1. /\ Open \in Controls /\ Open.hold = FALSE /\ Open.held = FALSE /\ Open.document = "open"
      /\ Open.scoped = FALSE /\ Open.gate = FALSE /\ Open.closed = FALSE /\ Open.alert = FALSE
  BY Switchboard
<1>2. e1 \in Edges /\ e2 \in Edges /\ e3 \in Edges
  BY <1>1, ExpectType DEF Service, Batch, Pages, Shown
<1>3. Drained \in Edges /\ Stuck \in Edges
  BY <1>1, NamedEdges
<1> HIDE DEF e1, e2, e3
<1>4. [Open EXCEPT !["hold"] = FALSE] = Open
  BY SwitchedBack
<1>5. DepthSure(Drained, "drained")
  BY <1>1 DEF DepthSure, Batch, Expect, Drained
<1>6. Reply(e1, "primary") = "202"
  BY <1>1 DEF Reply, Shown, Service, Expect, e1
<1>7. Reply(e2, "primary") = "202"
  BY <1>1 DEF Reply, Shown, Service, Expect, e2
<1>8. DepthSure(e3, "queued")
  BY <1>1 DEF DepthSure, Batch, Expect, e3
<1> USE DEF Expect, Keeps, KeepsServices, KeepsControl, KeepsMessages, KeepsQueues, KeepsPage
<1>9. /\ <<Drained, Resume, Drained>> \in PlainQuiet
      /\ <<Drained, Await(Service \ {"http"}, "ignored"), Drained>> \in PlainQuiet
  BY <1>1, <1>3, <1>4, SetRule, AwaitRule
     DEF Drained, Resume, Service, Ending
<1>10. /\ <<Drained, Look("drained"), Drained>> \in PlainQuiet
       /\ <<Drained, Ask, Drained>> \in PlainQuiet
  BY <1>1, <1>3, <1>5, LookRule, AskRule
     DEF Drained, Depths, Batch, Service
<1>11. /\ <<Drained, Stop("openobserve"), e1>> \in PlainQuiet
       /\ <<e1, Await({"ingest", "rabbitmq", "worker"}, "ignored"), e1>> \in PlainQuiet
  <2>1. <<Drained, Stop("openobserve"), e1>> \in PlainQuiet
    BY <1>1, <1>2, <1>3, StopRule DEF Drained, e1, Service, Ending
  <2>2. <<e1, Await({"ingest", "rabbitmq", "worker"}, "ignored"), e1>> \in PlainQuiet
    BY <1>1, <1>2, AwaitRule DEF e1, Service, Ending
  <2> QED BY <2>1, <2>2
<1>12. <<e1, Browse, e1>> \in PlainQuiet
  BY <1>1, <1>2, BrowseRule
     DEF e1, Shown, Pages
<1>13. <<e1, Publish("first", {"202"}), e2>> \in PlainQuiet
  BY <1>1, <1>2, <1>6, AdmittedRule
     DEF e1, e2, Answers, Batch
<1>14. <<e2, Publish("second", {"202"}), e3>> \in PlainQuiet
  BY <1>1, <1>2, <1>7, AdmittedRule
     DEF e2, e3, Answers, Batch
<1>15. <<e3, Look("queued"), Stuck>> \in PlainQuiet
  BY <1>1, <1>2, <1>3, <1>8, LookRule
     DEF e3, Stuck, Depths, Batch, Service
<1> HIDE DEF Expect, Keeps, KeepsServices, KeepsControl, KeepsMessages, KeepsQueues, KeepsPage
<1> DEFINE plan == <<Drained, Drained, Drained, Drained, Drained, e1, e1, e1, e2, e3, Stuck>>
<1>16. plan \in Seq(Expectations) /\ Len(plan) = 11 /\ plan[1] = Drained /\ plan[11] = Stuck
  BY <1>2, <1>3, EdgesAre
<1>17. /\ SoakOutage \in Seq(PlainStep) /\ Len(SoakOutage) = 10
       /\ \A i \in 1..10 : <<plan[i], SoakOutage[i], plan[i + 1]>> \in PlainQuiet
  <2>1. SoakOutage \in Seq(PlainStep) /\ Len(SoakOutage) = 10
    BY <1>9, <1>10, <1>11, <1>12, <1>13, <1>14, <1>15 DEF SoakOutage, PlainQuiet
  <2>2. \A i \in 1..10 : <<plan[i], SoakOutage[i], plan[i + 1]>> \in PlainQuiet
    BY <1>9, <1>10, <1>11, <1>12, <1>13, <1>14, <1>15 DEF SoakOutage
  <2> QED BY <2>1, <2>2
<1> HIDE DEF plan
<1>18. /\ Len(plan) = Len(SoakOutage) + 1 /\ plan[Len(plan)] = Stuck
      /\ \A i \in 1..Len(SoakOutage) : <<plan[i], SoakOutage[i], plan[i + 1]>> \in PlainQuiet
  BY <1>16, <1>17
<1> QED BY <1>16, <1>17, <1>18, PlainPlan

LEMMA SoakDrainQuiet == Plainly(Stuck, SoakDrain, Ready)
<1> DEFINE e1 == Expect(Service \ {"openobserve"}, {}, Open, FALSE, {}, {}, {}, {"first", "second"}, Pages)
<1>1. /\ Open \in Controls /\ Open.hold = FALSE /\ Open.held = FALSE /\ Open.document = "open"
      /\ Open.scoped = FALSE /\ Open.gate = FALSE /\ Open.closed = FALSE /\ Open.alert = FALSE
  BY Switchboard
<1>2. e1 \in Edges
  BY <1>1, ExpectType DEF Service, Batch, Pages, Shown
<1>3. Stuck \in Edges /\ BothSent \in Edges /\ Ready \in Edges
  BY <1>1, NamedEdges
<1> HIDE DEF e1
<1>4. [Open EXCEPT !["hold"] = FALSE] = Open
  BY SwitchedBack
<1>5. DepthComes(BothSent, "drained")
  BY <1>1 DEF DepthComes, DepthSure, Drains, Batch, Expect, BothSent
<1>6. Drains(BothSent)
  BY <1>1 DEF Drains, Expect, BothSent
<1> USE DEF Expect, Keeps, KeepsServices, KeepsControl, KeepsMessages, KeepsQueues, KeepsPage
<1>7. /\ <<Stuck, Start(OpenObserve), e1>> \in PlainQuiet
      /\ <<e1, Await({"openobserve", "worker"}, "ignored"), BothSent>> \in PlainQuiet
  BY <1>1, <1>2, <1>3, StartRule, AwaitRule
     DEF Stuck, e1, Service, OpenObserve, BothSent, Ending
<1>8. /\ <<BothSent, Resume, BothSent>> \in PlainQuiet
      /\ <<BothSent, Depth("drained", "found"), BothSent>> \in PlainQuiet
  BY <1>1, <1>3, <1>4, <1>5, SetRule, DepthRule
     DEF BothSent, Resume, Depths, Batch, Service, Ending
<1>9. /\ <<BothSent, Look("any"), BothSent>> \in PlainQuiet
      /\ <<BothSent, AwaitAny({"first", "second"}, "found"), BothSent>> \in PlainQuiet
  BY <1>1, <1>3, <1>6, LookRule, RowsRule
     DEF BothSent, Depths, Batch, Service, DepthSure, Ending
<1>10. <<BothSent, Look("any"), Ready>> \in PlainQuiet
  BY <1>1, <1>3, LookRule
     DEF BothSent, Ready, Lab, Depths, Batch, Service, DepthSure
<1> HIDE DEF Expect, Keeps, KeepsServices, KeepsControl, KeepsMessages, KeepsQueues, KeepsPage
<1> DEFINE plan == <<Stuck, e1, BothSent, BothSent, BothSent, BothSent, BothSent, Ready>>
<1>11. plan \in Seq(Expectations) /\ Len(plan) = 8 /\ plan[1] = Stuck /\ plan[8] = Ready
  BY <1>2, <1>3, EdgesAre
<1>12. /\ SoakDrain \in Seq(PlainStep) /\ Len(SoakDrain) = 7
       /\ \A i \in 1..7 : <<plan[i], SoakDrain[i], plan[i + 1]>> \in PlainQuiet
  <2>1. SoakDrain \in Seq(PlainStep) /\ Len(SoakDrain) = 7
    BY <1>7, <1>8, <1>9, <1>10 DEF SoakDrain, PlainQuiet
  <2>2. \A i \in 1..7 : <<plan[i], SoakDrain[i], plan[i + 1]>> \in PlainQuiet
    BY <1>7, <1>8, <1>9, <1>10 DEF SoakDrain
  <2> QED BY <2>1, <2>2
<1> HIDE DEF plan
<1>13. /\ Len(plan) = Len(SoakDrain) + 1 /\ plan[Len(plan)] = Ready
      /\ \A i \in 1..Len(SoakDrain) : <<plan[i], SoakDrain[i], plan[i + 1]>> \in PlainQuiet
  BY <1>11, <1>12
<1> QED BY <1>11, <1>12, <1>13, PlainPlan

LEMMA RealSoakQuiet == Plainly(Drained, VerifyRealDurableOutageSoak, Ready)
<1>1. Plainly(Drained, SoakOutage, Stuck)
  BY SoakOutageQuiet
<1>2. Plainly(Stuck, SoakDrain, Ready)
  BY SoakDrainQuiet
<1>3. VerifyRealDurableOutageSoak = SoakOutage \o SoakDrain
  BY DEF VerifyRealDurableOutageSoak
<1>4. Plainly(Drained, SoakOutage \o SoakDrain, Ready)
  BY <1>1, <1>2, QuietOn
<1> QED BY <1>3, <1>4

(* Credential rotation: held back, one service after the other, let go.    *)
LEMMA RotationBeginsQuiet == Plainly(Drained, <<Hold, Settle, Publish("first", {"202"}), BlindDepth("one")>>, Holding)
<1> DEFINE e1 == Expect(Service, {}, Held, FALSE, Batch, {}, {}, {}, Pages)
<1> DEFINE e2 == Expect(Service, {}, Held, TRUE, Batch, {}, {}, {}, Pages)
<1>1. /\ Open \in Controls /\ Open.hold = FALSE /\ Open.held = FALSE /\ Open.document = "open"
      /\ Open.scoped = FALSE /\ Open.gate = FALSE /\ Open.closed = FALSE /\ Open.alert = FALSE
  BY Switchboard
<1>2. /\ Held \in Controls /\ Held.hold = TRUE /\ Held.held = FALSE /\ Held.document = "open"
      /\ Held.scoped = FALSE /\ Held.gate = FALSE /\ Held.closed = FALSE /\ Held.alert = FALSE
  BY Switchboard
<1>3. e1 \in Edges /\ e2 \in Edges
  BY <1>2, ExpectType DEF Service, Batch, Pages, Shown
<1>4. Drained \in Edges /\ Holding \in Edges
  BY <1>1, <1>2, NamedEdges
<1> HIDE DEF e1, e2
<1>5. [Open EXCEPT !["hold"] = TRUE] = Held
  BY DEF Held
<1>6. Reply(e2, "primary") = "202"
  BY <1>2 DEF Reply, Shown, Service, Expect, e2
<1>7. DepthComes(Holding, "one")
  BY <1>2 DEF DepthComes, DepthSure, Drains, Batch, Expect, Holding
<1> USE DEF Expect, Keeps, KeepsServices, KeepsControl, KeepsMessages, KeepsQueues, KeepsPage
<1>8. /\ <<Drained, Hold, e1>> \in PlainQuiet
      /\ <<e1, Settle, e2>> \in PlainQuiet
  BY <1>1, <1>2, <1>3, <1>4, <1>5, SetRule, SettleRule
     DEF Drained, e1, Hold, e2
<1>9. <<e2, Publish("first", {"202"}), Holding>> \in PlainQuiet
  BY <1>2, <1>3, <1>4, <1>6, AdmittedRule
     DEF e2, Holding, Answers, Batch
<1>10. <<Holding, BlindDepth("one"), Holding>> \in PlainQuiet
  BY <1>2, <1>4, <1>7, BlindRule
     DEF Holding, Depths, Batch, Service
<1> HIDE DEF Expect, Keeps, KeepsServices, KeepsControl, KeepsMessages, KeepsQueues, KeepsPage
<1> QED BY <1>8, <1>9, <1>10, PlainFour

LEMMA RotateIngestQuiet == Plainly(Holding, RotateRabbitmqCredential("ingest"), Rotating)
<1>1. /\ Held \in Controls /\ Held.hold = TRUE /\ Held.held = FALSE /\ Held.document = "open"
      /\ Held.scoped = FALSE /\ Held.gate = FALSE /\ Held.closed = FALSE /\ Held.alert = FALSE
  BY Switchboard
<1>2. Holding \in Edges /\ Rotating \in Edges
  BY <1>1, NamedEdges
<1> USE DEF Expect, Keeps, KeepsServices, KeepsControl, KeepsMessages, KeepsQueues, KeepsPage
<1>3. /\ <<Holding, Probe("rabbitmq"), Holding>> \in PlainQuiet
      /\ <<Holding, Rotate("ingest"), Rotating>> \in PlainQuiet
  BY <1>1, <1>2, ProbeRule, RotateRule
     DEF Holding, Lookups, LooksRight, Service, Rotating
<1>4. <<Rotating, Probe("old-and-new-credential"), Rotating>> \in PlainQuiet
  BY <1>1, <1>2, ProbeRule
     DEF Rotating, Lookups, LooksRight, Service
<1> HIDE DEF Expect, Keeps, KeepsServices, KeepsControl, KeepsMessages, KeepsQueues, KeepsPage
<1> QED BY <1>3, <1>4, PlainThree DEF RotateRabbitmqCredential

LEMMA RotateWorkerQuiet == Plainly(Rotating, RotateRabbitmqCredential("worker"), Rotated)
<1>1. /\ Held \in Controls /\ Held.hold = TRUE /\ Held.held = FALSE /\ Held.document = "open"
      /\ Held.scoped = FALSE /\ Held.gate = FALSE /\ Held.closed = FALSE /\ Held.alert = FALSE
  BY Switchboard
<1>2. Rotating \in Edges /\ Rotated \in Edges
  BY <1>1, NamedEdges
<1> USE DEF Expect, Keeps, KeepsServices, KeepsControl, KeepsMessages, KeepsQueues, KeepsPage
<1>3. /\ <<Rotating, Probe("rabbitmq"), Rotating>> \in PlainQuiet
      /\ <<Rotating, Rotate("worker"), Rotated>> \in PlainQuiet
  BY <1>1, <1>2, ProbeRule, RotateRule
     DEF Rotating, Lookups, LooksRight, Service, Rotated
<1>4. <<Rotated, Probe("old-and-new-credential"), Rotated>> \in PlainQuiet
  BY <1>1, <1>2, ProbeRule
     DEF Rotated, Lookups, LooksRight, Service
<1> HIDE DEF Expect, Keeps, KeepsServices, KeepsControl, KeepsMessages, KeepsQueues, KeepsPage
<1> QED BY <1>3, <1>4, PlainThree DEF RotateRabbitmqCredential

LEMMA RotationEndsQuiet == Plainly(Rotated, <<Await({"ingest", "worker"}, "found"), Resume, BlindDepth("none"), Publish("second", {"202"}), BlindDepth("none")>>, Ready)
<1>1. /\ Held \in Controls /\ Held.hold = TRUE /\ Held.held = FALSE /\ Held.document = "open"
      /\ Held.scoped = FALSE /\ Held.gate = FALSE /\ Held.closed = FALSE /\ Held.alert = FALSE
  BY Switchboard
<1>2. /\ Open \in Controls /\ Open.hold = FALSE /\ Open.held = FALSE /\ Open.document = "open"
      /\ Open.scoped = FALSE /\ Open.gate = FALSE /\ Open.closed = FALSE /\ Open.alert = FALSE
  BY Switchboard
<1>3. Rotated \in Edges /\ Lab(Held) \in Edges /\ Ready \in Edges
  BY <1>1, <1>2, NamedEdges
<1>4. [Held EXCEPT !["hold"] = FALSE] = Open
  BY SwitchedBack
<1>5. DepthComes(Ready, "none")
  BY <1>2 DEF DepthComes, DepthSure, Drains, Batch, Expect, Ready, Lab
<1>6. Reply(Ready, "primary") = "202"
  BY <1>2 DEF Reply, Shown, Service, Expect, Ready, Lab
<1> USE DEF Expect, Keeps, KeepsServices, KeepsControl, KeepsMessages, KeepsQueues, KeepsPage
<1>7. /\ <<Rotated, Await({"ingest", "worker"}, "found"), Lab(Held)>> \in PlainQuiet
      /\ <<Lab(Held), Resume, Ready>> \in PlainQuiet
  BY <1>1, <1>2, <1>3, <1>4, AwaitRule, SetRule
     DEF Rotated, Lab, Service, Ending, Ready, Resume
<1>8. <<Ready, BlindDepth("none"), Ready>> \in PlainQuiet
  BY <1>2, <1>3, <1>5, BlindRule
     DEF Ready, Lab, Depths, Batch, Service
<1>9. <<Ready, Publish("second", {"202"}), Ready>> \in PlainQuiet
  BY <1>2, <1>3, <1>6, AdmittedRule
     DEF Ready, Lab, Answers, Batch
<1> HIDE DEF Expect, Keeps, KeepsServices, KeepsControl, KeepsMessages, KeepsQueues, KeepsPage
<1> QED BY <1>7, <1>8, <1>9, PlainFive

LEMMA TokenRotationQuiet == Plainly(Drained, VerifyTokenRotation, Ready)
<1> DEFINE part1 == <<Hold, Settle, Publish("first", {"202"}), BlindDepth("one")>>
<1> DEFINE part2 == RotateRabbitmqCredential("ingest")
<1> DEFINE part3 == RotateRabbitmqCredential("worker")
<1> DEFINE part4 == <<Await({"ingest", "worker"}, "found"), Resume, BlindDepth("none"), Publish("second", {"202"}), BlindDepth("none")>>
<1>1. Plainly(Drained, part1, Holding)
  BY RotationBeginsQuiet
<1>2. Plainly(Holding, part2, Rotating)
  BY RotateIngestQuiet
<1>3. Plainly(Rotating, part3, Rotated)
  BY RotateWorkerQuiet
<1>4. Plainly(Rotated, part4, Ready)
  BY RotationEndsQuiet
<1>5. Plainly(Ready, DisableAndEnableToken, Ready)
  BY SteadyScripts, SteadyOpen
<1>6. VerifyTokenRotation = part1 \o part2 \o part3 \o part4 \o DisableAndEnableToken
  BY DEF VerifyTokenRotation, RotateRabbitmqCredentials
<1> HIDE DEF part1, part2, part3, part4
<1>7. Plainly(Drained, part1 \o part2 \o part3 \o part4 \o DisableAndEnableToken, Ready)
  BY <1>1, <1>2, <1>3, <1>4, <1>5, QuietOn
<1> QED BY <1>6, <1>7

(***************************************************************************)
(* The resets.                                                             *)
(***************************************************************************)
LEMMA PurgeQuiet == Plainly(Ready, PurgeQueues, Drained)
<1> DEFINE swept == [Ready EXCEPT !.swept = TRUE]
<1>1. /\ Ready \in Expectations /\ Ready.up = Service /\ Ready.down = {} /\ Ready.control = Open
      /\ Ready.synced = FALSE /\ Ready.main = {} /\ Ready.queued = {} /\ Ready.kept = {}
      /\ Ready.page = Pages
  BY NamedEdges, EdgesAre, LabFields DEF Ready
<1>2. /\ swept.up = Service /\ swept.down = {} /\ swept.control = Open /\ swept.synced = FALSE
      /\ swept.none = {} /\ swept.main = {} /\ swept.queued = {} /\ swept.kept = {}
      /\ swept.page = Pages /\ swept.swept
  BY LabFields DEF Ready, Lab, Expect
<1>3. swept \in Expectations
  <2>1. swept \in [up : SUBSET Service, down : SUBSET Service, control : Controls, synced : BOOLEAN,
          none : SUBSET Batch, main : SUBSET Batch, queued : SUBSET Batch, kept : SUBSET Batch,
          swept : BOOLEAN, page : SUBSET Pages]
    BY <1>1 DEF Expectations
  <2> HIDE DEF swept
  <2> QED BY <1>2, <2>1 DEF Expectations, Pages
<1>4. /\ Drained \in Expectations /\ Drained.up = Service /\ Drained.down = {} /\ Drained.control = Open
      /\ Drained.synced = FALSE /\ Drained.none = Batch /\ Drained.main = {} /\ Drained.queued = {}
      /\ Drained.kept = {} /\ ~Drained.swept /\ Drained.page = Pages
  BY NamedEdges, EdgesAre DEF Drained, Expect
<1> HIDE DEF swept
<1>5. <<Ready, Purge("main"), swept>> \in PlainQuiet
  <2> DEFINE step == Purge("main")
  <2>1. step.do = "purge" /\ step.place = "main" /\ step \in PlainStep
    BY DEF Purge, PlainStep, Place
  <2> HIDE DEF step
  <2>2. Passes(Ready, step)
    BY <1>1, <2>1 DEF Passes, Service
  <2>3. Justified(Ready, step, swept)
    BY <1>1, <1>2, <2>1
       DEF Justified, UpAfter, DownAfter, ControlAfter, SyncedAfter, NoneAfter, KeptAfter, PageAfter,
           Empties, Admits
  <2> QED BY <1>1, <1>3, <2>1, <2>2, <2>3, QuietPair DEF step
<1>6. <<swept, Purge("retry"), Drained>> \in PlainQuiet
  <2> DEFINE step == Purge("retry")
  <2>1. step.do = "purge" /\ step.place = "retry" /\ step \in PlainStep
    BY DEF Purge, PlainStep, Place
  <2> HIDE DEF step
  <2>2. Passes(swept, step)
    BY <1>2, <2>1 DEF Passes, Service
  <2>3. Justified(swept, step, Drained)
    BY <1>2, <1>4, <2>1
       DEF Justified, UpAfter, DownAfter, ControlAfter, SyncedAfter, NoneAfter, KeptAfter, PageAfter,
           Empties, Admits
  <2> QED BY <1>3, <1>4, <2>1, <2>2, <2>3, QuietPair DEF step
<1> QED BY <1>5, <1>6, PlainTwo DEF PurgeQueues

LEMMA QueueResetQuiet == Plainly(Ready, QueueOnlyReset, Drained)
<1> DEFINE part1 == <<Probe("toolchain")>>
<1>1. Plainly(Ready, part1, Ready)
  BY SteadyScripts, SteadyOpen
<1>2. Plainly(Ready, PurgeQueues, Drained)
  BY PurgeQuiet
<1>3. QueueOnlyReset = part1 \o PurgeQueues
  BY DEF QueueOnlyReset
<1> HIDE DEF part1
<1>4. Plainly(Ready, part1 \o PurgeQueues, Drained)
  BY <1>1, <1>2, QuietOn
<1> QED BY <1>3, <1>4

(* The full reset: whatever the lab was like.                              *)
LEMMA FullResetQuiet ==
  ASSUME NEW e \in Edges
  PROVE  Plainly(e, FullReset, Ready)
<1> DEFINE fresh == Expect({}, {}, Open, FALSE, Batch, {}, {}, {}, {"none"})
<1>1. /\ fresh.up = {} /\ fresh.down = {} /\ fresh.control = Open /\ fresh.synced = FALSE
      /\ fresh.none = Batch /\ fresh.main = {} /\ fresh.queued = {} /\ fresh.kept = {}
      /\ fresh.swept = FALSE /\ fresh.page = {"none"}
  BY DEF Expect
<1>2. fresh \in Edges
  BY Switchboard, ExpectType DEF Pages
<1> HIDE DEF fresh
<1>3. <<e, Wipe, fresh>> \in PlainQuiet
  <2> DEFINE step == Wipe
  <2>1. step.do = "wipe" /\ step \in PlainStep
    BY DEF Wipe, PlainStep
  <2> HIDE DEF step
  <2>2. Passes(e, step)
    BY <2>1 DEF Passes
  <2>3. Justified(e, step, fresh)
    BY <1>1, <2>1
       DEF Justified, UpAfter, DownAfter, ControlAfter, SyncedAfter, NoneAfter, KeptAfter, PageAfter,
           Empties, Admits
  <2> QED BY <1>2, <2>1, <2>2, <2>3, QuietPair, EdgesAre DEF step
<1>4. /\ Ready \in Edges /\ Ready.up = Service /\ Ready.down = {} /\ Ready.control = Open
      /\ Ready.synced = FALSE /\ Ready.none = {} /\ Ready.main = {} /\ Ready.queued = {}
      /\ Ready.kept = {} /\ Ready.page = Pages
  BY NamedEdges, LabFields DEF Ready
<1>5. <<fresh, Await(Service, "thrown"), Ready>> \in PlainQuiet
  BY <1>1, <1>2, <1>4, AwaitRule
     DEF Ending, KeepsControl, KeepsQueues, KeepsMessages, KeepsPage, Pages
<1> QED BY <1>3, <1>5, PlainTwo DEF FullReset

LEMMA StoragePrivacyQuiet == Plainly(Ready, VerifyQueueStoragePrivacy, Ready)
<1>1. Plainly(Ready, PurgeQueues, Drained)
  BY PurgeQuiet
<1>2. Plainly(Drained, HeldInItsQueue, Holding)
  BY HeldInItsQueueQuiet
<1>3. Plainly(Holding, OnTheBrokersVolume, Holding)
  BY OnTheBrokersVolumeQuiet
<1>4. Plainly(Holding, DrainedIntoOpenObserve, Ready)
  BY DrainedIntoOpenObserveQuiet
<1>5. VerifyQueueStoragePrivacy = PurgeQueues \o HeldInItsQueue \o OnTheBrokersVolume \o DrainedIntoOpenObserve
  BY DEF VerifyQueueStoragePrivacy
<1>6. Plainly(Ready,
        PurgeQueues \o HeldInItsQueue \o OnTheBrokersVolume \o DrainedIntoOpenObserve, Ready)
  BY <1>1, <1>2, <1>3, <1>4, QuietOn
<1> QED BY <1>5, <1>6

(***************************************************************************)
(* Sanitization and correlation: with the batches sent.                    *)
(***************************************************************************)
LEMMA StreamCaseQuiet ==
  ASSUME NEW e \in {OneSent, BothSent}, NEW f \in {Ready, BothSent}, e = f \/ f = Ready, NEW b \in Batch, b \in e.kept
  PROVE  Plainly(e, VerifyStreamCase(b), f)
<1>1. /\ OneSent.up = Service /\ OneSent.down = {} /\ OneSent.control = Open /\ OneSent.synced = FALSE
      /\ OneSent.none = {} /\ OneSent.main = {} /\ OneSent.queued = {} /\ OneSent.kept = {"first"}
      /\ OneSent.page = Pages
      /\ BothSent.up = Service /\ BothSent.down = {} /\ BothSent.control = Open /\ BothSent.synced = FALSE
      /\ BothSent.none = {} /\ BothSent.main = {} /\ BothSent.queued = {} /\ BothSent.kept = {"first", "second"}
      /\ BothSent.page = Pages
  BY DEF OneSent, BothSent, Expect
<1>2. /\ Ready.up = Service /\ Ready.down = {} /\ Ready.control = Open /\ Ready.synced = FALSE
      /\ Ready.none = {} /\ Ready.main = {} /\ Ready.queued = {} /\ Ready.kept = {} /\ Ready.page = Pages
  BY LabFields DEF Ready
<1>3. /\ e \in Edges /\ f \in Edges /\ e.up = Service /\ e.down = {} /\ e.control = Open
      /\ Keeps(e, e) /\ Keeps(e, f)
  <2>1. /\ e \in Edges /\ f \in Edges /\ e.up = Service /\ e.down = {} /\ e.control = Open
    BY <1>1, NamedEdges
  <2>2. Keeps(e, e)
    BY DEF Keeps, KeepsServices, KeepsControl, KeepsQueues, KeepsMessages, KeepsPage
  <2>3. ASSUME f = Ready
        PROVE  Keeps(e, f)
    BY <1>1, <1>2, <2>3 DEF Keeps, KeepsServices, KeepsControl, KeepsQueues, KeepsMessages, KeepsPage
  <2> QED BY <2>1, <2>2, <2>3
<1>4. <<e, Ask, e>> \in PlainQuiet
  BY <1>3, AskRule DEF Service
<1>5. Drains(e)
  BY <1>3, Switchboard DEF Drains
<1>6. <<e, AwaitAny({b}, "found"), f>> \in PlainQuiet
  BY <1>3, <1>5, RowsRule DEF Ending
<1> QED BY <1>4, <1>6, PlainTwo DEF VerifyStreamCase

LEMMA BothSentQuiet == Plainly(Ready, <<Publish("first", {"202"}), Publish("second", {"202"})>>, BothSent)
<1>1. /\ Open \in Controls /\ Open.hold = FALSE /\ Open.held = FALSE /\ Open.document = "open"
      /\ Open.scoped = FALSE /\ Open.gate = FALSE /\ Open.closed = FALSE /\ Open.alert = FALSE
  BY Switchboard
<1>2. Ready \in Edges /\ OneSent \in Edges /\ BothSent \in Edges
  BY <1>1, NamedEdges
<1>3. Reply(Ready, "primary") = "202"
  BY <1>1 DEF Reply, Shown, Service, Expect, Ready, Lab
<1>4. Reply(OneSent, "primary") = "202"
  BY <1>1 DEF Reply, Shown, Service, Expect, OneSent
<1> USE DEF Expect, Keeps, KeepsServices, KeepsControl, KeepsMessages, KeepsQueues, KeepsPage
<1>5. <<Ready, Publish("first", {"202"}), OneSent>> \in PlainQuiet
  BY <1>1, <1>2, <1>3, AdmittedRule
     DEF Ready, Lab, OneSent, Answers, Batch
<1>6. <<OneSent, Publish("second", {"202"}), BothSent>> \in PlainQuiet
  BY <1>1, <1>2, <1>4, AdmittedRule
     DEF OneSent, BothSent, Answers, Batch
<1> HIDE DEF Expect, Keeps, KeepsServices, KeepsControl, KeepsMessages, KeepsQueues, KeepsPage
<1> QED BY <1>5, <1>6, PlainTwo

LEMMA SentBatches == "first" \in OneSent.kept /\ "first" \in BothSent.kept /\ "second" \in BothSent.kept /\ {"first", "second"} \subseteq Batch
BY DEF OneSent, BothSent, Expect, Batch

LEMMA SanitizationQuiet == Plainly(Ready, VerifySanitizationLeakage, Ready)
<1> DEFINE part1 == <<Publish("first", {"202"}), Publish("second", {"202"})>>
<1> DEFINE part2 == VerifyStreamCase("first")
<1> DEFINE part3 == VerifyStreamCase("second")
<1>1. Plainly(Ready, part1, BothSent)
  BY BothSentQuiet
<1>2. Plainly(BothSent, part2, BothSent)
  BY StreamCaseQuiet, SentBatches
<1>3. Plainly(BothSent, part3, Ready)
  BY StreamCaseQuiet, SentBatches
<1>4. Plainly(Ready, VerifyPipelineFailureBackstop, Ready)
  BY SteadyScripts, SteadyOpen
<1>5. VerifySanitizationLeakage = part1 \o part2 \o part3 \o VerifyPipelineFailureBackstop
  BY DEF VerifySanitizationLeakage
<1> HIDE DEF part1, part2, part3
<1>6. Plainly(Ready, part1 \o part2 \o part3 \o VerifyPipelineFailureBackstop, Ready)
  BY <1>1, <1>2, <1>3, <1>4, QuietOn
<1> QED BY <1>5, <1>6

LEMMA CorrelationBeginsQuiet == Plainly(Ready, <<Browse, See({"active"}), Publish("first", {"202", "410", "502", "503"})>>, OneSent)
<1>1. /\ Open \in Controls /\ Open.hold = FALSE /\ Open.held = FALSE /\ Open.document = "open"
      /\ Open.scoped = FALSE /\ Open.gate = FALSE /\ Open.closed = FALSE /\ Open.alert = FALSE
  BY Switchboard
<1>2. Ready \in Edges /\ Active \in Edges /\ OneSent \in Edges
  BY <1>1, NamedEdges
<1>3. Reply(Ready, "primary") = "202"
  BY <1>1 DEF Reply, Shown, Service, Expect, Ready, Lab
<1> USE DEF Expect, Keeps, KeepsServices, KeepsControl, KeepsMessages, KeepsQueues, KeepsPage
<1>4. /\ <<Ready, Browse, Active>> \in PlainQuiet
      /\ <<Active, See({"active"}), Ready>> \in PlainQuiet
  BY <1>1, <1>2, BrowseRule, SeeRule
     DEF Ready, Lab, Active, Shown, Pages, PageComes
<1>5. <<Ready, Publish("first", {"202", "410", "502", "503"}), OneSent>> \in PlainQuiet
  BY <1>1, <1>2, <1>3, AdmittedRule
     DEF Ready, Lab, OneSent, Answers, Batch
<1> HIDE DEF Expect, Keeps, KeepsServices, KeepsControl, KeepsMessages, KeepsQueues, KeepsPage
<1> QED BY <1>4, <1>5, PlainThree

LEMMA CorrelationQuiet == Plainly(Ready, VerifyCorrelation, Ready)
<1> DEFINE part1 == <<Browse, See({"active"}), Publish("first", {"202", "410", "502", "503"})>>
<1> DEFINE part2 == VerifyStreamCase("first")
<1>1. Plainly(Ready, part1, OneSent)
  BY CorrelationBeginsQuiet
<1>2. Plainly(OneSent, part2, Ready)
  BY StreamCaseQuiet, SentBatches
<1>3. VerifyCorrelation = part1 \o part2
  BY DEF VerifyCorrelation
<1> HIDE DEF part1, part2
<1>4. Plainly(Ready, part1 \o part2, Ready)
  BY <1>1, <1>2, QuietOn
<1> QED BY <1>3, <1>4

(* The scopes of two services: both admitted, one killed, both again.      *)
LEMMA TwoServicesQuiet == Plainly(Ready, <<Publish("first", {"202"}), PublishElsewhere("second", {"202"}), Ask, AwaitAny({"first"}, "found"), Ask, AwaitAny({"second"}, "found")>>, Ready)
<1>1. /\ Open \in Controls /\ Open.hold = FALSE /\ Open.held = FALSE /\ Open.document = "open"
      /\ Open.scoped = FALSE /\ Open.gate = FALSE /\ Open.closed = FALSE /\ Open.alert = FALSE
  BY Switchboard
<1>2. Ready \in Edges /\ OneSent \in Edges /\ BothSent \in Edges
  BY <1>1, NamedEdges
<1>3. Reply(Ready, "primary") = "202"
  BY <1>1 DEF Reply, Shown, Service, Expect, Ready, Lab
<1>4. Reply(OneSent, "alternate") = "202"
  BY <1>1 DEF Reply, Shown, Service, Expect, OneSent
<1>5. Drains(BothSent)
  BY <1>1 DEF Drains, Expect, BothSent
<1> USE DEF Expect, Keeps, KeepsServices, KeepsControl, KeepsMessages, KeepsQueues, KeepsPage
<1>6. <<Ready, Publish("first", {"202"}), OneSent>> \in PlainQuiet
  BY <1>1, <1>2, <1>3, AdmittedRule
     DEF Ready, Lab, OneSent, Answers, Batch
<1>7. <<OneSent, PublishElsewhere("second", {"202"}), BothSent>> \in PlainQuiet
  BY <1>1, <1>2, <1>4, ElsewhereRule
     DEF OneSent, BothSent, Batch
<1>8. /\ <<BothSent, Ask, BothSent>> \in PlainQuiet
      /\ <<BothSent, AwaitAny({"first"}, "found"), BothSent>> \in PlainQuiet
  BY <1>1, <1>2, <1>5, AskRule, RowsRule
     DEF BothSent, Service, Batch, Ending
<1>9. <<BothSent, AwaitAny({"second"}, "found"), Ready>> \in PlainQuiet
  BY <1>1, <1>2, <1>5, RowsRule
     DEF BothSent, Ready, Lab, Batch, Ending
<1> HIDE DEF Expect, Keeps, KeepsServices, KeepsControl, KeepsMessages, KeepsQueues, KeepsPage
<1> QED BY <1>6, <1>7, <1>8, <1>9, PlainSix

LEMMA ScopeKilledQuiet == Plainly(Ready, PublishScopedControl(TRUE), Lab(ScopeHeld))
<1>1. /\ Open \in Controls /\ Open.hold = FALSE /\ Open.held = FALSE /\ Open.document = "open"
      /\ Open.scoped = FALSE /\ Open.gate = FALSE /\ Open.closed = FALSE /\ Open.alert = FALSE
  BY Switchboard
<1>2. /\ Scoped \in Controls /\ Scoped.hold = FALSE /\ Scoped.held = FALSE /\ Scoped.document = "open"
      /\ Scoped.scoped = TRUE /\ Scoped.gate = FALSE /\ Scoped.closed = FALSE /\ Scoped.alert = FALSE
  BY Switchboard
<1>3. /\ ScopeHeld \in Controls /\ ScopeHeld.hold = TRUE /\ ScopeHeld.held = FALSE /\ ScopeHeld.document = "open"
      /\ ScopeHeld.scoped = TRUE /\ ScopeHeld.gate = FALSE /\ ScopeHeld.closed = FALSE /\ ScopeHeld.alert = FALSE
  BY Switchboard
<1>4. Ready \in Edges /\ Lab(Scoped) \in Edges /\ Lab(ScopeHeld) \in Edges
  BY <1>1, <1>2, <1>3, NamedEdges
<1>5. [Open EXCEPT !["scoped"] = TRUE] = Scoped
  BY DEF Scoped
<1>6. [Scoped EXCEPT !["hold"] = TRUE] = ScopeHeld
  BY DEF ScopeHeld
<1> USE DEF Expect, Keeps, KeepsServices, KeepsControl, KeepsMessages, KeepsQueues, KeepsPage
<1>7. /\ <<Ready, Set("scoped", TRUE), Lab(Scoped)>> \in PlainQuiet
      /\ <<Lab(Scoped), Derive, Lab(ScopeHeld)>> \in PlainQuiet
  BY <1>1, <1>2, <1>3, <1>4, <1>5, <1>6, SetRule, DeriveRule
     DEF Ready, Lab
<1> HIDE DEF Expect, Keeps, KeepsServices, KeepsControl, KeepsMessages, KeepsQueues, KeepsPage
<1> QED BY <1>7, PlainTwo DEF PublishScopedControl

LEMMA OneServiceQuiet == Plainly(Lab(ScopeHeld), <<Probe("scopes"), Publish("first", {"410", "502", "503"}), PublishElsewhere("second", {"202"}), Probe("hold")>>, Lab(ScopeHeld))
<1>1. /\ ScopeHeld \in Controls /\ ScopeHeld.hold = TRUE /\ ScopeHeld.held = FALSE /\ ScopeHeld.document = "open"
      /\ ScopeHeld.scoped = TRUE /\ ScopeHeld.gate = FALSE /\ ScopeHeld.closed = FALSE /\ ScopeHeld.alert = FALSE
  BY Switchboard
<1>2. Lab(ScopeHeld) \in Edges
  BY <1>1, NamedEdges
<1>3. Reply(Lab(ScopeHeld), "primary") = "503"
  BY <1>1 DEF Reply, Shown, Service, Expect, Lab
<1>4. Reply(Lab(ScopeHeld), "alternate") = "202"
  BY <1>1 DEF Reply, Shown, Service, Expect, Lab
<1> USE DEF Expect, Keeps, KeepsServices, KeepsControl, KeepsMessages, KeepsQueues, KeepsPage
<1>5. <<Lab(ScopeHeld), Probe("scopes"), Lab(ScopeHeld)>> \in PlainQuiet
  BY <1>1, <1>2, ProbeRule
     DEF Lab, Lookups, LooksRight, Service
<1>6. <<Lab(ScopeHeld), Publish("first", {"410", "502", "503"}), Lab(ScopeHeld)>> \in PlainQuiet
  BY <1>1, <1>2, <1>3, RefusedRule
     DEF Lab, Answers, Batch
<1>7. <<Lab(ScopeHeld), PublishElsewhere("second", {"202"}), Lab(ScopeHeld)>> \in PlainQuiet
  BY <1>1, <1>2, <1>4, ElsewhereRule
     DEF Lab, Batch
<1>8. <<Lab(ScopeHeld), Probe("hold"), Lab(ScopeHeld)>> \in PlainQuiet
  BY <1>1, <1>2, ProbeRule
     DEF Lab, Lookups, LooksRight, Service
<1> HIDE DEF Expect, Keeps, KeepsServices, KeepsControl, KeepsMessages, KeepsQueues, KeepsPage
<1> QED BY <1>5, <1>6, <1>7, <1>8, PlainFour

LEMMA ScopeFreedQuiet == Plainly(Lab(ScopeHeld), PublishScopedControl(FALSE), Ready)
<1>1. /\ ScopeHeld \in Controls /\ ScopeHeld.hold = TRUE /\ ScopeHeld.held = FALSE /\ ScopeHeld.document = "open"
      /\ ScopeHeld.scoped = TRUE /\ ScopeHeld.gate = FALSE /\ ScopeHeld.closed = FALSE /\ ScopeHeld.alert = FALSE
  BY Switchboard
<1>2. /\ Held \in Controls /\ Held.hold = TRUE /\ Held.held = FALSE /\ Held.document = "open"
      /\ Held.scoped = FALSE /\ Held.gate = FALSE /\ Held.closed = FALSE /\ Held.alert = FALSE
  BY Switchboard
<1>3. /\ Open \in Controls /\ Open.hold = FALSE /\ Open.held = FALSE /\ Open.document = "open"
      /\ Open.scoped = FALSE /\ Open.gate = FALSE /\ Open.closed = FALSE /\ Open.alert = FALSE
  BY Switchboard
<1>4. Lab(ScopeHeld) \in Edges /\ Lab(Held) \in Edges /\ Ready \in Edges
  BY <1>1, <1>2, <1>3, NamedEdges
<1>5. [ScopeHeld EXCEPT !["scoped"] = FALSE] = Held
  BY SwitchedBack
<1>6. [Held EXCEPT !["hold"] = FALSE] = Open
  BY SwitchedBack
<1> USE DEF Expect, Keeps, KeepsServices, KeepsControl, KeepsMessages, KeepsQueues, KeepsPage
<1>7. /\ <<Lab(ScopeHeld), Set("scoped", FALSE), Lab(Held)>> \in PlainQuiet
      /\ <<Lab(Held), Derive, Ready>> \in PlainQuiet
  BY <1>1, <1>2, <1>3, <1>4, <1>5, <1>6, SetRule, DeriveRule
     DEF Lab, Ready
<1> HIDE DEF Expect, Keeps, KeepsServices, KeepsControl, KeepsMessages, KeepsQueues, KeepsPage
<1> QED BY <1>7, PlainTwo DEF PublishScopedControl

LEMMA ServiceScopeQuiet == Plainly(Ready, VerifyServiceScopeIsolation, Ready)
<1> DEFINE part1 == <<Publish("first", {"202"}), PublishElsewhere("second", {"202"}), Ask, AwaitAny({"first"}, "found"), Ask, AwaitAny({"second"}, "found")>>
<1> DEFINE part2 == PublishScopedControl(TRUE)
<1> DEFINE part3 == <<Probe("scopes"), Publish("first", {"410", "502", "503"}), PublishElsewhere("second", {"202"}), Probe("hold")>>
<1> DEFINE part4 == PublishScopedControl(FALSE)
<1>1. Plainly(Ready, part1, Ready)
  BY TwoServicesQuiet
<1>2. Plainly(Ready, part2, Lab(ScopeHeld))
  BY ScopeKilledQuiet
<1>3. Plainly(Lab(ScopeHeld), part3, Lab(ScopeHeld))
  BY OneServiceQuiet
<1>4. Plainly(Lab(ScopeHeld), part4, Ready)
  BY ScopeFreedQuiet
<1>5. VerifyServiceScopeIsolation = part1 \o part2 \o part3 \o part4
  BY DEF VerifyServiceScopeIsolation
<1> HIDE DEF part1, part2, part3, part4
<1>6. Plainly(Ready, part1 \o part2 \o part3 \o part4, Ready)
  BY <1>1, <1>2, <1>3, <1>4, QuietOn
<1> QED BY <1>5, <1>6

(***************************************************************************)
(* lab:verify, and containers that are replaced.                           *)
(***************************************************************************)
LEMMA PersistenceQuiet == Plainly(Ready, CheckPersistence, Ready)
<1>1. /\ Open \in Controls /\ Open.hold = FALSE /\ Open.held = FALSE /\ Open.document = "open"
      /\ Open.scoped = FALSE /\ Open.gate = FALSE /\ Open.closed = FALSE /\ Open.alert = FALSE
  BY Switchboard
<1>2. Ready \in Edges /\ Waking \in Edges
  BY <1>1, NamedEdges
<1> USE DEF Expect, Keeps, KeepsServices, KeepsControl, KeepsMessages, KeepsQueues, KeepsPage
<1>3. /\ <<Ready, Ask, Ready>> \in PlainQuiet
      /\ <<Ready, Recreate(OpenObserve), Waking>> \in PlainQuiet
  BY <1>1, <1>2, AskRule, RecreateRule
     DEF Ready, Lab, Service, Waking, OpenObserve
<1>4. /\ <<Waking, Await(OpenObserve, "thrown"), Ready>> \in PlainQuiet
      /\ <<Ready, Probe("canary"), Ready>> \in PlainQuiet
  BY <1>1, <1>2, AwaitRule, ProbeRule
     DEF Waking, Ready, Lab, Service, Ending, OpenObserve, Lookups, LooksRight
<1> HIDE DEF Expect, Keeps, KeepsServices, KeepsControl, KeepsMessages, KeepsQueues, KeepsPage
<1> QED BY <1>3, <1>4, PlainFour DEF CheckPersistence

LEMMA OpenObserveAwayQuiet == Plainly(Ready, <<Stop("openobserve"), Probe("page"), Start(OpenObserve), Await(OpenObserve, "found")>>, Ready)
<1>1. /\ Open \in Controls /\ Open.hold = FALSE /\ Open.held = FALSE /\ Open.document = "open"
      /\ Open.scoped = FALSE /\ Open.gate = FALSE /\ Open.closed = FALSE /\ Open.alert = FALSE
  BY Switchboard
<1>2. Ready \in Edges /\ Away \in Edges /\ Waking \in Edges
  BY <1>1, NamedEdges
<1> USE DEF Expect, Keeps, KeepsServices, KeepsControl, KeepsMessages, KeepsQueues, KeepsPage
<1>3. /\ <<Ready, Stop("openobserve"), Away>> \in PlainQuiet
      /\ <<Away, Probe("page"), Away>> \in PlainQuiet
  BY <1>1, <1>2, StopRule, ProbeRule
     DEF Ready, Lab, Away, Service, Lookups, LooksRight
<1>4. /\ <<Away, Start(OpenObserve), Waking>> \in PlainQuiet
      /\ <<Waking, Await(OpenObserve, "found"), Ready>> \in PlainQuiet
  BY <1>1, <1>2, StartRule, AwaitRule
     DEF Away, Waking, Service, OpenObserve, Ready, Lab, Ending
<1> HIDE DEF Expect, Keeps, KeepsServices, KeepsControl, KeepsMessages, KeepsQueues, KeepsPage
<1> QED BY <1>3, <1>4, PlainFour

LEMMA ServerAwayQuiet == Plainly(Ready, <<Stop("http"), Probe("page"), Start({"http"}), Await({"http"}, "found"), Await(Service, "found"), Probe("restart-counts")>>, Ready)
<1> DEFINE e1 == Expect(Service \ {"http"}, {"http"}, Open, FALSE, {}, {}, {}, {}, Pages)
<1> DEFINE e2 == Expect(Service \ {"http"}, {}, Open, FALSE, {}, {}, {}, {}, Pages)
<1>1. /\ Open \in Controls /\ Open.hold = FALSE /\ Open.held = FALSE /\ Open.document = "open"
      /\ Open.scoped = FALSE /\ Open.gate = FALSE /\ Open.closed = FALSE /\ Open.alert = FALSE
  BY Switchboard
<1>2. e1 \in Edges /\ e2 \in Edges
  BY <1>1, ExpectType DEF Service, Batch, Pages, Shown
<1>3. Ready \in Edges
  BY <1>1, NamedEdges
<1> HIDE DEF e1, e2
<1> USE DEF Expect, Keeps, KeepsServices, KeepsControl, KeepsMessages, KeepsQueues, KeepsPage
<1>4. /\ <<Ready, Stop("http"), e1>> \in PlainQuiet
      /\ <<e1, Probe("page"), e1>> \in PlainQuiet
  BY <1>1, <1>2, <1>3, StopRule, ProbeRule
     DEF Ready, Lab, e1, Service, Lookups, LooksRight
<1>5. /\ <<e1, Start({"http"}), e2>> \in PlainQuiet
      /\ <<e2, Await({"http"}, "found"), Ready>> \in PlainQuiet
  BY <1>1, <1>2, <1>3, StartRule, AwaitRule
     DEF e1, e2, Service, Ready, Lab, Ending
<1>6. /\ <<Ready, Await(Service, "found"), Ready>> \in PlainQuiet
      /\ <<Ready, Probe("restart-counts"), Ready>> \in PlainQuiet
  BY <1>1, <1>3, AwaitRule, ProbeRule
     DEF Ready, Lab, Service, Ending, Lookups, LooksRight
<1> HIDE DEF Expect, Keeps, KeepsServices, KeepsControl, KeepsMessages, KeepsQueues, KeepsPage
<1> QED BY <1>4, <1>5, <1>6, PlainSix

LEMMA TenSteps ==
  ASSUME NEW a, NEW b, NEW c, NEW d, NEW p, NEW q, NEW r, NEW s, NEW t, NEW u
  PROVE  <<a, b, c, d>> \o <<p, q, r, s, t, u>> = <<a, b, c, d, p, q, r, s, t, u>>
<1> DEFINE S == {a, b, c, d, p, q, r, s, t, u}
           left == <<a, b, c, d>> \o <<p, q, r, s, t, u>>
           right == <<a, b, c, d, p, q, r, s, t, u>>
<1>1. left \in Seq(S) /\ Len(left) = 10
  <2>1. <<a, b, c, d>> \in Seq(S) /\ <<p, q, r, s, t, u>> \in Seq(S)
    OBVIOUS
  <2> QED BY <2>1
<1>2. right \in Seq(S) /\ Len(right) = 10
  OBVIOUS
<1>3. left[1] = a /\ left[2] = b /\ left[3] = c /\ left[4] = d /\ left[5] = p
  OBVIOUS
<1>4. left[6] = q /\ left[7] = r /\ left[8] = s /\ left[9] = t /\ left[10] = u
  OBVIOUS
<1>5. right[1] = a /\ right[2] = b /\ right[3] = c /\ right[4] = d /\ right[5] = p
  OBVIOUS
<1>6. right[6] = q /\ right[7] = r /\ right[8] = s /\ right[9] = t /\ right[10] = u
  OBVIOUS
<1> HIDE DEF left, right, S
<1>7. \A i \in 1..10 : left[i] = right[i]
  BY <1>3, <1>4, <1>5, <1>6
<1>8. left = right
  BY <1>1, <1>2, <1>7
<1> QED BY <1>8 DEF left, right

LEMMA IsolationQuiet == Plainly(Ready, CheckFailureIsolation, Ready)
<1> DEFINE part1 == <<Stop("openobserve"), Probe("page"), Start(OpenObserve), Await(OpenObserve, "found")>>
<1> DEFINE part2 == <<Stop("http"), Probe("page"), Start({"http"}), Await({"http"}, "found"), Await(Service, "found"), Probe("restart-counts")>>
<1>1. Plainly(Ready, part1, Ready)
  BY OpenObserveAwayQuiet
<1>2. Plainly(Ready, part2, Ready)
  BY ServerAwayQuiet
<1>3. CheckFailureIsolation = part1 \o part2
  BY TenSteps DEF CheckFailureIsolation
<1> HIDE DEF part1, part2
<1>4. Plainly(Ready, part1 \o part2, Ready)
  BY <1>1, <1>2, QuietOn
<1> QED BY <1>3, <1>4

LEMMA LabVerifyQuiet == Nestedly(Ready, LabVerify, Ready)
<1> DEFINE part1 == <<Caught(<<Probe("static")>>)>>
<1> DEFINE part2 == <<Caught(<<Await(Service, "found")>>)>>
<1> DEFINE part3 == <<Caught(<<Probe("secrets-proxy-containers")>>)>>
<1> DEFINE part4 == <<Caught(CheckPersistence)>>
<1> DEFINE part5 == <<Caught(CheckFailureIsolation)>>
<1>1. Nestedly(Ready, part1, Ready)
  BY SteadyScripts, SteadyOpen, CaughtRuns, NamedEdges
<1>2. Nestedly(Ready, part2, Ready)
  BY SteadyScripts, SteadyOpen, CaughtRuns, NamedEdges
<1>3. Nestedly(Ready, part3, Ready)
  BY SteadyScripts, SteadyOpen, CaughtRuns, NamedEdges
<1>4. Nestedly(Ready, part4, Ready)
  BY PersistenceQuiet, CaughtRuns, NamedEdges
<1>5. Nestedly(Ready, part5, Ready)
  BY IsolationQuiet, CaughtRuns, NamedEdges
<1>6. LabVerify = part1 \o part2 \o part3 \o part4 \o part5
  BY Pieces DEF LabVerify
<1> HIDE DEF part1, part2, part3, part4, part5
<1>7. Nestedly(Ready, part1 \o part2 \o part3 \o part4 \o part5, Ready)
  BY <1>1, <1>2, <1>3, <1>4, <1>5, QuietOn
<1> QED BY <1>6, <1>7

(***************************************************************************)
(* The proxy's security.                                                   *)
(***************************************************************************)
LEMMA AwayQuiet == Plainly(Ready, <<Stop("openobserve")>>, Away)
<1>1. /\ Open \in Controls /\ Open.hold = FALSE /\ Open.held = FALSE /\ Open.document = "open"
      /\ Open.scoped = FALSE /\ Open.gate = FALSE /\ Open.closed = FALSE /\ Open.alert = FALSE
  BY Switchboard
<1>2. Ready \in Edges /\ Away \in Edges
  BY <1>1, NamedEdges
<1> USE DEF Expect, Keeps, KeepsServices, KeepsControl, KeepsMessages, KeepsQueues, KeepsPage
<1>3. <<Ready, Stop("openobserve"), Away>> \in PlainQuiet
  BY <1>1, <1>2, StopRule
     DEF Ready, Lab, Away, Service
<1> HIDE DEF Expect, Keeps, KeepsServices, KeepsControl, KeepsMessages, KeepsQueues, KeepsPage
<1> DEFINE plan == <<Ready, Away>>
<1>4. plan \in Seq(Expectations) /\ Len(plan) = 2 /\ plan[1] = Ready /\ plan[2] = Away
  BY <1>2, EdgesAre
<1> DEFINE run == <<Stop("openobserve")>>
<1>5. /\ run \in Seq(PlainStep) /\ Len(run) = 1
      /\ \A i \in 1..1 : <<plan[i], run[i], plan[i + 1]>> \in PlainQuiet
  <2>1. run \in Seq(PlainStep) /\ Len(run) = 1
    BY <1>3 DEF run, PlainQuiet
  <2>2. \A i \in 1..1 : <<plan[i], run[i], plan[i + 1]>> \in PlainQuiet
    BY <1>3 DEF run
  <2> QED BY <2>1, <2>2
<1> HIDE DEF plan, run
<1>6. /\ Len(plan) = Len(run) + 1 /\ plan[Len(plan)] = Away
      /\ \A i \in 1..Len(run) : <<plan[i], run[i], plan[i + 1]>> \in PlainQuiet
  BY <1>4, <1>5
<1>7. Plainly(Ready, run, Away)
  BY <1>4, <1>5, <1>6, PlainPlan
<1> QED BY <1>7 DEF run

LEMMA BackQuiet == Plainly(Away, <<Start(OpenObserve), Await(OpenObserve, "found")>>, Ready)
<1>1. /\ Open \in Controls /\ Open.hold = FALSE /\ Open.held = FALSE /\ Open.document = "open"
      /\ Open.scoped = FALSE /\ Open.gate = FALSE /\ Open.closed = FALSE /\ Open.alert = FALSE
  BY Switchboard
<1>2. Away \in Edges /\ Waking \in Edges /\ Ready \in Edges
  BY <1>1, NamedEdges
<1> USE DEF Expect, Keeps, KeepsServices, KeepsControl, KeepsMessages, KeepsQueues, KeepsPage
<1>3. /\ <<Away, Start(OpenObserve), Waking>> \in PlainQuiet
      /\ <<Waking, Await(OpenObserve, "found"), Ready>> \in PlainQuiet
  BY <1>1, <1>2, StartRule, AwaitRule
     DEF Away, Waking, Service, OpenObserve, Ready, Lab, Ending
<1> HIDE DEF Expect, Keeps, KeepsServices, KeepsControl, KeepsMessages, KeepsQueues, KeepsPage
<1> QED BY <1>3, PlainTwo

LEMMA PathsQuiet == Plainly(Away, <<Probe("paths")>>, Away)
<1>1. /\ Open \in Controls /\ Open.hold = FALSE /\ Open.held = FALSE /\ Open.document = "open"
      /\ Open.scoped = FALSE /\ Open.gate = FALSE /\ Open.closed = FALSE /\ Open.alert = FALSE
  BY Switchboard
<1>2. Away \in Edges
  BY <1>1, NamedEdges
<1> USE DEF Expect, Keeps, KeepsServices, KeepsControl, KeepsMessages, KeepsQueues, KeepsPage
<1>3. <<Away, Probe("paths"), Away>> \in PlainQuiet
  BY <1>1, <1>2, ProbeRule
     DEF Away, Lookups, LooksRight, Service
<1> HIDE DEF Expect, Keeps, KeepsServices, KeepsControl, KeepsMessages, KeepsQueues, KeepsPage
<1> DEFINE plan == <<Away, Away>>
<1>4. plan \in Seq(Expectations) /\ Len(plan) = 2 /\ plan[1] = Away /\ plan[2] = Away
  BY <1>2, EdgesAre
<1> DEFINE run == <<Probe("paths")>>
<1>5. /\ run \in Seq(PlainStep) /\ Len(run) = 1
      /\ \A i \in 1..1 : <<plan[i], run[i], plan[i + 1]>> \in PlainQuiet
  <2>1. run \in Seq(PlainStep) /\ Len(run) = 1
    BY <1>3 DEF run, PlainQuiet
  <2>2. \A i \in 1..1 : <<plan[i], run[i], plan[i + 1]>> \in PlainQuiet
    BY <1>3 DEF run
  <2> QED BY <2>1, <2>2
<1> HIDE DEF plan, run
<1>6. /\ Len(plan) = Len(run) + 1 /\ plan[Len(plan)] = Away
      /\ \A i \in 1..Len(run) : <<plan[i], run[i], plan[i + 1]>> \in PlainQuiet
  BY <1>4, <1>5
<1>7. Plainly(Away, run, Away)
  BY <1>4, <1>5, <1>6, PlainPlan
<1> QED BY <1>7 DEF run

LEMMA AdmittedAwayQuiet == Plainly(Away, <<Publish("first", {"202"}), Probe("page")>>, Away)
<1>1. /\ Open \in Controls /\ Open.hold = FALSE /\ Open.held = FALSE /\ Open.document = "open"
      /\ Open.scoped = FALSE /\ Open.gate = FALSE /\ Open.closed = FALSE /\ Open.alert = FALSE
  BY Switchboard
<1>2. Away \in Edges
  BY <1>1, NamedEdges
<1>3. Reply(Away, "primary") = "202"
  BY <1>1 DEF Reply, Shown, Service, Expect, Away
<1> USE DEF Expect, Keeps, KeepsServices, KeepsControl, KeepsMessages, KeepsQueues, KeepsPage
<1>4. <<Away, Publish("first", {"202"}), Away>> \in PlainQuiet
  BY <1>1, <1>2, <1>3, AdmittedRule
     DEF Away, Answers, Batch
<1>5. <<Away, Probe("page"), Away>> \in PlainQuiet
  BY <1>1, <1>2, ProbeRule
     DEF Away, Lookups, LooksRight, Service
<1> HIDE DEF Expect, Keeps, KeepsServices, KeepsControl, KeepsMessages, KeepsQueues, KeepsPage
<1> QED BY <1>4, <1>5, PlainTwo

LEMMA AdmittedPausedQuiet == Plainly(Away, <<Publish("second", {"202"})>>, Away)
<1>1. /\ Open \in Controls /\ Open.hold = FALSE /\ Open.held = FALSE /\ Open.document = "open"
      /\ Open.scoped = FALSE /\ Open.gate = FALSE /\ Open.closed = FALSE /\ Open.alert = FALSE
  BY Switchboard
<1>2. Away \in Edges
  BY <1>1, NamedEdges
<1>3. Reply(Away, "primary") = "202"
  BY <1>1 DEF Reply, Shown, Service, Expect, Away
<1> USE DEF Expect, Keeps, KeepsServices, KeepsControl, KeepsMessages, KeepsQueues, KeepsPage
<1>4. <<Away, Publish("second", {"202"}), Away>> \in PlainQuiet
  BY <1>1, <1>2, <1>3, AdmittedRule
     DEF Away, Answers, Batch
<1> HIDE DEF Expect, Keeps, KeepsServices, KeepsControl, KeepsMessages, KeepsQueues, KeepsPage
<1> DEFINE plan == <<Away, Away>>
<1>5. plan \in Seq(Expectations) /\ Len(plan) = 2 /\ plan[1] = Away /\ plan[2] = Away
  BY <1>2, EdgesAre
<1> DEFINE run == <<Publish("second", {"202"})>>
<1>6. /\ run \in Seq(PlainStep) /\ Len(run) = 1
      /\ \A i \in 1..1 : <<plan[i], run[i], plan[i + 1]>> \in PlainQuiet
  <2>1. run \in Seq(PlainStep) /\ Len(run) = 1
    BY <1>4 DEF run, PlainQuiet
  <2>2. \A i \in 1..1 : <<plan[i], run[i], plan[i + 1]>> \in PlainQuiet
    BY <1>4 DEF run
  <2> QED BY <2>1, <2>2
<1> HIDE DEF plan, run
<1>7. /\ Len(plan) = Len(run) + 1 /\ plan[Len(plan)] = Away
      /\ \A i \in 1..Len(run) : <<plan[i], run[i], plan[i + 1]>> \in PlainQuiet
  BY <1>5, <1>6
<1>8. Plainly(Away, run, Away)
  BY <1>5, <1>6, <1>7, PlainPlan
<1> QED BY <1>8 DEF run

LEMMA PageAwayQuiet == Plainly(Away, <<Probe("page")>>, Away)
<1>1. /\ Open \in Controls /\ Open.hold = FALSE /\ Open.held = FALSE /\ Open.document = "open"
      /\ Open.scoped = FALSE /\ Open.gate = FALSE /\ Open.closed = FALSE /\ Open.alert = FALSE
  BY Switchboard
<1>2. Away \in Edges
  BY <1>1, NamedEdges
<1> USE DEF Expect, Keeps, KeepsServices, KeepsControl, KeepsMessages, KeepsQueues, KeepsPage
<1>3. <<Away, Probe("page"), Away>> \in PlainQuiet
  BY <1>1, <1>2, ProbeRule
     DEF Away, Lookups, LooksRight, Service
<1> HIDE DEF Expect, Keeps, KeepsServices, KeepsControl, KeepsMessages, KeepsQueues, KeepsPage
<1> DEFINE plan == <<Away, Away>>
<1>4. plan \in Seq(Expectations) /\ Len(plan) = 2 /\ plan[1] = Away /\ plan[2] = Away
  BY <1>2, EdgesAre
<1> DEFINE run == <<Probe("page")>>
<1>5. /\ run \in Seq(PlainStep) /\ Len(run) = 1
      /\ \A i \in 1..1 : <<plan[i], run[i], plan[i + 1]>> \in PlainQuiet
  <2>1. run \in Seq(PlainStep) /\ Len(run) = 1
    BY <1>3 DEF run, PlainQuiet
  <2>2. \A i \in 1..1 : <<plan[i], run[i], plan[i + 1]>> \in PlainQuiet
    BY <1>3 DEF run
  <2> QED BY <2>1, <2>2
<1> HIDE DEF plan, run
<1>6. /\ Len(plan) = Len(run) + 1 /\ plan[Len(plan)] = Away
      /\ \A i \in 1..Len(run) : <<plan[i], run[i], plan[i + 1]>> \in PlainQuiet
  BY <1>4, <1>5
<1>7. Plainly(Away, run, Away)
  BY <1>4, <1>5, <1>6, PlainPlan
<1> QED BY <1>7 DEF run

LEMMA WakeQuiet == Plainly(Away, <<Start(OpenObserve)>>, Waking)
<1>1. /\ Open \in Controls /\ Open.hold = FALSE /\ Open.held = FALSE /\ Open.document = "open"
      /\ Open.scoped = FALSE /\ Open.gate = FALSE /\ Open.closed = FALSE /\ Open.alert = FALSE
  BY Switchboard
<1>2. Away \in Edges /\ Waking \in Edges
  BY <1>1, NamedEdges
<1> USE DEF Expect, Keeps, KeepsServices, KeepsControl, KeepsMessages, KeepsQueues, KeepsPage
<1>3. <<Away, Start(OpenObserve), Waking>> \in PlainQuiet
  BY <1>1, <1>2, StartRule
     DEF Away, Waking, Service, OpenObserve
<1> HIDE DEF Expect, Keeps, KeepsServices, KeepsControl, KeepsMessages, KeepsQueues, KeepsPage
<1> DEFINE plan == <<Away, Waking>>
<1>4. plan \in Seq(Expectations) /\ Len(plan) = 2 /\ plan[1] = Away /\ plan[2] = Waking
  BY <1>2, EdgesAre
<1> DEFINE run == <<Start(OpenObserve)>>
<1>5. /\ run \in Seq(PlainStep) /\ Len(run) = 1
      /\ \A i \in 1..1 : <<plan[i], run[i], plan[i + 1]>> \in PlainQuiet
  <2>1. run \in Seq(PlainStep) /\ Len(run) = 1
    BY <1>3 DEF run, PlainQuiet
  <2>2. \A i \in 1..1 : <<plan[i], run[i], plan[i + 1]>> \in PlainQuiet
    BY <1>3 DEF run
  <2> QED BY <2>1, <2>2
<1> HIDE DEF plan, run
<1>6. /\ Len(plan) = Len(run) + 1 /\ plan[Len(plan)] = Waking
      /\ \A i \in 1..Len(run) : <<plan[i], run[i], plan[i + 1]>> \in PlainQuiet
  BY <1>4, <1>5
<1>7. Plainly(Away, run, Waking)
  BY <1>4, <1>5, <1>6, PlainPlan
<1> QED BY <1>7 DEF run

LEMMA AwakeQuiet == Plainly(Waking, <<Await(OpenObserve, "found")>>, Ready)
<1>1. /\ Open \in Controls /\ Open.hold = FALSE /\ Open.held = FALSE /\ Open.document = "open"
      /\ Open.scoped = FALSE /\ Open.gate = FALSE /\ Open.closed = FALSE /\ Open.alert = FALSE
  BY Switchboard
<1>2. Waking \in Edges /\ Ready \in Edges
  BY <1>1, NamedEdges
<1> USE DEF Expect, Keeps, KeepsServices, KeepsControl, KeepsMessages, KeepsQueues, KeepsPage
<1>3. <<Waking, Await(OpenObserve, "found"), Ready>> \in PlainQuiet
  BY <1>1, <1>2, AwaitRule
     DEF Waking, Ready, Lab, Service, Ending, OpenObserve
<1> HIDE DEF Expect, Keeps, KeepsServices, KeepsControl, KeepsMessages, KeepsQueues, KeepsPage
<1> DEFINE plan == <<Waking, Ready>>
<1>4. plan \in Seq(Expectations) /\ Len(plan) = 2 /\ plan[1] = Waking /\ plan[2] = Ready
  BY <1>2, EdgesAre
<1> DEFINE run == <<Await(OpenObserve, "found")>>
<1>5. /\ run \in Seq(PlainStep) /\ Len(run) = 1
      /\ \A i \in 1..1 : <<plan[i], run[i], plan[i + 1]>> \in PlainQuiet
  <2>1. run \in Seq(PlainStep) /\ Len(run) = 1
    BY <1>3 DEF run, PlainQuiet
  <2>2. \A i \in 1..1 : <<plan[i], run[i], plan[i + 1]>> \in PlainQuiet
    BY <1>3 DEF run
  <2> QED BY <2>1, <2>2
<1> HIDE DEF plan, run
<1>6. /\ Len(plan) = Len(run) + 1 /\ plan[Len(plan)] = Ready
      /\ \A i \in 1..Len(run) : <<plan[i], run[i], plan[i + 1]>> \in PlainQuiet
  BY <1>4, <1>5
<1>7. Plainly(Waking, run, Ready)
  BY <1>4, <1>5, <1>6, PlainPlan
<1> QED BY <1>7 DEF run

LEMMA PathIsolationQuiet == Nestedly(Ready, CheckPathIsolation, Ready)
<1> DEFINE part1 == <<Stop("openobserve")>>
<1> DEFINE part2 == <<Protect(<<Probe("paths")>>, <<Start(OpenObserve), Await(OpenObserve, "found")>>)>>
<1>1. Nestedly(Ready, part1, Away)
  BY AwayQuiet, QuietLevels
<1>2. Nestedly(Away, part2, Ready)
  BY PathsQuiet, BackQuiet, ProtectRuns, NamedEdges
<1>3. CheckPathIsolation = part1 \o part2
  BY Pieces DEF CheckPathIsolation
<1> HIDE DEF part1, part2
<1>4. Nestedly(Ready, part1 \o part2, Ready)
  BY <1>1, <1>2, QuietOn
<1> QED BY <1>3, <1>4

LEMMA OutageIsolationQuiet == Nestedly(Ready, CheckOutageIsolation, Ready)
<1> DEFINE part1 == <<Stop("openobserve")>>
<1> DEFINE part2 == <<Protect(<<Publish("first", {"202"}), Probe("page")>>, <<Start(OpenObserve), Await(OpenObserve, "found")>>)>>
<1>1. Nestedly(Ready, part1, Away)
  BY AwayQuiet, QuietLevels
<1>2. Nestedly(Away, part2, Ready)
  BY AdmittedAwayQuiet, BackQuiet, ProtectRuns, NamedEdges
<1>3. CheckOutageIsolation = part1 \o part2
  BY Pieces DEF CheckOutageIsolation
<1> HIDE DEF part1, part2
<1>4. Nestedly(Ready, part1 \o part2, Ready)
  BY <1>1, <1>2, QuietOn
<1> QED BY <1>3, <1>4

LEMMA SlowBodyQuiet == Nestedly(Away, <<Caught(<<Publish("second", {"202"})>>), Probe("page")>>, Away)
<1> DEFINE part1 == <<Caught(<<Publish("second", {"202"})>>)>>
<1> DEFINE part2 == <<Probe("page")>>
<1>1. Nestedly(Away, part1, Away)
  BY AdmittedPausedQuiet, CaughtRuns, NamedEdges
<1>2. Nestedly(Away, part2, Away)
  BY PageAwayQuiet, QuietLevels
<1>3. <<Caught(<<Publish("second", {"202"})>>), Probe("page")>> = part1 \o part2
  BY Pieces
<1> HIDE DEF part1, part2
<1>4. Nestedly(Away, part1 \o part2, Away)
  BY <1>1, <1>2, QuietOn
<1> QED BY <1>3, <1>4

LEMMA SlowCleanupQuiet == Nestedly(Away, <<Caught(<<Start(OpenObserve)>>), Await(OpenObserve, "found")>>, Ready)
<1> DEFINE part1 == <<Caught(<<Start(OpenObserve)>>)>>
<1> DEFINE part2 == <<Await(OpenObserve, "found")>>
<1>1. Nestedly(Away, part1, Waking)
  BY WakeQuiet, CaughtRuns, NamedEdges
<1>2. Nestedly(Waking, part2, Ready)
  BY AwakeQuiet, QuietLevels
<1>3. <<Caught(<<Start(OpenObserve)>>), Await(OpenObserve, "found")>> = part1 \o part2
  BY Pieces
<1> HIDE DEF part1, part2
<1>4. Nestedly(Away, part1 \o part2, Ready)
  BY <1>1, <1>2, QuietOn
<1> QED BY <1>3, <1>4

LEMMA SlowIsolationQuiet == Fully(Ready, CheckSlowUpstreamIsolation, Ready)
<1> DEFINE part1 == <<Stop("openobserve")>>
<1> DEFINE part2 == <<Protect(<<Caught(<<Publish("second", {"202"})>>), Probe("page")>>, <<Caught(<<Start(OpenObserve)>>), Await(OpenObserve, "found")>>)>>
<1>1. Fully(Ready, part1, Away)
  BY AwayQuiet, QuietLevels
<1>2. Fully(Away, part2, Ready)
  BY SlowBodyQuiet, SlowCleanupQuiet, ProtectRuns, NamedEdges
<1>3. CheckSlowUpstreamIsolation = part1 \o part2
  BY Pieces DEF CheckSlowUpstreamIsolation
<1> HIDE DEF part1, part2
<1>4. Fully(Ready, part1 \o part2, Ready)
  BY <1>1, <1>2, QuietOn
<1> QED BY <1>3, <1>4

LEMMA ProxySecurityQuiet == Fully(Ready, VerifyProxySecurity, Ready)
<1> DEFINE part1 == <<Probe("nginx"), Probe("tmpfs")>>
<1> DEFINE part2 == <<Probe("browser-token")>>
<1>1. Fully(Ready, part1, Ready)
  BY SteadyScripts, SteadyOpen, QuietLevels
<1>2. Fully(Ready, MeasureBrowserSdkTraffic, Ready)
  BY SteadyScripts, SteadyOpen, QuietLevels
<1>3. Fully(Ready, CheckPositiveAndPolicy, Ready)
  BY SteadyScripts, SteadyOpen, QuietLevels
<1>4. Fully(Ready, CheckBodyLimits, Ready)
  BY SteadyScripts, SteadyOpen, QuietLevels
<1>5. Fully(Ready, CheckRateAndConnectionLimits, Ready)
  BY SteadyScripts, SteadyOpen, QuietLevels
<1>6. Fully(Ready, CheckProtocolProbes, Ready)
  BY SteadyScripts, SteadyOpen, QuietLevels
<1>7. Fully(Ready, CheckPathIsolation, Ready)
  BY PathIsolationQuiet, QuietLevels
<1>8. Fully(Ready, CheckOutageIsolation, Ready)
  BY OutageIsolationQuiet, QuietLevels
<1>9. Fully(Ready, part2, Ready)
  BY SteadyScripts, SteadyOpen, QuietLevels
<1>10. Fully(Ready, CheckSlowUpstreamIsolation, Ready)
  BY SlowIsolationQuiet
<1>11. Fully(Ready, CheckPrivacyLogs, Ready)
  BY SteadyScripts, SteadyOpen, QuietLevels
<1>12. VerifyProxySecurity = part1 \o MeasureBrowserSdkTraffic \o CheckPositiveAndPolicy \o CheckBodyLimits \o CheckRateAndConnectionLimits \o CheckProtocolProbes \o CheckPathIsolation \o CheckOutageIsolation \o part2 \o CheckSlowUpstreamIsolation \o CheckPrivacyLogs
  BY DEF VerifyProxySecurity
<1> HIDE DEF part1, part2
<1>13. Fully(Ready,
        part1 \o MeasureBrowserSdkTraffic \o CheckPositiveAndPolicy \o CheckBodyLimits \o CheckRateAndConnectionLimits,
        Ready)
  BY <1>1, <1>2, <1>3, <1>4, <1>5, QuietOn
<1>14. Fully(Ready,
        part1 \o MeasureBrowserSdkTraffic \o CheckPositiveAndPolicy \o CheckBodyLimits \o CheckRateAndConnectionLimits \o CheckProtocolProbes \o CheckPathIsolation \o CheckOutageIsolation \o part2,
        Ready)
  BY <1>13, <1>6, <1>7, <1>8, <1>9, QuietOn
<1>15. Fully(Ready,
        part1 \o MeasureBrowserSdkTraffic \o CheckPositiveAndPolicy \o CheckBodyLimits \o CheckRateAndConnectionLimits \o CheckProtocolProbes \o CheckPathIsolation \o CheckOutageIsolation \o part2 \o CheckSlowUpstreamIsolation \o CheckPrivacyLogs,
        Ready)
  BY <1>14, <1>10, <1>11, QuietOn
<1> QED BY <1>12, <1>15

(***************************************************************************)
(* Resilience.                                                             *)
(***************************************************************************)
LEMMA SwitchOnQuiet == Plainly(Ready, KillSwitchOn, Lab(Off))
<1>1. /\ Open \in Controls /\ Open.hold = FALSE /\ Open.held = FALSE /\ Open.document = "open"
      /\ Open.scoped = FALSE /\ Open.gate = FALSE /\ Open.closed = FALSE /\ Open.alert = FALSE
  BY Switchboard
<1>2. /\ Gated \in Controls /\ Gated.hold = FALSE /\ Gated.held = FALSE /\ Gated.document = "open"
      /\ Gated.scoped = FALSE /\ Gated.gate = TRUE /\ Gated.closed = FALSE /\ Gated.alert = FALSE
  BY Switchboard
<1>3. /\ Closed \in Controls /\ Closed.hold = FALSE /\ Closed.held = FALSE /\ Closed.document = "open"
      /\ Closed.scoped = FALSE /\ Closed.gate = TRUE /\ Closed.closed = TRUE /\ Closed.alert = FALSE
  BY Switchboard
<1>4. /\ Killed \in Controls /\ Killed.hold = FALSE /\ Killed.held = FALSE /\ Killed.document = "kill"
      /\ Killed.scoped = FALSE /\ Killed.gate = TRUE /\ Killed.closed = TRUE /\ Killed.alert = FALSE
  BY Switchboard
<1>5. /\ Off \in Controls /\ Off.hold = TRUE /\ Off.held = FALSE /\ Off.document = "kill"
      /\ Off.scoped = FALSE /\ Off.gate = TRUE /\ Off.closed = TRUE /\ Off.alert = FALSE
  BY Switchboard
<1>6. Ready \in Edges /\ Lab(Gated) \in Edges /\ Lab(Closed) \in Edges /\ Lab(Killed) \in Edges /\ Lab(Off) \in Edges
  BY <1>1, <1>2, <1>3, <1>4, <1>5, NamedEdges
<1>7. [Open EXCEPT !["gate"] = TRUE] = Gated
  BY DEF Gated
<1>8. [Gated EXCEPT !["closed"] = TRUE] = Closed
  BY DEF Closed
<1>9. [Closed EXCEPT !["document"] = "kill"] = Killed
  BY DEF Killed
<1>10. [Killed EXCEPT !["hold"] = TRUE] = Off
  BY DEF Off
<1> USE DEF Expect, Keeps, KeepsServices, KeepsControl, KeepsMessages, KeepsQueues, KeepsPage
<1>11. /\ <<Ready, Set("gate", TRUE), Lab(Gated)>> \in PlainQuiet
       /\ <<Lab(Gated), Reload, Lab(Closed)>> \in PlainQuiet
  BY <1>1, <1>2, <1>3, <1>6, <1>7, <1>8, SetRule, ReloadRule
     DEF Ready, Lab
<1>12. /\ <<Lab(Closed), Set("document", "kill"), Lab(Killed)>> \in PlainQuiet
       /\ <<Lab(Killed), Hold, Lab(Off)>> \in PlainQuiet
  BY <1>3, <1>4, <1>5, <1>6, <1>9, <1>10, DocumentRule, SetRule
     DEF Lab, Document, Pages, Hold
<1> HIDE DEF Expect, Keeps, KeepsServices, KeepsControl, KeepsMessages, KeepsQueues, KeepsPage
<1> QED BY <1>11, <1>12, PlainFour DEF KillSwitchOn

LEMMA SwitchOffQuiet ==
  /\ Plainly(Lab(Off), KillSwitchOff, Ready) /\ Plainly(Ready, KillSwitchOff, Ready)
  /\ \A c \in {Open, Off, Expired, Older} : Plainly(Lab(c), ResetToCleanState, Ready)
<1>1. \A c \in {Open, Off, Expired, Older} : c \in Controls /\ ~c.held /\ ~c.alert /\ ~c.scoped
  BY Switchboard
<1> QED BY <1>1, SwitchingOff DEF Ready

(* Refused by the proxy while the switch is on.                            *)
LEMMA RefusedQuiet ==
  ASSUME NEW c \in {Off, Closed}
  PROVE  /\ Plainly(Lab(c), <<Publish("first", {"410"})>>, Lab(c))
         /\ Plainly(Lab(c), <<Publish("second", {"410"})>>, Lab(c))
         /\ Plainly(Lab(c), <<Publish("first", {"202", "410"})>>, Lab(c))
         /\ Plainly(Lab(c), <<Probe("daemon")>>, Lab(c))
         /\ Plainly(Lab(c), <<Browse, Probe("retry-storm")>>, Lab(c))
<1>1. c \in Controls /\ c.closed
  BY Switchboard
<1>2. /\ Publish("first", {"410"}) \in Steady(c) /\ Publish("second", {"410"}) \in Steady(c)
      /\ Publish("first", {"202", "410"}) \in Steady(c)
  BY <1>1, SteadySteps DEF Answers
<1>3. Probe("daemon") \in Steady(c) /\ Probe("retry-storm") \in Steady(c) /\ Browse \in Steady(c)
  BY <1>1, SteadySteps DEF Lookups
<1>4. /\ <<Publish("first", {"410"})>> \in Seq(Steady(c)) /\ <<Publish("second", {"410"})>> \in Seq(Steady(c))
      /\ <<Publish("first", {"202", "410"})>> \in Seq(Steady(c)) /\ <<Probe("daemon")>> \in Seq(Steady(c))
      /\ <<Browse, Probe("retry-storm")>> \in Seq(Steady(c))
  BY <1>2, <1>3
<1> QED BY <1>1, <1>4, SteadyRuns

(* A container is replaced, with or without the company's alert.           *)
LEMMA RestartQuiet ==
  ASSUME NEW c \in {Open, Alerted}, NEW s \in Service
  PROVE  /\ Plainly(Lab(c), <<Ask, Recreate({s}), Await({s}, "found")>>, Lab(c))
         /\ Plainly(Lab(c), <<Ask, Probe("drift-and-other-restarts")>>, Lab(c))
         /\ Plainly(Lab(c), <<Ask>>, Lab(c)) /\ Plainly(Lab(c), <<>>, Lab(c))
<1>1. c \in Controls
  BY Switchboard
<1>2. /\ Ask \in Steady(c) /\ Probe("drift-and-other-restarts") \in Steady(c)
  BY <1>1, SteadySteps DEF Lookups
<1>3. /\ <<Ask, Probe("drift-and-other-restarts")>> \in Seq(Steady(c))
      /\ <<Ask>> \in Seq(Steady(c)) /\ <<>> \in Seq(Steady(c))
  BY <1>2
<1> DEFINE away == Expect(Service \ {s}, {}, c, FALSE, {}, {}, {}, {}, Pages)
<1>4. Shown(c, "primary") = "open"
  BY Switchboard DEF Shown
<1>5. away \in Edges
  BY <1>1, <1>4, ExpectType DEF Pages
<1>6. /\ away.up = Service \ {s} /\ away.down = {} /\ away.control = c /\ away.synced = FALSE
      /\ away.none = {} /\ away.main = {} /\ away.queued = {} /\ away.kept = {} /\ away.page = Pages
  BY DEF Expect
<1> HIDE DEF away
<1>7. <<Lab(c), Ask, Lab(c)>> \in PlainQuiet
  BY <1>2 DEF Steady
<1>8. <<Lab(c), Recreate({s}), away>> \in PlainQuiet
  <2>1. /\ Lab(c).up = Service /\ Lab(c).down = {} /\ Lab(c).control = c /\ Lab(c).synced = FALSE
        /\ Lab(c).none = {} /\ Lab(c).main = {} /\ Lab(c).queued = {} /\ Lab(c).kept = {}
        /\ Lab(c).page = Pages /\ Lab(c) \in Edges
    BY <1>1, LabFields, NamedEdges
  <2>2. KeepsControl(Lab(c), away) /\ KeepsQueues(Lab(c), away) /\ KeepsPage(Lab(c), away)
    BY <1>6, <2>1 DEF KeepsControl, KeepsQueues, KeepsMessages, KeepsPage
  <2> QED BY <1>5, <1>6, <2>1, <2>2, RecreateRule
     DEF KeepsControl, KeepsQueues, KeepsMessages, KeepsPage
<1>9. <<away, Await({s}, "found"), Lab(c)>> \in PlainQuiet
  <2>1. /\ Lab(c).up \subseteq away.up \cup {s} /\ {s} \cap away.down = {} /\ "rabbitmq" \notin away.down
        /\ Lab(c).down = away.down
    BY <1>6, LabFields
  <2>2. KeepsControl(away, Lab(c)) /\ KeepsQueues(away, Lab(c)) /\ KeepsPage(away, Lab(c))
    BY <1>6, LabFields DEF KeepsControl, KeepsQueues, KeepsMessages, KeepsPage
  <2>3. Lab(c) \in Edges /\ "found" \in Ending
    BY <1>1, NamedEdges DEF Ending
  <2> QED BY <1>5, <2>1, <2>2, <2>3, AwaitRule
<1>10. Plainly(Lab(c), <<Ask, Recreate({s}), Await({s}, "found")>>, Lab(c))
  BY <1>7, <1>8, <1>9, PlainThree
<1> QED BY <1>1, <1>3, <1>10, SteadyRuns

LEMMA VisibilityQuiet ==
  ASSUME NEW c \in {Open, Alerted}, NEW otherwise \in Ending
  PROVE  Plainly(Lab(c), MeasureIngestionVisibility(otherwise), Lab(c))
<1> DEFINE sent == Expect(Service, {}, c, FALSE, {}, {}, {}, {"second"}, Pages)
<1>1. c \in Controls /\ Shown(c, "primary") = "open" /\ ~c.hold /\ ~c.closed
  BY Switchboard DEF Shown
<1>2. sent \in Edges
  BY <1>1, ExpectType DEF Batch, Pages
<1>3. /\ sent.up = Service /\ sent.down = {} /\ sent.control = c /\ sent.synced = FALSE
      /\ sent.none = {} /\ sent.main = {} /\ sent.queued = {} /\ sent.kept = {"second"} /\ sent.page = Pages
  BY DEF Expect
<1> HIDE DEF sent
<1>4. Reply(Lab(c), "primary") = "202"
  BY <1>1, LabFields DEF Reply, Service
<1>5. <<Lab(c), Publish("second", Anything), sent>> \in PlainQuiet
  BY <1>1, <1>2, <1>3, <1>4, LabFields, NamedEdges, AdmittedRule
     DEF KeepsServices, KeepsControl, KeepsPage, Anything, Answers
<1>6. Drains(sent)
  BY <1>1, <1>3 DEF Drains
<1>7. <<sent, AwaitAny({"second"}, otherwise), Lab(c)>> \in PlainQuiet
  BY <1>1, <1>2, <1>3, <1>6, LabFields, NamedEdges, RowsRule
     DEF Batch, Keeps, KeepsServices, KeepsControl, KeepsQueues, KeepsMessages, KeepsPage
<1> QED BY <1>5, <1>7, PlainTwo DEF MeasureIngestionVisibility

LEMMA DaemonBodyQuiet == Plainly(Ready, KillSwitchOn \o <<Probe("daemon")>> \o KillSwitchOff, Ready)
<1> DEFINE part1 == <<Probe("daemon")>>
<1>1. Plainly(Ready, KillSwitchOn, Lab(Off))
  BY SwitchOnQuiet
<1>2. Plainly(Lab(Off), part1, Lab(Off))
  BY RefusedQuiet
<1>3. Plainly(Lab(Off), KillSwitchOff, Ready)
  BY SwitchOffQuiet
<1>4. KillSwitchOn \o <<Probe("daemon")>> \o KillSwitchOff = KillSwitchOn \o part1 \o KillSwitchOff
  OBVIOUS
<1> HIDE DEF part1
<1>5. Plainly(Ready, KillSwitchOn \o part1 \o KillSwitchOff, Ready)
  BY <1>1, <1>2, <1>3, QuietOn
<1> QED BY <1>4, <1>5

LEMMA DaemonQuiet == Fully(Ready, RestartRuntimeControlAgent, Ready)
<1> DEFINE body == KillSwitchOn \o <<Probe("daemon")>> \o KillSwitchOff
           cleanup == <<Caught(KillSwitchOff)>>
<1>1. Nestedly(Ready, body, Ready)
  BY DaemonBodyQuiet, QuietLevels
<1>2. Nestedly(Ready, cleanup, Ready)
  BY SwitchOffQuiet, CaughtRuns, NamedEdges
<1>3. RestartRuntimeControlAgent = <<Rescue(body, cleanup)>>
  BY DEF RestartRuntimeControlAgent
<1> HIDE DEF body, cleanup
<1>4. cleanup \in Seq(NestedStep)
  BY <1>2 DEF Nestedly
<1> QED BY <1>1, <1>3, <1>4, RescueRuns, NamedEdges

LEMMA AlertBeginsQuiet == Plainly(Ready, <<Ask, Set("alert", TRUE)>>, Lab(Alerted))
<1>1. /\ Open \in Controls /\ Open.hold = FALSE /\ Open.held = FALSE /\ Open.document = "open"
      /\ Open.scoped = FALSE /\ Open.gate = FALSE /\ Open.closed = FALSE /\ Open.alert = FALSE
  BY Switchboard
<1>2. /\ Alerted \in Controls /\ Alerted.hold = FALSE /\ Alerted.held = FALSE /\ Alerted.document = "open"
      /\ Alerted.scoped = FALSE /\ Alerted.gate = FALSE /\ Alerted.closed = FALSE /\ Alerted.alert = TRUE
  BY Switchboard
<1>3. Ready \in Edges /\ Lab(Alerted) \in Edges
  BY <1>1, <1>2, NamedEdges
<1>4. [Open EXCEPT !["alert"] = TRUE] = Alerted
  BY DEF Alerted
<1> USE DEF Expect, Keeps, KeepsServices, KeepsControl, KeepsMessages, KeepsQueues, KeepsPage
<1>5. /\ <<Ready, Ask, Ready>> \in PlainQuiet
      /\ <<Ready, Set("alert", TRUE), Lab(Alerted)>> \in PlainQuiet
  BY <1>1, <1>2, <1>3, <1>4, AskRule, SetRule
     DEF Ready, Lab, Service
<1> HIDE DEF Expect, Keeps, KeepsServices, KeepsControl, KeepsMessages, KeepsQueues, KeepsPage
<1> QED BY <1>5, PlainTwo

LEMMA AlertEndsQuiet == Plainly(Lab(Alerted), <<Ask, Probe("alert"), Set("alert", FALSE)>>, Ready)
<1>1. /\ Alerted \in Controls /\ Alerted.hold = FALSE /\ Alerted.held = FALSE /\ Alerted.document = "open"
      /\ Alerted.scoped = FALSE /\ Alerted.gate = FALSE /\ Alerted.closed = FALSE /\ Alerted.alert = TRUE
  BY Switchboard
<1>2. /\ Open \in Controls /\ Open.hold = FALSE /\ Open.held = FALSE /\ Open.document = "open"
      /\ Open.scoped = FALSE /\ Open.gate = FALSE /\ Open.closed = FALSE /\ Open.alert = FALSE
  BY Switchboard
<1>3. Lab(Alerted) \in Edges /\ Ready \in Edges
  BY <1>1, <1>2, NamedEdges
<1>4. [Alerted EXCEPT !["alert"] = FALSE] = Open
  BY SwitchedBack
<1> USE DEF Expect, Keeps, KeepsServices, KeepsControl, KeepsMessages, KeepsQueues, KeepsPage
<1>5. /\ <<Lab(Alerted), Ask, Lab(Alerted)>> \in PlainQuiet
      /\ <<Lab(Alerted), Probe("alert"), Lab(Alerted)>> \in PlainQuiet
  BY <1>1, <1>3, AskRule, ProbeRule
     DEF Lab, Service, Lookups, LooksRight
<1>6. <<Lab(Alerted), Set("alert", FALSE), Ready>> \in PlainQuiet
  BY <1>1, <1>2, <1>3, <1>4, SetRule
     DEF Lab, Ready
<1> HIDE DEF Expect, Keeps, KeepsServices, KeepsControl, KeepsMessages, KeepsQueues, KeepsPage
<1> QED BY <1>5, <1>6, PlainThree

LEMMA ScenarioQuiet ==
  ASSUME NEW s \in Service, NEW measurements, Plainly(Lab(Alerted), measurements, Lab(Alerted))
  PROVE  Plainly(Lab(Alerted), RestartScenario(s, measurements), Lab(Alerted))
<1> DEFINE begins == <<Ask, Recreate({s}), Await({s}, "found")>>
           ends == <<Ask, Probe("drift-and-other-restarts")>>
<1>1. Plainly(Lab(Alerted), begins, Lab(Alerted)) /\ Plainly(Lab(Alerted), ends, Lab(Alerted))
  BY RestartQuiet
<1>2. RestartScenario(s, measurements) = begins \o measurements \o ends
  BY DEF RestartScenario
<1> HIDE DEF begins, ends
<1> QED BY <1>1, <1>2, QuietOn

LEMMA MeasuredQuiet ==
  Plainly(Lab(Alerted), MeasureIngestionVisibility("ignored") \o <<Ask>>, Lab(Alerted))
<1> DEFINE ends == <<Ask>>
           begins == MeasureIngestionVisibility("ignored")
<1>1. Plainly(Lab(Alerted), begins, Lab(Alerted)) /\ Plainly(Lab(Alerted), ends, Lab(Alerted))
  BY VisibilityQuiet, RestartQuiet DEF Ending, Service
<1> HIDE DEF begins, ends
<1>2. Plainly(Lab(Alerted), begins \o ends, Lab(Alerted))
  BY <1>1, QuietOn
<1> QED BY <1>2 DEF begins, ends

LEMMA ScenariosQuiet ==
  /\ Plainly(Lab(Alerted), RestartScenario("http", <<>>), Lab(Alerted))
  /\ Plainly(Lab(Alerted),
             RestartScenario("openobserve", MeasureIngestionVisibility("ignored") \o <<Ask>>), Lab(Alerted))
<1>1. Plainly(Lab(Alerted), <<>>, Lab(Alerted))
  BY RestartQuiet DEF Service
<1> QED BY <1>1, MeasuredQuiet, ScenarioQuiet DEF Service

LEMMA MatrixQuiet == Plainly(Ready, RestartMatrix, Ready)
<1> DEFINE part1 == <<Ask, Set("alert", TRUE)>>
<1> DEFINE part2 == RestartScenario("http", <<>>)
<1> DEFINE part3 == RestartScenario("openobserve", MeasureIngestionVisibility("ignored") \o <<Ask>>)
<1> DEFINE part4 == <<Ask, Probe("alert"), Set("alert", FALSE)>>
<1>1. Plainly(Ready, part1, Lab(Alerted))
  BY AlertBeginsQuiet
<1>2. Plainly(Lab(Alerted), part2, Lab(Alerted))
  BY ScenariosQuiet
<1>3. Plainly(Lab(Alerted), part3, Lab(Alerted))
  BY ScenariosQuiet
<1>4. Plainly(Lab(Alerted), part4, Ready)
  BY AlertEndsQuiet
<1>5. RestartMatrix = part1 \o part2 \o part3 \o part4
  BY DEF RestartMatrix
<1> HIDE DEF part1, part2, part3, part4
<1>6. Plainly(Ready, part1 \o part2 \o part3 \o part4, Ready)
  BY <1>1, <1>2, <1>3, <1>4, QuietOn
<1> QED BY <1>5, <1>6

LEMMA PartitionBodyQuiet == Plainly(Ready, <<Stop("http"), Start({"http"}), Await({"http"}, "found"), Probe("alias")>>, Ready)
<1> DEFINE e1 == Expect(Service \ {"http"}, {"http"}, Open, FALSE, {}, {}, {}, {}, Pages)
<1> DEFINE e2 == Expect(Service \ {"http"}, {}, Open, FALSE, {}, {}, {}, {}, Pages)
<1>1. /\ Open \in Controls /\ Open.hold = FALSE /\ Open.held = FALSE /\ Open.document = "open"
      /\ Open.scoped = FALSE /\ Open.gate = FALSE /\ Open.closed = FALSE /\ Open.alert = FALSE
  BY Switchboard
<1>2. e1 \in Edges /\ e2 \in Edges
  BY <1>1, ExpectType DEF Service, Batch, Pages, Shown
<1>3. Ready \in Edges
  BY <1>1, NamedEdges
<1> HIDE DEF e1, e2
<1> USE DEF Expect, Keeps, KeepsServices, KeepsControl, KeepsMessages, KeepsQueues, KeepsPage
<1>4. /\ <<Ready, Stop("http"), e1>> \in PlainQuiet
      /\ <<e1, Start({"http"}), e2>> \in PlainQuiet
  BY <1>1, <1>2, <1>3, StopRule, StartRule
     DEF Ready, Lab, e1, Service, e2
<1>5. /\ <<e2, Await({"http"}, "found"), Ready>> \in PlainQuiet
      /\ <<Ready, Probe("alias"), Ready>> \in PlainQuiet
  BY <1>1, <1>2, <1>3, AwaitRule, ProbeRule
     DEF e2, Ready, Lab, Service, Ending, Lookups, LooksRight
<1> HIDE DEF Expect, Keeps, KeepsServices, KeepsControl, KeepsMessages, KeepsQueues, KeepsPage
<1> QED BY <1>4, <1>5, PlainFour

LEMMA PartitionQuiet == Nestedly(Ready, NetworkPartition, Ready)
<1> DEFINE body == <<Stop("http"), Start({"http"}), Await({"http"}, "found"), Probe("alias")>>
<1>1. Plainly(Ready, body, Ready)
  BY PartitionBodyQuiet
<1>2. NetworkPartition = <<Caught(body)>>
  BY DEF NetworkPartition
<1> HIDE DEF body
<1> QED BY <1>1, <1>2, CaughtRuns, NamedEdges

LEMMA SwitchUnderLoadQuiet == Plainly(Ready, KillSwitchUnderLoad, Ready)
<1> DEFINE part1 == <<Publish("first", Anything)>>
<1> DEFINE part2 == <<Publish("second", {"410"})>>
<1> DEFINE part3 == <<Probe("page")>>
<1>1. Plainly(Ready, part1, Ready)
  BY SteadyScripts, SteadyOpen
<1>2. Plainly(Ready, KillSwitchOn, Lab(Off))
  BY SwitchOnQuiet
<1>3. Plainly(Lab(Off), part2, Lab(Off))
  BY RefusedQuiet
<1>4. Plainly(Lab(Off), KillSwitchOff, Ready)
  BY SwitchOffQuiet
<1>5. Plainly(Ready, part3, Ready)
  BY SteadyScripts, SteadyOpen
<1>6. KillSwitchUnderLoad = part1 \o KillSwitchOn \o part2 \o KillSwitchOff \o part3
  BY DEF KillSwitchUnderLoad
<1> HIDE DEF part1, part2, part3
<1>7. Plainly(Ready, part1 \o KillSwitchOn \o part2 \o KillSwitchOff \o part3, Ready)
  BY <1>1, <1>2, <1>3, <1>4, <1>5, QuietOn
<1> QED BY <1>6, <1>7

LEMMA VisibleQuiet ==
  /\ Plainly(Ready, MeasureIngestionVisibility("found"), Ready)
  /\ Plainly(Ready, MeasureIngestionVisibility("ignored"), Ready)
BY VisibilityQuiet DEF Ready, Ending

LEMMA ResilienceQuiet == Fully(Ready, VerifyResilience, Ready)
<1> DEFINE part1 == <<Probe("unit-coverage")>>
<1> DEFINE part2 == MeasureIngestionVisibility("found")
<1>1. Fully(Ready, part1, Ready)
  BY SteadyScripts, SteadyOpen, QuietLevels
<1>2. Fully(Ready, MeasureBrowserBudgets, Ready)
  BY SteadyScripts, SteadyOpen, QuietLevels
<1>3. Fully(Ready, MeasureProxyLatency, Ready)
  BY SteadyScripts, SteadyOpen, QuietLevels
<1>4. Fully(Ready, part2, Ready)
  BY VisibleQuiet, QuietLevels
<1>5. Fully(Ready, MeasureQueryCatalogPerformance, Ready)
  BY SteadyScripts, SteadyOpen, QuietLevels
<1>6. Fully(Ready, CheckNotificationReadiness, Ready)
  BY SteadyScripts, SteadyOpen, QuietLevels
<1>7. Fully(Ready, RestartRuntimeControlAgent, Ready)
  BY DaemonQuiet
<1>8. Fully(Ready, RestartMatrix, Ready)
  BY MatrixQuiet, QuietLevels
<1>9. Fully(Ready, NetworkPartition, Ready)
  BY PartitionQuiet, QuietLevels
<1>10. Fully(Ready, KillSwitchUnderLoad, Ready)
  BY SwitchUnderLoadQuiet, QuietLevels
<1>11. Fully(Ready, MeasureContainerResourceRecovery, Ready)
  BY SteadyScripts, SteadyOpen, QuietLevels
<1>12. VerifyResilience = part1 \o MeasureBrowserBudgets \o MeasureProxyLatency \o part2 \o MeasureQueryCatalogPerformance \o CheckNotificationReadiness \o RestartRuntimeControlAgent \o RestartMatrix \o NetworkPartition \o KillSwitchUnderLoad \o MeasureContainerResourceRecovery
  BY DEF VerifyResilience
<1> HIDE DEF part1, part2
<1>13. Fully(Ready,
        part1 \o MeasureBrowserBudgets \o MeasureProxyLatency \o part2 \o MeasureQueryCatalogPerformance,
        Ready)
  BY <1>1, <1>2, <1>3, <1>4, <1>5, QuietOn
<1>14. Fully(Ready,
        part1 \o MeasureBrowserBudgets \o MeasureProxyLatency \o part2 \o MeasureQueryCatalogPerformance \o CheckNotificationReadiness \o RestartRuntimeControlAgent \o RestartMatrix \o NetworkPartition,
        Ready)
  BY <1>13, <1>6, <1>7, <1>8, <1>9, QuietOn
<1>15. Fully(Ready,
        part1 \o MeasureBrowserBudgets \o MeasureProxyLatency \o part2 \o MeasureQueryCatalogPerformance \o CheckNotificationReadiness \o RestartRuntimeControlAgent \o RestartMatrix \o NetworkPartition \o KillSwitchUnderLoad \o MeasureContainerResourceRecovery,
        Ready)
  BY <1>14, <1>10, <1>11, QuietOn
<1> QED BY <1>12, <1>15

LEMMA SwitchCycleQuiet == Nestedly(Ready, RunKillSwitchCycle, Ready)
<1> DEFINE body == <<Publish("first", {"202", "410"})>>
           block == <<Protect(body, KillSwitchOff)>>
<1>1. Plainly(Lab(Off), body, Lab(Off)) /\ Plainly(Lab(Off), KillSwitchOff, Ready)
  BY RefusedQuiet, SwitchOffQuiet
<1>2. Lab(Off) \in Edges /\ Ready \in Edges
  BY NamedEdges, Switchboard
<1>3. Nestedly(Lab(Off), block, Ready)
  BY <1>1, <1>2, ProtectRuns
<1>4. Nestedly(Ready, KillSwitchOn, Lab(Off))
  BY SwitchOnQuiet, QuietLevels
<1>5. RunKillSwitchCycle = KillSwitchOn \o block
  BY DEF RunKillSwitchCycle
<1> HIDE DEF body, block
<1> QED BY <1>3, <1>4, <1>5, QuietOn

LEMMA ReplacedQuiet == Plainly(Ready, <<Recreate(OpenObserve), Await(OpenObserve, "found")>>, Ready)
<1>1. /\ Open \in Controls /\ Open.hold = FALSE /\ Open.held = FALSE /\ Open.document = "open"
      /\ Open.scoped = FALSE /\ Open.gate = FALSE /\ Open.closed = FALSE /\ Open.alert = FALSE
  BY Switchboard
<1>2. Ready \in Edges /\ Waking \in Edges
  BY <1>1, NamedEdges
<1> USE DEF Expect, Keeps, KeepsServices, KeepsControl, KeepsMessages, KeepsQueues, KeepsPage
<1>3. /\ <<Ready, Recreate(OpenObserve), Waking>> \in PlainQuiet
      /\ <<Waking, Await(OpenObserve, "found"), Ready>> \in PlainQuiet
  BY <1>1, <1>2, RecreateRule, AwaitRule
     DEF Ready, Lab, Waking, Service, OpenObserve, Ending
<1> HIDE DEF Expect, Keeps, KeepsServices, KeepsControl, KeepsMessages, KeepsQueues, KeepsPage
<1> QED BY <1>3, PlainTwo

LEMMA RestartCycleQuiet == Plainly(Ready, RestartCycle, Ready)
<1> DEFINE part1 == <<Recreate(OpenObserve), Await(OpenObserve, "found")>>
<1> DEFINE part2 == MeasureIngestionVisibility("ignored")
<1>1. Plainly(Ready, part1, Ready)
  BY ReplacedQuiet
<1>2. Plainly(Ready, part2, Ready)
  BY VisibleQuiet
<1>3. RestartCycle = part1 \o part2
  BY DEF RestartCycle
<1> HIDE DEF part1, part2
<1>4. Plainly(Ready, part1 \o part2, Ready)
  BY <1>1, <1>2, QuietOn
<1> QED BY <1>3, <1>4

LEMMA ResilienceSoakQuiet == Nestedly(Ready, RunResilienceSoak, Ready)
<1> DEFINE part1 == MeasureIngestionVisibility("found")
<1> DEFINE part2 == <<Probe("leaks")>>
<1>1. Nestedly(Ready, RunBrowserWorkload, Ready)
  BY SteadyScripts, SteadyOpen, QuietLevels
<1>2. Nestedly(Ready, SoakSample, Ready)
  BY SteadyScripts, SteadyOpen, QuietLevels
<1>3. Nestedly(Ready, CheckNotificationReadiness, Ready)
  BY SteadyScripts, SteadyOpen, QuietLevels
<1>4. Nestedly(Ready, RunBurstProbe, Ready)
  BY SteadyScripts, SteadyOpen, QuietLevels
<1>5. Nestedly(Ready, RunKillSwitchCycle, Ready)
  BY SwitchCycleQuiet
<1>6. Nestedly(Ready, RestartCycle, Ready)
  BY RestartCycleQuiet, QuietLevels
<1>7. Nestedly(Ready, part1, Ready)
  BY VisibleQuiet, QuietLevels
<1>8. Nestedly(Ready, part2, Ready)
  BY SteadyScripts, SteadyOpen, QuietLevels
<1>9. RunResilienceSoak = RunBrowserWorkload \o SoakSample \o CheckNotificationReadiness \o RunBurstProbe \o RunKillSwitchCycle \o SoakSample \o RestartCycle \o SoakSample \o RunBrowserWorkload \o part1 \o part2
  BY DEF RunResilienceSoak
<1> HIDE DEF part1, part2
<1>10. Nestedly(Ready,
        RunBrowserWorkload \o SoakSample \o CheckNotificationReadiness \o RunBurstProbe \o RunKillSwitchCycle,
        Ready)
  BY <1>1, <1>2, <1>3, <1>4, <1>5, QuietOn
<1>11. Nestedly(Ready,
        RunBrowserWorkload \o SoakSample \o CheckNotificationReadiness \o RunBurstProbe \o RunKillSwitchCycle \o SoakSample \o RestartCycle \o SoakSample \o RunBrowserWorkload,
        Ready)
  BY <1>10, <1>1, <1>2, <1>6, QuietOn
<1>12. Nestedly(Ready,
        RunBrowserWorkload \o SoakSample \o CheckNotificationReadiness \o RunBurstProbe \o RunKillSwitchCycle \o SoakSample \o RestartCycle \o SoakSample \o RunBrowserWorkload \o part1 \o part2,
        Ready)
  BY <1>11, <1>7, <1>8, QuietOn
<1> QED BY <1>9, <1>12

(***************************************************************************)
(* Runtime control.                                                        *)
(***************************************************************************)
LEMMA GrantQuiet == Plainly(Ready, InitializeAndGrant, Active)
<1>1. /\ Open \in Controls /\ Open.hold = FALSE /\ Open.held = FALSE /\ Open.document = "open"
      /\ Open.scoped = FALSE /\ Open.gate = FALSE /\ Open.closed = FALSE /\ Open.alert = FALSE
  BY Switchboard
<1>2. Ready \in Edges /\ Active \in Edges
  BY <1>1, NamedEdges
<1> USE DEF Expect, Keeps, KeepsServices, KeepsControl, KeepsMessages, KeepsQueues, KeepsPage
<1>3. /\ <<Ready, Browse, Active>> \in PlainQuiet
      /\ <<Active, See({"active"}), Active>> \in PlainQuiet
  BY <1>1, <1>2, BrowseRule, SeeRule
     DEF Ready, Lab, Active, Shown, Pages, PageComes
<1> HIDE DEF Expect, Keeps, KeepsServices, KeepsControl, KeepsMessages, KeepsQueues, KeepsPage
<1> QED BY <1>3, PlainTwo DEF InitializeAndGrant

LEMMA GrantedQuiet == Plainly(Ready, InitializeAndGrant, Ready)
<1>1. /\ Open \in Controls /\ Open.hold = FALSE /\ Open.held = FALSE /\ Open.document = "open"
      /\ Open.scoped = FALSE /\ Open.gate = FALSE /\ Open.closed = FALSE /\ Open.alert = FALSE
  BY Switchboard
<1>2. Ready \in Edges /\ Active \in Edges
  BY <1>1, NamedEdges
<1> USE DEF Expect, Keeps, KeepsServices, KeepsControl, KeepsMessages, KeepsQueues, KeepsPage
<1>3. /\ <<Ready, Browse, Active>> \in PlainQuiet
      /\ <<Active, See({"active"}), Ready>> \in PlainQuiet
  BY <1>1, <1>2, BrowseRule, SeeRule
     DEF Ready, Lab, Active, Shown, Pages, PageComes
<1> HIDE DEF Expect, Keeps, KeepsServices, KeepsControl, KeepsMessages, KeepsQueues, KeepsPage
<1> QED BY <1>3, PlainTwo DEF InitializeAndGrant

LEMMA ResetQuiet ==
  Plainly(Ready, ResetToCleanState, Ready) /\ Plainly(Lab(Expired), ResetToCleanState, Ready) /\ Plainly(Lab(Older), ResetToCleanState, Ready)
BY SwitchOffQuiet DEF Ready

LEMMA NormalFlowQuiet == Plainly(Ready, CheckNormalFlow, Ready)
<1> DEFINE part1 == <<Probe("telemetry-request")>>
<1>1. Plainly(Ready, ResetToCleanState, Ready)
  BY ResetQuiet
<1>2. Plainly(Ready, InitializeAndGrant, Ready)
  BY GrantedQuiet
<1>3. Plainly(Ready, part1, Ready)
  BY SteadyScripts, SteadyOpen
<1>4. CheckNormalFlow = ResetToCleanState \o InitializeAndGrant \o part1
  BY DEF CheckNormalFlow
<1> HIDE DEF part1
<1>5. Plainly(Ready, ResetToCleanState \o InitializeAndGrant \o part1, Ready)
  BY <1>1, <1>2, <1>3, QuietOn
<1> QED BY <1>4, <1>5

LEMMA LatchQuiet == Plainly(Active, <<Set("document", "kill"), See({"latched"}), Set("document", "open"), See({"latched"})>>, Ready)
<1> DEFINE e1 == Expect(Service, {}, Killing, FALSE, {}, {}, {}, {}, {"active", "latched"})
<1> DEFINE e2 == Expect(Service, {}, Killing, FALSE, {}, {}, {}, {}, {"latched"})
<1> DEFINE e3 == Expect(Service, {}, Open, FALSE, {}, {}, {}, {}, {"latched"})
<1>1. /\ Open \in Controls /\ Open.hold = FALSE /\ Open.held = FALSE /\ Open.document = "open"
      /\ Open.scoped = FALSE /\ Open.gate = FALSE /\ Open.closed = FALSE /\ Open.alert = FALSE
  BY Switchboard
<1>2. /\ Killing \in Controls /\ Killing.hold = FALSE /\ Killing.held = FALSE /\ Killing.document = "kill"
      /\ Killing.scoped = FALSE /\ Killing.gate = FALSE /\ Killing.closed = FALSE /\ Killing.alert = FALSE
  BY Switchboard
<1>3. e1 \in Edges /\ e2 \in Edges /\ e3 \in Edges
  BY <1>1, <1>2, ExpectType DEF Service, Batch, Pages, Shown
<1>4. Active \in Edges /\ Ready \in Edges
  BY <1>1, NamedEdges
<1> HIDE DEF e1, e2, e3
<1>5. [Open EXCEPT !["document"] = "kill"] = Killing
  BY DEF Killing
<1>6. [Killing EXCEPT !["document"] = "open"] = Open
  BY SwitchedBack
<1> USE DEF Expect, Keeps, KeepsServices, KeepsControl, KeepsMessages, KeepsQueues, KeepsPage
<1>7. /\ <<Active, Set("document", "kill"), e1>> \in PlainQuiet
      /\ <<e1, See({"latched"}), e2>> \in PlainQuiet
  BY <1>1, <1>2, <1>3, <1>4, <1>5, DocumentRule, SeeRule
     DEF Active, e1, Document, Pages, e2, PageComes, Shown
<1>8. /\ <<e2, Set("document", "open"), e3>> \in PlainQuiet
      /\ <<e3, See({"latched"}), Ready>> \in PlainQuiet
  BY <1>1, <1>2, <1>3, <1>4, <1>6, DocumentRule, SeeRule
     DEF e2, e3, Document, Pages, Ready, Lab, PageComes, Shown
<1> HIDE DEF Expect, Keeps, KeepsServices, KeepsControl, KeepsMessages, KeepsQueues, KeepsPage
<1> QED BY <1>7, <1>8, PlainFour

LEMMA BrowserSwitchQuiet == Plainly(Ready, CheckBrowserKillSwitch, Ready)
<1> DEFINE part1 == <<Set("document", "kill"), See({"latched"}), Set("document", "open"), See({"latched"})>>
<1>1. Plainly(Ready, ResetToCleanState, Ready)
  BY ResetQuiet
<1>2. Plainly(Ready, InitializeAndGrant, Active)
  BY GrantQuiet
<1>3. Plainly(Active, part1, Ready)
  BY LatchQuiet
<1>4. Plainly(Ready, InitializeAndGrant, Ready)
  BY GrantedQuiet
<1>5. CheckBrowserKillSwitch = ResetToCleanState \o InitializeAndGrant \o part1 \o InitializeAndGrant \o ResetToCleanState
  BY DEF CheckBrowserKillSwitch
<1> HIDE DEF part1
<1>6. Plainly(Ready,
        ResetToCleanState \o InitializeAndGrant \o part1 \o InitializeAndGrant \o ResetToCleanState,
        Ready)
  BY <1>1, <1>2, <1>3, <1>4, QuietOn
<1> QED BY <1>5, <1>6

LEMMA CloseQuiet == Plainly(Ready, <<Set("gate", TRUE), Reload>>, Lab(Closed))
<1>1. /\ Open \in Controls /\ Open.hold = FALSE /\ Open.held = FALSE /\ Open.document = "open"
      /\ Open.scoped = FALSE /\ Open.gate = FALSE /\ Open.closed = FALSE /\ Open.alert = FALSE
  BY Switchboard
<1>2. /\ Gated \in Controls /\ Gated.hold = FALSE /\ Gated.held = FALSE /\ Gated.document = "open"
      /\ Gated.scoped = FALSE /\ Gated.gate = TRUE /\ Gated.closed = FALSE /\ Gated.alert = FALSE
  BY Switchboard
<1>3. /\ Closed \in Controls /\ Closed.hold = FALSE /\ Closed.held = FALSE /\ Closed.document = "open"
      /\ Closed.scoped = FALSE /\ Closed.gate = TRUE /\ Closed.closed = TRUE /\ Closed.alert = FALSE
  BY Switchboard
<1>4. Ready \in Edges /\ Lab(Gated) \in Edges /\ Lab(Closed) \in Edges
  BY <1>1, <1>2, <1>3, NamedEdges
<1>5. [Open EXCEPT !["gate"] = TRUE] = Gated
  BY DEF Gated
<1>6. [Gated EXCEPT !["closed"] = TRUE] = Closed
  BY DEF Closed
<1> USE DEF Expect, Keeps, KeepsServices, KeepsControl, KeepsMessages, KeepsQueues, KeepsPage
<1>7. /\ <<Ready, Set("gate", TRUE), Lab(Gated)>> \in PlainQuiet
      /\ <<Lab(Gated), Reload, Lab(Closed)>> \in PlainQuiet
  BY <1>1, <1>2, <1>3, <1>4, <1>5, <1>6, SetRule, ReloadRule
     DEF Ready, Lab
<1> HIDE DEF Expect, Keeps, KeepsServices, KeepsControl, KeepsMessages, KeepsQueues, KeepsPage
<1> QED BY <1>7, PlainTwo

LEMMA ReopenQuiet == Plainly(Lab(Closed), <<Set("gate", FALSE), Reload>>, Ready)
<1>1. /\ Closed \in Controls /\ Closed.hold = FALSE /\ Closed.held = FALSE /\ Closed.document = "open"
      /\ Closed.scoped = FALSE /\ Closed.gate = TRUE /\ Closed.closed = TRUE /\ Closed.alert = FALSE
  BY Switchboard
<1>2. /\ Shut \in Controls /\ Shut.hold = FALSE /\ Shut.held = FALSE /\ Shut.document = "open"
      /\ Shut.scoped = FALSE /\ Shut.gate = FALSE /\ Shut.closed = TRUE /\ Shut.alert = FALSE
  BY Switchboard
<1>3. /\ Open \in Controls /\ Open.hold = FALSE /\ Open.held = FALSE /\ Open.document = "open"
      /\ Open.scoped = FALSE /\ Open.gate = FALSE /\ Open.closed = FALSE /\ Open.alert = FALSE
  BY Switchboard
<1>4. Lab(Closed) \in Edges /\ Lab(Shut) \in Edges /\ Ready \in Edges
  BY <1>1, <1>2, <1>3, NamedEdges
<1>5. [Closed EXCEPT !["gate"] = FALSE] = Shut
  BY DEF Shut
<1>6. [Shut EXCEPT !["closed"] = FALSE] = Open
  BY SwitchedBack
<1> USE DEF Expect, Keeps, KeepsServices, KeepsControl, KeepsMessages, KeepsQueues, KeepsPage
<1>7. /\ <<Lab(Closed), Set("gate", FALSE), Lab(Shut)>> \in PlainQuiet
      /\ <<Lab(Shut), Reload, Ready>> \in PlainQuiet
  BY <1>1, <1>2, <1>3, <1>4, <1>5, <1>6, SetRule, ReloadRule
     DEF Lab, Ready
<1> HIDE DEF Expect, Keeps, KeepsServices, KeepsControl, KeepsMessages, KeepsQueues, KeepsPage
<1> QED BY <1>7, PlainTwo

LEMMA ClosedAwayQuiet == Plainly(Lab(Closed), <<Publish("first", {"410"}), Stop("openobserve")>>, AwayClosed)
<1>1. /\ Closed \in Controls /\ Closed.hold = FALSE /\ Closed.held = FALSE /\ Closed.document = "open"
      /\ Closed.scoped = FALSE /\ Closed.gate = TRUE /\ Closed.closed = TRUE /\ Closed.alert = FALSE
  BY Switchboard
<1>2. Lab(Closed) \in Edges /\ AwayClosed \in Edges
  BY <1>1, NamedEdges
<1>3. Reply(Lab(Closed), "primary") = "410"
  BY <1>1 DEF Reply, Shown, Service, Expect, Lab
<1> USE DEF Expect, Keeps, KeepsServices, KeepsControl, KeepsMessages, KeepsQueues, KeepsPage
<1>4. <<Lab(Closed), Publish("first", {"410"}), Lab(Closed)>> \in PlainQuiet
  BY <1>1, <1>2, <1>3, RefusedRule
     DEF Lab, Answers, Batch
<1>5. <<Lab(Closed), Stop("openobserve"), AwayClosed>> \in PlainQuiet
  BY <1>1, <1>2, StopRule
     DEF Lab, AwayClosed, Service
<1> HIDE DEF Expect, Keeps, KeepsServices, KeepsControl, KeepsMessages, KeepsQueues, KeepsPage
<1> QED BY <1>4, <1>5, PlainTwo

LEMMA RefusedAwayQuiet == Plainly(AwayClosed, <<Publish("first", {"410"})>>, AwayClosed)
<1>1. /\ Closed \in Controls /\ Closed.hold = FALSE /\ Closed.held = FALSE /\ Closed.document = "open"
      /\ Closed.scoped = FALSE /\ Closed.gate = TRUE /\ Closed.closed = TRUE /\ Closed.alert = FALSE
  BY Switchboard
<1>2. AwayClosed \in Edges
  BY <1>1, NamedEdges
<1>3. Reply(AwayClosed, "primary") = "410"
  BY <1>1 DEF Reply, Shown, Service, Expect, AwayClosed
<1> USE DEF Expect, Keeps, KeepsServices, KeepsControl, KeepsMessages, KeepsQueues, KeepsPage
<1>4. <<AwayClosed, Publish("first", {"410"}), AwayClosed>> \in PlainQuiet
  BY <1>1, <1>2, <1>3, RefusedRule
     DEF AwayClosed, Answers, Batch
<1> HIDE DEF Expect, Keeps, KeepsServices, KeepsControl, KeepsMessages, KeepsQueues, KeepsPage
<1> DEFINE plan == <<AwayClosed, AwayClosed>>
<1>5. plan \in Seq(Expectations) /\ Len(plan) = 2 /\ plan[1] = AwayClosed /\ plan[2] = AwayClosed
  BY <1>2, EdgesAre
<1> DEFINE run == <<Publish("first", {"410"})>>
<1>6. /\ run \in Seq(PlainStep) /\ Len(run) = 1
      /\ \A i \in 1..1 : <<plan[i], run[i], plan[i + 1]>> \in PlainQuiet
  <2>1. run \in Seq(PlainStep) /\ Len(run) = 1
    BY <1>4 DEF run, PlainQuiet
  <2>2. \A i \in 1..1 : <<plan[i], run[i], plan[i + 1]>> \in PlainQuiet
    BY <1>4 DEF run
  <2> QED BY <2>1, <2>2
<1> HIDE DEF plan, run
<1>7. /\ Len(plan) = Len(run) + 1 /\ plan[Len(plan)] = AwayClosed
      /\ \A i \in 1..Len(run) : <<plan[i], run[i], plan[i + 1]>> \in PlainQuiet
  BY <1>5, <1>6
<1>8. Plainly(AwayClosed, run, AwayClosed)
  BY <1>5, <1>6, <1>7, PlainPlan
<1> QED BY <1>8 DEF run

LEMMA ClosedBackQuiet == Plainly(AwayClosed, <<Start(OpenObserve), Await(OpenObserve, "found")>>, Lab(Closed))
<1> DEFINE e1 == Expect(Service \ {"openobserve"}, {}, Closed, FALSE, {}, {}, {}, {}, Pages)
<1>1. /\ Closed \in Controls /\ Closed.hold = FALSE /\ Closed.held = FALSE /\ Closed.document = "open"
      /\ Closed.scoped = FALSE /\ Closed.gate = TRUE /\ Closed.closed = TRUE /\ Closed.alert = FALSE
  BY Switchboard
<1>2. e1 \in Edges
  BY <1>1, ExpectType DEF Service, Batch, Pages, Shown
<1>3. AwayClosed \in Edges /\ Lab(Closed) \in Edges
  BY <1>1, NamedEdges
<1> HIDE DEF e1
<1> USE DEF Expect, Keeps, KeepsServices, KeepsControl, KeepsMessages, KeepsQueues, KeepsPage
<1>4. /\ <<AwayClosed, Start(OpenObserve), e1>> \in PlainQuiet
      /\ <<e1, Await(OpenObserve, "found"), Lab(Closed)>> \in PlainQuiet
  BY <1>1, <1>2, <1>3, StartRule, AwaitRule
     DEF AwayClosed, e1, Service, OpenObserve, Lab, Ending
<1> HIDE DEF Expect, Keeps, KeepsServices, KeepsControl, KeepsMessages, KeepsQueues, KeepsPage
<1> QED BY <1>4, PlainTwo

LEMMA ProxySwitchBodyQuiet == Nestedly(Lab(Closed), <<Publish("first", {"410"}), Stop("openobserve"), Protect(<<Publish("first", {"410"})>>, <<Start(OpenObserve), Await(OpenObserve, "found")>>), Browse, Probe("retry-storm")>>, Lab(Closed))
<1> DEFINE part1 == <<Publish("first", {"410"}), Stop("openobserve")>>
<1> DEFINE part2 == <<Protect(<<Publish("first", {"410"})>>, <<Start(OpenObserve), Await(OpenObserve, "found")>>)>>
<1> DEFINE part3 == <<Browse, Probe("retry-storm")>>
<1>1. Nestedly(Lab(Closed), part1, AwayClosed)
  BY ClosedAwayQuiet, QuietLevels
<1>2. Nestedly(AwayClosed, part2, Lab(Closed))
  BY RefusedAwayQuiet, ClosedBackQuiet, ProtectRuns, NamedEdges, Switchboard
<1>3. Nestedly(Lab(Closed), part3, Lab(Closed))
  BY RefusedQuiet, QuietLevels
<1>4. <<Publish("first", {"410"}), Stop("openobserve"), Protect(<<Publish("first", {"410"})>>, <<Start(OpenObserve), Await(OpenObserve, "found")>>), Browse, Probe("retry-storm")>> = part1 \o part2 \o part3
  BY Pieces
<1> HIDE DEF part1, part2, part3
<1>5. Nestedly(Lab(Closed), part1 \o part2 \o part3, Lab(Closed))
  BY <1>1, <1>2, <1>3, QuietOn
<1> QED BY <1>4, <1>5

LEMMA ProtectedSwitchQuiet == Fully(Lab(Closed), <<Protect(<<Publish("first", {"410"}), Stop("openobserve"), Protect(<<Publish("first", {"410"})>>, <<Start(OpenObserve), Await(OpenObserve, "found")>>), Browse, Probe("retry-storm")>>, <<Set("gate", FALSE), Reload>>)>>, Ready)
<1> DEFINE body == <<Publish("first", {"410"}), Stop("openobserve"), Protect(<<Publish("first", {"410"})>>, <<Start(OpenObserve), Await(OpenObserve, "found")>>), Browse, Probe("retry-storm")>>
           cleanup == <<Set("gate", FALSE), Reload>>
<1>1. Nestedly(Lab(Closed), body, Lab(Closed))
  BY ProxySwitchBodyQuiet
<1>2. Nestedly(Lab(Closed), cleanup, Ready)
  BY ReopenQuiet, QuietLevels
<1>3. Lab(Closed) \in Edges /\ Ready \in Edges
  BY NamedEdges, Switchboard
<1> HIDE DEF body, cleanup
<1>4. Fully(Lab(Closed), <<Protect(body, cleanup)>>, Ready)
  BY <1>1, <1>2, <1>3, ProtectRuns
<1> QED BY <1>4 DEF body, cleanup

LEMMA SwitchedProxyQuiet == Fully(Ready, <<Set("gate", TRUE), Reload, Protect(<<Publish("first", {"410"}), Stop("openobserve"), Protect(<<Publish("first", {"410"})>>, <<Start(OpenObserve), Await(OpenObserve, "found")>>), Browse, Probe("retry-storm")>>, <<Set("gate", FALSE), Reload>>)>>, Ready)
<1> DEFINE part1 == <<Set("gate", TRUE), Reload>>
<1> DEFINE part2 == <<Protect(<<Publish("first", {"410"}), Stop("openobserve"), Protect(<<Publish("first", {"410"})>>, <<Start(OpenObserve), Await(OpenObserve, "found")>>), Browse, Probe("retry-storm")>>, <<Set("gate", FALSE), Reload>>)>>
<1>1. Fully(Ready, part1, Lab(Closed))
  BY CloseQuiet, QuietLevels
<1>2. Fully(Lab(Closed), part2, Ready)
  BY ProtectedSwitchQuiet
<1>3. <<Set("gate", TRUE), Reload, Protect(<<Publish("first", {"410"}), Stop("openobserve"), Protect(<<Publish("first", {"410"})>>, <<Start(OpenObserve), Await(OpenObserve, "found")>>), Browse, Probe("retry-storm")>>, <<Set("gate", FALSE), Reload>>)>> = part1 \o part2
  BY Pieces
<1> HIDE DEF part1, part2
<1>4. Fully(Ready, part1 \o part2, Ready)
  BY <1>1, <1>2, QuietOn
<1> QED BY <1>3, <1>4

LEMMA ProxySwitchQuiet == Fully(Ready, CheckProxyKillSwitch, Ready)
<1> DEFINE part1 == <<Set("gate", TRUE), Reload, Protect(<<Publish("first", {"410"}), Stop("openobserve"), Protect(<<Publish("first", {"410"})>>, <<Start(OpenObserve), Await(OpenObserve, "found")>>), Browse, Probe("retry-storm")>>, <<Set("gate", FALSE), Reload>>)>>
<1>1. Fully(Ready, ResetToCleanState, Ready)
  BY ResetQuiet, QuietLevels
<1>2. Fully(Ready, part1, Ready)
  BY SwitchedProxyQuiet
<1>3. CheckProxyKillSwitch = ResetToCleanState \o part1
  BY DEF CheckProxyKillSwitch
<1> HIDE DEF part1
<1>4. Fully(Ready, ResetToCleanState \o part1, Ready)
  BY <1>1, <1>2, QuietOn
<1> QED BY <1>3, <1>4

LEMMA OperatorCommandQuiet == Plainly(Ready, CheckOperatorCommand, Ready)
<1> DEFINE part1 == <<Publish("first", {"410"})>>
<1> DEFINE part2 == <<Publish("first", {"202"})>>
<1>1. Plainly(Ready, ResetToCleanState, Ready)
  BY ResetQuiet
<1>2. Plainly(Ready, KillSwitchOn, Lab(Off))
  BY SwitchOnQuiet
<1>3. Plainly(Lab(Off), part1, Lab(Off))
  BY RefusedQuiet
<1>4. Plainly(Lab(Off), KillSwitchOff, Ready)
  BY SwitchOffQuiet
<1>5. Plainly(Ready, part2, Ready)
  BY SteadyScripts, SteadyOpen
<1>6. CheckOperatorCommand = ResetToCleanState \o KillSwitchOn \o part1 \o KillSwitchOff \o part2
  BY DEF CheckOperatorCommand
<1> HIDE DEF part1, part2
<1>7. Plainly(Ready, ResetToCleanState \o KillSwitchOn \o part1 \o KillSwitchOff \o part2,
        Ready)
  BY <1>1, <1>2, <1>3, <1>4, <1>5, QuietOn
<1> QED BY <1>6, <1>7

LEMMA ExpiredQuiet == Plainly(Active, <<Outlive, See({"blocked"})>>, Lab(Expired))
<1> DEFINE e1 == Expect(Service, {}, Expired, FALSE, {}, {}, {}, {}, {"blocked"})
<1>1. /\ Open \in Controls /\ Open.hold = FALSE /\ Open.held = FALSE /\ Open.document = "open"
      /\ Open.scoped = FALSE /\ Open.gate = FALSE /\ Open.closed = FALSE /\ Open.alert = FALSE
  BY Switchboard
<1>2. /\ Expired \in Controls /\ Expired.hold = FALSE /\ Expired.held = FALSE /\ Expired.document = "invalid"
      /\ Expired.scoped = FALSE /\ Expired.gate = FALSE /\ Expired.closed = FALSE /\ Expired.alert = FALSE
  BY Switchboard
<1>3. e1 \in Edges
  BY <1>2, ExpectType DEF Service, Batch, Pages, Shown
<1>4. Active \in Edges /\ Lab(Expired) \in Edges
  BY <1>1, <1>2, NamedEdges
<1> HIDE DEF e1
<1>5. [Open EXCEPT !["document"] = "invalid"] = Expired
  BY DEF Expired
<1> USE DEF Expect, Keeps, KeepsServices, KeepsControl, KeepsMessages, KeepsQueues, KeepsPage
<1>6. /\ <<Active, Outlive, e1>> \in PlainQuiet
      /\ <<e1, See({"blocked"}), Lab(Expired)>> \in PlainQuiet
  BY <1>1, <1>2, <1>3, <1>4, <1>5, OutliveRule, SeeRule
     DEF Active, e1, Pages, Lab, PageComes, Shown
<1> HIDE DEF Expect, Keeps, KeepsServices, KeepsControl, KeepsMessages, KeepsQueues, KeepsPage
<1> QED BY <1>6, PlainTwo

LEMMA ExpiryQuiet == Plainly(Ready, CheckExpiry, Ready)
<1> DEFINE part1 == <<Outlive, See({"blocked"})>>
<1>1. Plainly(Ready, ResetToCleanState, Ready)
  BY ResetQuiet
<1>2. Plainly(Ready, InitializeAndGrant, Active)
  BY GrantQuiet
<1>3. Plainly(Active, part1, Lab(Expired))
  BY ExpiredQuiet
<1>4. Plainly(Lab(Expired), ResetToCleanState, Ready)
  BY ResetQuiet
<1>5. CheckExpiry = ResetToCleanState \o InitializeAndGrant \o part1 \o ResetToCleanState
  BY DEF CheckExpiry
<1> HIDE DEF part1
<1>6. Plainly(Ready, ResetToCleanState \o InitializeAndGrant \o part1 \o ResetToCleanState,
        Ready)
  BY <1>1, <1>2, <1>3, <1>4, QuietOn
<1> QED BY <1>5, <1>6

LEMMA InvalidQuiet == Plainly(Ready, <<Set("document", "invalid"), Browse, See({"blocked"}), Probe("query-string"), Set("document", "open")>>, Ready)
<1> DEFINE e1 == Expect(Service, {}, Expired, FALSE, {}, {}, {}, {}, {"blocked"})
<1>1. /\ Open \in Controls /\ Open.hold = FALSE /\ Open.held = FALSE /\ Open.document = "open"
      /\ Open.scoped = FALSE /\ Open.gate = FALSE /\ Open.closed = FALSE /\ Open.alert = FALSE
  BY Switchboard
<1>2. /\ Expired \in Controls /\ Expired.hold = FALSE /\ Expired.held = FALSE /\ Expired.document = "invalid"
      /\ Expired.scoped = FALSE /\ Expired.gate = FALSE /\ Expired.closed = FALSE /\ Expired.alert = FALSE
  BY Switchboard
<1>3. e1 \in Edges
  BY <1>2, ExpectType DEF Service, Batch, Pages, Shown
<1>4. Ready \in Edges /\ Lab(Expired) \in Edges
  BY <1>1, <1>2, NamedEdges
<1> HIDE DEF e1
<1>5. [Open EXCEPT !["document"] = "invalid"] = Expired
  BY DEF Expired
<1>6. [Expired EXCEPT !["document"] = "open"] = Open
  BY SwitchedBack
<1> USE DEF Expect, Keeps, KeepsServices, KeepsControl, KeepsMessages, KeepsQueues, KeepsPage
<1>7. /\ <<Ready, Set("document", "invalid"), Lab(Expired)>> \in PlainQuiet
      /\ <<Lab(Expired), Browse, e1>> \in PlainQuiet
  BY <1>1, <1>2, <1>3, <1>4, <1>5, DocumentRule, BrowseRule
     DEF Ready, Lab, Document, Pages, e1, Shown
<1>8. /\ <<e1, See({"blocked"}), e1>> \in PlainQuiet
      /\ <<e1, Probe("query-string"), e1>> \in PlainQuiet
  BY <1>2, <1>3, SeeRule, ProbeRule
     DEF e1, Pages, PageComes, Shown, Lookups, LooksRight, Service
<1>9. <<e1, Set("document", "open"), Ready>> \in PlainQuiet
  BY <1>1, <1>2, <1>3, <1>4, <1>6, DocumentRule
     DEF e1, Ready, Lab, Document, Pages
<1> HIDE DEF Expect, Keeps, KeepsServices, KeepsControl, KeepsMessages, KeepsQueues, KeepsPage
<1> QED BY <1>7, <1>8, <1>9, PlainFive

LEMMA OlderQuiet == Plainly(Active, <<Set("document", "older"), See({"rejected"})>>, Lab(Older))
<1> DEFINE e1 == Expect(Service, {}, Older, FALSE, {}, {}, {}, {}, {"active", "rejected"})
<1>1. /\ Open \in Controls /\ Open.hold = FALSE /\ Open.held = FALSE /\ Open.document = "open"
      /\ Open.scoped = FALSE /\ Open.gate = FALSE /\ Open.closed = FALSE /\ Open.alert = FALSE
  BY Switchboard
<1>2. /\ Older \in Controls /\ Older.hold = FALSE /\ Older.held = FALSE /\ Older.document = "older"
      /\ Older.scoped = FALSE /\ Older.gate = FALSE /\ Older.closed = FALSE /\ Older.alert = FALSE
  BY Switchboard
<1>3. e1 \in Edges
  BY <1>2, ExpectType DEF Service, Batch, Pages, Shown
<1>4. Active \in Edges /\ Lab(Older) \in Edges
  BY <1>1, <1>2, NamedEdges
<1> HIDE DEF e1
<1>5. [Open EXCEPT !["document"] = "older"] = Older
  BY DEF Older
<1> USE DEF Expect, Keeps, KeepsServices, KeepsControl, KeepsMessages, KeepsQueues, KeepsPage
<1>6. /\ <<Active, Set("document", "older"), e1>> \in PlainQuiet
      /\ <<e1, See({"rejected"}), Lab(Older)>> \in PlainQuiet
  BY <1>1, <1>2, <1>3, <1>4, <1>5, DocumentRule, SeeRule
     DEF Active, e1, Document, Pages, Lab, PageComes, Shown
<1> HIDE DEF Expect, Keeps, KeepsServices, KeepsControl, KeepsMessages, KeepsQueues, KeepsPage
<1> QED BY <1>6, PlainTwo

LEMMA InvalidDocumentsQuiet == Plainly(Ready, CheckInvalidDocuments, Ready)
<1> DEFINE part1 == <<Set("document", "invalid"), Browse, See({"blocked"}), Probe("query-string"), Set("document", "open")>>
<1> DEFINE part2 == <<Set("document", "older"), See({"rejected"})>>
<1>1. Plainly(Ready, ResetToCleanState, Ready)
  BY ResetQuiet
<1>2. Plainly(Ready, part1, Ready)
  BY InvalidQuiet
<1>3. Plainly(Ready, InitializeAndGrant, Active)
  BY GrantQuiet
<1>4. Plainly(Active, part2, Lab(Older))
  BY OlderQuiet
<1>5. Plainly(Lab(Older), ResetToCleanState, Ready)
  BY ResetQuiet
<1>6. CheckInvalidDocuments = ResetToCleanState \o part1 \o InitializeAndGrant \o part2 \o ResetToCleanState
  BY DEF CheckInvalidDocuments
<1> HIDE DEF part1, part2
<1>7. Plainly(Ready,
        ResetToCleanState \o part1 \o InitializeAndGrant \o part2 \o ResetToCleanState, Ready)
  BY <1>1, <1>2, <1>3, <1>4, <1>5, QuietOn
<1> QED BY <1>6, <1>7

LEMMA LifecycleQuiet == Plainly(Ready, CheckLifecycle, Ready)
<1> DEFINE part1 == <<Probe("consent-and-shutdown")>>
<1>1. Plainly(Ready, ResetToCleanState, Ready)
  BY ResetQuiet
<1>2. Plainly(Ready, InitializeAndGrant, Ready)
  BY GrantedQuiet
<1>3. Plainly(Ready, part1, Ready)
  BY SteadyScripts, SteadyOpen
<1>4. CheckLifecycle = ResetToCleanState \o InitializeAndGrant \o part1 \o InitializeAndGrant \o ResetToCleanState
  BY DEF CheckLifecycle
<1> HIDE DEF part1
<1>5. Plainly(Ready,
        ResetToCleanState \o InitializeAndGrant \o part1 \o InitializeAndGrant \o ResetToCleanState,
        Ready)
  BY <1>1, <1>2, <1>3, QuietOn
<1> QED BY <1>4, <1>5

LEMMA RuntimeControlQuiet == Fully(Ready, VerifyRuntimeControl, Ready)
<1> DEFINE part1 == <<Probe("gate")>>
<1>1. Fully(Ready, CheckNormalFlow, Ready)
  BY NormalFlowQuiet, QuietLevels
<1>2. Fully(Ready, CheckBrowserKillSwitch, Ready)
  BY BrowserSwitchQuiet, QuietLevels
<1>3. Fully(Ready, CheckProxyKillSwitch, Ready)
  BY ProxySwitchQuiet
<1>4. Fully(Ready, CheckOperatorCommand, Ready)
  BY OperatorCommandQuiet, QuietLevels
<1>5. Fully(Ready, CheckExpiry, Ready)
  BY ExpiryQuiet, QuietLevels
<1>6. Fully(Ready, CheckInvalidDocuments, Ready)
  BY InvalidDocumentsQuiet, QuietLevels
<1>7. Fully(Ready, CheckLifecycle, Ready)
  BY LifecycleQuiet, QuietLevels
<1>8. Fully(Ready, ResetToCleanState, Ready)
  BY ResetQuiet, QuietLevels
<1>9. Fully(Ready, part1, Ready)
  BY SteadyScripts, SteadyOpen, QuietLevels
<1>10. VerifyRuntimeControl = CheckNormalFlow \o CheckBrowserKillSwitch \o CheckProxyKillSwitch \o CheckOperatorCommand \o CheckExpiry \o CheckInvalidDocuments \o CheckLifecycle \o ResetToCleanState \o part1
  BY DEF VerifyRuntimeControl
<1> HIDE DEF part1
<1>11. Fully(Ready,
        CheckNormalFlow \o CheckBrowserKillSwitch \o CheckProxyKillSwitch \o CheckOperatorCommand \o CheckExpiry,
        Ready)
  BY <1>1, <1>2, <1>3, <1>4, <1>5, QuietOn
<1>12. Fully(Ready,
        CheckNormalFlow \o CheckBrowserKillSwitch \o CheckProxyKillSwitch \o CheckOperatorCommand \o CheckExpiry \o CheckInvalidDocuments \o CheckLifecycle \o ResetToCleanState \o part1,
        Ready)
  BY <1>11, <1>6, <1>7, <1>8, <1>9, QuietOn
<1> QED BY <1>10, <1>12

(***************************************************************************)
(* The scripts of the programs: those that pass in a lab that is ready,    *)
(* and those that need empty queues.                                       *)
(***************************************************************************)
ReadyScripts ==
  {Elsewhere, VerifySanitizationLeakage, VerifyCorrelation, VerifyRuntimeControl, VerifySessionMetadata,
   VerifyDurableDelivery, VerifyQueueStoragePrivacy, VerifyServiceScopeIsolation, LabVerify,
   VerifyProxySecurity, VerifyResilience, RunResilienceSoak}
DrainedScripts == {VerifyPreAckRedelivery, VerifyTokenRotation, VerifyRealDurableOutageSoak}

LEMMA ScriptsQuiet ==
  /\ \A s \in ReadyScripts : Fully(Ready, s, Ready)
  /\ \A s \in DrainedScripts : Fully(Drained, s, Ready)
  /\ Fully(Ready, QueueOnlyReset, Drained) /\ \A e \in Edges : Fully(e, FullReset, Ready)
<1>1. /\ Plainly(Ready, Elsewhere, Ready) /\ Plainly(Ready, VerifySessionMetadata, Ready)
  BY SteadyScripts, SteadyOpen
<1>2. /\ Plainly(Ready, VerifySanitizationLeakage, Ready) /\ Plainly(Ready, VerifyCorrelation, Ready)
      /\ Plainly(Ready, VerifyDurableDelivery, Ready) /\ Plainly(Ready, VerifyQueueStoragePrivacy, Ready)
      /\ Plainly(Ready, VerifyServiceScopeIsolation, Ready)
  BY SanitizationQuiet, CorrelationQuiet, DurableDeliveryQuiet, StoragePrivacyQuiet, ServiceScopeQuiet
<1>3. Nestedly(Ready, LabVerify, Ready) /\ Nestedly(Ready, RunResilienceSoak, Ready)
  BY LabVerifyQuiet, ResilienceSoakQuiet
<1>4. /\ Fully(Ready, Elsewhere, Ready) /\ Fully(Ready, VerifySessionMetadata, Ready)
      /\ Fully(Ready, VerifySanitizationLeakage, Ready) /\ Fully(Ready, VerifyCorrelation, Ready)
      /\ Fully(Ready, VerifyDurableDelivery, Ready) /\ Fully(Ready, VerifyQueueStoragePrivacy, Ready)
      /\ Fully(Ready, VerifyServiceScopeIsolation, Ready)
      /\ Fully(Ready, LabVerify, Ready) /\ Fully(Ready, RunResilienceSoak, Ready)
  BY <1>1, <1>2, <1>3, QuietLevels
<1>5. /\ Fully(Ready, VerifyRuntimeControl, Ready) /\ Fully(Ready, VerifyProxySecurity, Ready)
      /\ Fully(Ready, VerifyResilience, Ready)
  BY RuntimeControlQuiet, ProxySecurityQuiet, ResilienceQuiet
<1>6. /\ Fully(Drained, VerifyPreAckRedelivery, Ready) /\ Fully(Drained, VerifyTokenRotation, Ready)
      /\ Fully(Drained, VerifyRealDurableOutageSoak, Ready)
  BY PreAckQuiet, TokenRotationQuiet, RealSoakQuiet, QuietLevels
<1>7. Fully(Ready, QueueOnlyReset, Drained)
  BY QueueResetQuiet, QuietLevels
<1>8. ASSUME NEW e \in Edges
      PROVE  Fully(e, FullReset, Ready)
  BY FullResetQuiet, QuietLevels
<1> QED BY <1>4, <1>5, <1>6, <1>7, <1>8 DEF ReadyScripts, DrainedScripts

(* What they put back, whatever calls fail.                                *)
LEMMA KnownReady == Known(Ready) = Tidy /\ Known(Drained) = Tidy
<1>1. Ready.control = Open /\ Ready.down = {}
  BY LabFields DEF Ready
<1>2. Drained.control = Open /\ Drained.down = {}
  BY DEF Drained, Expect
<1> QED BY <1>1, <1>2 DEF Known, Tidy

LEMMA ScriptsTidy ==
  ASSUME NEW s \in ReadyScripts \cup DrainedScripts \cup {QueueOnlyReset}
  PROVE  s \in Seq(ScriptSteps) /\ Leads(Facts, ScriptTidy, Tidy, s, Tidy)
<1>1. PICK e \in {Ready, Drained}, f \in {Ready, Drained} : Fully(e, s, f)
  BY ScriptsQuiet
<1>2. e \in Expectations /\ f \in Expectations /\ Known(e) = Tidy /\ Known(f) = Tidy
  BY NamedEdges, EdgesAre, KnownReady
<1> QED BY <1>1, <1>2, QuietIsTidy DEF Fully

LEMMA PlainIsTidy ==
  ASSUME NEW s, NEW E, NEW F, Leads(Facts, PlainTidy, E, s, F)
  PROVE  Leads(Facts, ScriptTidy, E, s, F)
<1>1. PlainTidy \subseteq ScriptTidy
  BY DEF ScriptTidy, NestedTidy
<1> QED BY <1>1, LeadsMore

LEMMA TidyPair ==
  ASSUME NEW E \in Facts, NEW F \in Facts, NEW step \in PlainStep, Leaving(E, step, F)
  PROVE  <<E, step, F>> \in PlainTidy
BY DEF PlainTidy

(* What brings and takes the facts of a delivery.                          *)
LEMMA ArrivalsStay ==
  ASSUME NEW step
  PROVE  /\ step.do \notin {"purge", "wipe"} => ~Takes(step, "sent")
         /\ step.do # "publish" => ~Takes(step, "drained")
         /\ step.do \notin {"publish", "wipe"} => ~Takes(step, "there")
BY DEF Takes, Service

LEMMA NothingTidy ==
  ASSUME NEW s \in Seq(PlainStep)
  PROVE  Leads(Facts, PlainTidy, {}, s, {})
<1>1. {} \in Facts
  BY DEF Facts
<1>2. ASSUME NEW i \in 1..Len(s)
      PROVE  <<{}, s[i], {}>> \in PlainTidy
  <2>1. Leaving({}, s[i], {})
    BY DEF Leaving
  <2>2. s[i] \in PlainStep
    OBVIOUS
  <2> QED BY <1>1, <2>1, <2>2, TidyPair
<1> QED BY <1>1, <1>2, LeadsSame

LEMMA FullResetTidy ==
  FullReset \in Seq(ScriptSteps) /\ Leads(Facts, ScriptTidy, {}, FullReset, Tidy)
<1>1. Wipe \in PlainStep /\ Wipe.do = "wipe"
  BY DEF Wipe, PlainStep
<1>2. /\ Await(Service, "thrown") \in PlainStep /\ Await(Service, "thrown").do = "await"
  BY DEF Await, PlainStep, Ending
<1>3. {} \in Facts /\ Tidy \in Facts
  BY DEF Facts, Fact
<1>4. <<{}, Wipe, Tidy>> \in PlainTidy
  BY <1>1, <1>3 DEF PlainTidy, Leaving, Brings
<1>5. <<Tidy, Await(Service, "thrown"), Tidy>> \in PlainTidy
  BY <1>2, <1>3 DEF PlainTidy, Leaving, Takes
<1> DEFINE wait == Await(Service, "thrown")
<1>6. FullReset = <<Wipe>> \o <<wait>>
  BY Pieces DEF FullReset
<1> HIDE DEF wait
<1>7. /\ Leads(Facts, PlainTidy, {}, <<Wipe>>, Tidy) /\ Leads(Facts, PlainTidy, Tidy, <<wait>>, Tidy)
  BY <1>3, <1>4, <1>5, LeadsOne DEF wait
<1>8. <<Wipe>> \in Seq(PlainStep) /\ <<wait>> \in Seq(PlainStep)
  BY <1>1, <1>2 DEF wait
<1>9. Leads(Facts, PlainTidy, {}, FullReset, Tidy)
  BY <1>6, <1>7, <1>8, LeadsOn
<1>10. FullReset \in Seq(ScriptSteps)
  BY <1>6, <1>8, StepLevels
<1> QED BY <1>9, <1>10, PlainIsTidy

(***************************************************************************)
(* The proofs of delivery: queues seen empty, and the batch seen in        *)
(* OpenObserve, or known to have been sent.                                *)
(***************************************************************************)
LEMMA SentPlan ==
  ASSUME NEW s \in Seq(PlainStep), NEW h \in 1..Len(s), s[h] = Publish("first", {"202"}),
         \A i \in 1..Len(s) : i > h => s[i].do \notin {"purge", "wipe"}
  PROVE  Leads(Facts, PlainTidy, {}, s, {"sent"})
<1> DEFINE plan == [i \in 1..(Len(s) + 1) |-> IF i <= h THEN {} ELSE {"sent"}]
<1>1. {} \in Facts /\ {"sent"} \in Facts
  BY DEF Facts, Fact, Arrival
<1>2. plan \in [1..(Len(s) + 1) -> Facts] /\ plan[1] = {} /\ plan[Len(s) + 1] = {"sent"}
  BY <1>1
<1>3. ASSUME NEW i \in 1..Len(s)
      PROVE  <<plan[i], s[i], plan[i + 1]>> \in PlainTidy
  <2>0. s[i] \in PlainStep
    OBVIOUS
  <2>1. CASE i < h
    <3>1. plan[i] = {} /\ plan[i + 1] = {}
      BY <2>1
    <3>2. Leaving({}, s[i], {})
      BY DEF Leaving
    <3> QED BY <1>1, <2>0, <3>1, <3>2, TidyPair
  <2>2. CASE i = h
    <3>1. s[i].do = "publish" /\ s[i].batch = "first" /\ s[i].statuses = {"202"}
      BY <2>2 DEF Publish
    <3>2. Leaving({}, s[i], {"sent"})
      BY <3>1 DEF Leaving, Brings
    <3>3. plan[i] = {} /\ plan[i + 1] = {"sent"}
      BY <2>2
    <3> QED BY <1>1, <2>0, <3>2, <3>3, TidyPair
  <2>3. CASE i > h
    <3>1. s[i].do \notin {"purge", "wipe"}
      BY <2>3
    <3>2. Leaving({"sent"}, s[i], {"sent"})
      BY <3>1, ArrivalsStay DEF Leaving
    <3>3. plan[i] = {"sent"} /\ plan[i + 1] = {"sent"}
      BY <2>3
    <3> QED BY <1>1, <2>0, <3>2, <3>3, TidyPair
  <2> QED BY <2>1, <2>2, <2>3
<1> HIDE DEF plan
<1> QED BY <1>2, <1>3 DEF Leads

LEMMA DeliveredPlan ==
  ASSUME NEW s \in Seq(PlainStep), NEW E \in {{}, {"sent"}}, NEW j \in 1..Len(s), NEW k \in 1..Len(s), j < k,
         s[j] = Depth("drained", "found"),
         s[k] = Count("first") \/ (s[k] = Look("any") /\ E = {"sent"}),
         \A i \in 1..Len(s) : /\ i > j => s[i].do \notin {"publish", "wipe"}
                              /\ E = {"sent"} => s[i].do \notin {"purge", "wipe"}
  PROVE  Leads(Facts, PlainTidy, E, s, {"drained", "there"})
<1> DEFINE between == E \cup {"drained"}
           ends == {"drained", "there"}
           plan == [i \in 1..(Len(s) + 1) |-> IF i <= j THEN E ELSE IF i <= k THEN between ELSE ends]
<1>1. E \in Facts /\ between \in Facts /\ ends \in Facts
  BY DEF Facts, Fact, Arrival
<1>10. "drained" \in between /\ \A c \in ends : c = "drained" \/ c = "there"
  OBVIOUS
<1>2. \A c \in E : c = "sent" /\ E = {"sent"}
  OBVIOUS
<1>3. ASSUME NEW i \in 1..Len(s), i < j
      PROVE  Leaving(E, s[i], E)
  <2>1. E = {"sent"} => s[i].do \notin {"purge", "wipe"}
    OBVIOUS
  <2> QED BY <1>2, <2>1, ArrivalsStay DEF Leaving
<1>4. Leaving(E, s[j], between)
  <2>1. s[j].do = "depth" /\ s[j].is = "drained" /\ s[j].otherwise = "found" /\ ~s[j].blind
    BY DEF Depth
  <2>2. ~Takes(s[j], "sent") /\ Brings(E, s[j], "drained")
    BY <2>1, ArrivalsStay DEF Brings
  <2> QED BY <1>2, <2>2 DEF Leaving
<1>5. ASSUME NEW i \in 1..Len(s), i > j
      PROVE  Leaving(between, s[i], between)
  <2>1. s[i].do \notin {"publish", "wipe"} /\ (E = {"sent"} => s[i].do \notin {"purge", "wipe"})
    BY <1>5
  <2>2. s[i].do # "publish" /\ ~Takes(s[i], "drained")
    BY <2>1, ArrivalsStay
  <2>3. \A c \in E : ~Takes(s[i], c)
    BY <1>2, <2>1, ArrivalsStay
  <2> QED BY <2>2, <2>3 DEF Leaving
<1>6. Leaving(between, s[k], ends)
  <2>1. CASE s[k] = Count("first")
    <3>1. s[k].do = "count" /\ s[k].batch = "first"
      BY <2>1 DEF Count
    <3>2. ~Takes(s[k], "drained") /\ Brings(between, s[k], "there")
      BY <3>1, ArrivalsStay DEF Brings
    <3> HIDE DEF between
    <3> QED BY <3>2, <1>10 DEF Leaving
  <2>2. CASE s[k] = Look("any") /\ E = {"sent"}
    <3>1. s[k].do = "look" /\ {"sent", "drained"} \subseteq between
      BY <2>2 DEF Look
    <3>2. ~Takes(s[k], "drained") /\ Brings(between, s[k], "there")
      BY <3>1, ArrivalsStay DEF Brings
    <3> HIDE DEF between
    <3> QED BY <3>2, <1>10 DEF Leaving
  <2> QED BY <2>1, <2>2
<1>7. ASSUME NEW i \in 1..Len(s), i > k
      PROVE  Leaving(ends, s[i], ends)
  <2>1. s[i].do \notin {"publish", "wipe"} /\ s[i].do # "publish"
    BY <1>7
  <2> QED BY <2>1, ArrivalsStay DEF Leaving
<1>8. plan \in [1..(Len(s) + 1) -> Facts] /\ plan[1] = E /\ plan[Len(s) + 1] = ends
  BY <1>1
<1> HIDE DEF between, ends
<1>9. ASSUME NEW i \in 1..Len(s)
      PROVE  <<plan[i], s[i], plan[i + 1]>> \in PlainTidy
  <2>1. Leaving(plan[i], s[i], plan[i + 1])
    <3>1. CASE i < j
      BY <1>3, <3>1
    <3>2. CASE i = j
      BY <1>4, <3>2
    <3>3. CASE i > j /\ i < k
      BY <1>5, <3>3
    <3>4. CASE i = k
      BY <1>6, <3>4
    <3>5. CASE i > k
      BY <1>7, <3>5
    <3> QED BY <3>1, <3>2, <3>3, <3>4, <3>5
  <2> HIDE DEF plan
  <2>2. i \in 1..(Len(s) + 1) /\ i + 1 \in 1..(Len(s) + 1)
    OBVIOUS
  <2>3. plan[i] \in Facts /\ plan[i + 1] \in Facts /\ s[i] \in PlainStep
    BY <1>8, <2>2
  <2> QED BY <2>1, <2>3, TidyPair
<1> HIDE DEF plan
<1> QED BY <1>8, <1>9 DEF Leads, ends

LEMMA DeliveriesTidy ==
  ASSUME NEW s \in {VerifyQueueStoragePrivacy, VerifyPreAckRedelivery, VerifyRealDurableOutageSoak}
  PROVE  Leads(Facts, ScriptTidy, {}, s, {"drained", "there"})
<1>1. Leads(Facts, PlainTidy, {}, VerifyQueueStoragePrivacy, {"drained", "there"})
  <2> DEFINE before == PurgeQueues \o HeldInItsQueue \o OnTheBrokersVolume
             after == DrainedIntoOpenObserve
  <2>1. before \in Seq(PlainStep)
    BY PurgeQuiet, HeldInItsQueueQuiet, OnTheBrokersVolumeQuiet DEF Plainly
  <2>2. after \in Seq(PlainStep)
    BY DrainedIntoOpenObserveQuiet DEF Plainly
  <2>3. /\ Len(after) = 6 /\ after[2] = Depth("drained", "found") /\ after[5] = Count("first")
        /\ after[3] = Look("any") /\ after[4] = Probe("logs") /\ after[6] = Probe("canaries")
    BY DEF DrainedIntoOpenObserve
  <2>4. /\ Look("any").do = "look" /\ Probe("logs").do = "probe" /\ Probe("canaries").do = "probe"
        /\ Count("first").do = "count"
    BY DEF Look, Probe, Count
  <2> HIDE DEF before, after
  <2>5. \A i \in 1..Len(after) : i > 2 => after[i].do \notin {"publish", "wipe"}
    BY <2>3, <2>4
  <2>6. Leads(Facts, PlainTidy, {}, after, {"drained", "there"})
    <3>1. 2 \in 1..Len(after) /\ 5 \in 1..Len(after) /\ 2 < 5 /\ {} \in {{}, {"sent"}} /\ {} # {"sent"}
      BY <2>3
    <3>2. after[2] = Depth("drained", "found") /\ after[5] = Count("first")
      BY <2>3
    <3> QED BY <2>2, <2>5, <3>1, <3>2, DeliveredPlan
  <2>7. VerifyQueueStoragePrivacy = before \o after
    BY DEF VerifyQueueStoragePrivacy, before, after
  <2> QED BY <2>1, <2>2, <2>6, <2>7, NothingTidy, LeadsOn
<1>2. Leads(Facts, PlainTidy, {}, VerifyPreAckRedelivery, {"drained", "there"})
  <2> DEFINE run == VerifyPreAckRedelivery
  <2>1. run \in Seq(PlainStep)
    BY PreAckQuiet DEF Plainly
  <2>2. /\ Len(run) = 14 /\ run[11] = Depth("drained", "found") /\ run[13] = Count("first")
        /\ run[12] = Probe("redelivery-log") /\ run[14] = Look("drained")
    BY DEF VerifyPreAckRedelivery
  <2>3. Look("drained").do = "look" /\ Probe("redelivery-log").do = "probe" /\ Count("first").do = "count"
    BY DEF Look, Probe, Count
  <2> HIDE DEF run
  <2>4. \A i \in 1..Len(run) : i > 11 => run[i].do \notin {"publish", "wipe"}
    BY <2>2, <2>3
  <2>5. Leads(Facts, PlainTidy, {}, run, {"drained", "there"})
    <3>1. 11 \in 1..Len(run) /\ 13 \in 1..Len(run) /\ 11 < 13 /\ {} \in {{}, {"sent"}} /\ {} # {"sent"}
      BY <2>2
    <3>2. run[11] = Depth("drained", "found") /\ run[13] = Count("first")
      BY <2>2
    <3> QED BY <2>1, <2>4, <3>1, <3>2, DeliveredPlan
  <2> QED BY <2>5 DEF run
<1>3. Leads(Facts, PlainTidy, {}, VerifyRealDurableOutageSoak, {"drained", "there"})
  <2> DEFINE before == SoakOutage
             after == SoakDrain
  <2>1. before \in Seq(PlainStep) /\ after \in Seq(PlainStep)
    BY SoakOutageQuiet, SoakDrainQuiet DEF Plainly
  <2>2. /\ Len(before) = 10 /\ before[8] = Publish("first", {"202"})
        /\ before[9] = Publish("second", {"202"}) /\ before[10] = Look("queued")
    BY DEF SoakOutage
  <2>3. /\ Len(after) = 7 /\ after[1] = Start(OpenObserve) /\ after[2] = Await({"openobserve", "worker"}, "ignored")
        /\ after[3] = Resume /\ after[4] = Depth("drained", "found") /\ after[5] = Look("any")
        /\ after[6] = AwaitAny({"first", "second"}, "found") /\ after[7] = Look("any")
    BY DEF SoakDrain
  <2>4. /\ Publish("second", {"202"}).do = "publish" /\ Look("queued").do = "look" /\ Look("any").do = "look"
        /\ Start(OpenObserve).do = "start" /\ Await({"openobserve", "worker"}, "ignored").do = "await"
        /\ Resume.do = "hold" /\ Depth("drained", "found").do = "depth"
        /\ AwaitAny({"first", "second"}, "found").do = "index"
    BY DEF Publish, Look, Start, Await, Resume, Set, Depth, AwaitAny
  <2> HIDE DEF before, after
  <2>5. \A i \in 1..Len(before) : i > 8 => before[i].do \notin {"purge", "wipe"}
    BY <2>2, <2>4
  <2>6. \A i \in 1..Len(after) : after[i].do \notin {"purge", "wipe", "publish"}
    BY <2>3, <2>4
  <2>7. Leads(Facts, PlainTidy, {}, before, {"sent"})
    <3>1. 8 \in 1..Len(before) /\ before \in Seq(PlainStep)
      BY <2>1, <2>2
    <3>2. before[8] = Publish("first", {"202"})
      BY <2>2
    <3> QED BY <2>5, <3>1, <3>2, SentPlan
  <2>8. Leads(Facts, PlainTidy, {"sent"}, after, {"drained", "there"})
    <3>1. {"sent"} \in {{}, {"sent"}} /\ 4 \in 1..Len(after) /\ 5 \in 1..Len(after) /\ 4 < 5
      BY <2>3
    <3>2. \A i \in 1..Len(after) : /\ i > 4 => after[i].do \notin {"publish", "wipe"}
                                   /\ {"sent"} = {"sent"} => after[i].do \notin {"purge", "wipe"}
      BY <2>6
    <3>3. after[5] = Count("first") \/ (after[5] = Look("any") /\ {"sent"} = {"sent"})
      BY <2>3
    <3> QED BY <2>1, <2>3, <3>1, <3>2, <3>3, DeliveredPlan
  <2>9. VerifyRealDurableOutageSoak = before \o after
    BY DEF VerifyRealDurableOutageSoak, before, after
  <2> QED BY <2>1, <2>7, <2>8, <2>9, LeadsOn
<1> QED BY <1>1, <1>2, <1>3, PlainIsTidy

(***************************************************************************)
(* The programs.  A script that needs empty queues is the first of a gate  *)
(* whose reset purged them, or runs by itself.                             *)
(***************************************************************************)
Deliveries == {"queue-storage-privacy", "pre-ack-redelivery", "real-soak"}
DeliveryScripts == {VerifyQueueStoragePrivacy, VerifyPreAckRedelivery, VerifyRealDurableOutageSoak}

GateOK(p, g) ==
  /\ g.commands \in Seq(ReadyScripts \cup DrainedScripts) /\ Len(g.commands) > 0
  /\ \A i \in 1..Len(g.commands) :
       \/ g.commands[i] \in ReadyScripts
       \/ i = 1 /\ (g.reset \/ p # "chain") /\ g.commands[i] \in DrainedScripts
  /\ g.id \in Deliveries => Len(g.commands) = 1 /\ g.commands[1] \in DeliveryScripts

LEMMA ReadyGate ==
  ASSUME NEW p, NEW g, g.id \notin Deliveries, g.commands \in Seq(ReadyScripts), Len(g.commands) > 0
  PROVE  GateOK(p, g)
<1>1. g.commands \in Seq(ReadyScripts \cup DrainedScripts)
  OBVIOUS
<1>2. \A i \in 1..Len(g.commands) : g.commands[i] \in ReadyScripts
  OBVIOUS
<1> QED BY <1>1, <1>2 DEF GateOK

LEMMA OneScript ==
  ASSUME NEW p, NEW g, NEW s, g.commands = <<s>>,
         s \in ReadyScripts \/ ((g.reset \/ p # "chain") /\ s \in DrainedScripts),
         g.id \in Deliveries => s \in DeliveryScripts
  PROVE  GateOK(p, g)
<1>1. Len(g.commands) = 1 /\ g.commands[1] = s
  OBVIOUS
<1>2. s \in ReadyScripts \cup DrainedScripts
  OBVIOUS
<1>3. g.commands \in Seq(ReadyScripts \cup DrainedScripts)
  BY <1>2
<1>4. \A i \in 1..Len(g.commands) : i = 1
  BY <1>1
<1> QED BY <1>1, <1>3, <1>4 DEF GateOK

LEMMA NamedScripts ==
  /\ {Elsewhere, VerifySanitizationLeakage, VerifyCorrelation, VerifyRuntimeControl, VerifySessionMetadata,
      VerifyDurableDelivery, VerifyQueueStoragePrivacy, VerifyServiceScopeIsolation, LabVerify,
      VerifyProxySecurity, VerifyResilience, RunResilienceSoak} \subseteq ReadyScripts
  /\ {VerifyPreAckRedelivery, VerifyTokenRotation, VerifyRealDurableOutageSoak} \subseteq DrainedScripts
  /\ {VerifyQueueStoragePrivacy, VerifyPreAckRedelivery, VerifyRealDurableOutageSoak} \subseteq DeliveryScripts
BY DEF ReadyScripts, DrainedScripts, DeliveryScripts

(* The gates of the chain, and the programs of one gate.                   *)
LEMMA ChainGates ==
  Len(Gates) = 14 /\ \A g \in 1..14 : GateOK("chain", Gates[g])
<1>0. Len(Gates) = 14
  BY DEF Gates
<1>1. GateOK("chain", Gates[1])
  <2>1. Gates[1] = Gate("streams-functions-pipelines", FALSE, <<Elsewhere, VerifySanitizationLeakage, VerifyCorrelation>>)
    BY DEF Gates
  <2>2. Gates[1].id = "streams-functions-pipelines" /\ Gates[1].commands = <<Elsewhere, VerifySanitizationLeakage, VerifyCorrelation>>
    BY <2>1 DEF Gate
  <2>3. Elsewhere \in ReadyScripts /\ VerifyCorrelation \in ReadyScripts /\ VerifySanitizationLeakage \in ReadyScripts
    BY NamedScripts
  <2>4. Gates[1].commands \in Seq(ReadyScripts) /\ Len(Gates[1].commands) = 3
    BY <2>2, <2>3
  <2>5. Gates[1].id \notin Deliveries /\ Len(Gates[1].commands) > 0
    BY <2>2, <2>4 DEF Deliveries
  <2> QED BY <2>4, <2>5, ReadyGate
<1>2. GateOK("chain", Gates[2])
  <2>1. Gates[2] = Gate("dashboards-alerts", FALSE, <<Elsewhere, Elsewhere, Elsewhere>>)
    BY DEF Gates
  <2>2. Gates[2].id = "dashboards-alerts" /\ Gates[2].commands = <<Elsewhere, Elsewhere, Elsewhere>>
    BY <2>1 DEF Gate
  <2>3. Elsewhere \in ReadyScripts
    BY NamedScripts
  <2>4. Gates[2].commands \in Seq(ReadyScripts) /\ Len(Gates[2].commands) = 3
    BY <2>2, <2>3
  <2>5. Gates[2].id \notin Deliveries /\ Len(Gates[2].commands) > 0
    BY <2>2, <2>4 DEF Deliveries
  <2> QED BY <2>4, <2>5, ReadyGate
<1>3. GateOK("chain", Gates[3])
  <2>1. Gates[3] = Gate("runtime-control", TRUE, <<VerifyRuntimeControl>>)
    BY DEF Gates
  <2>2. Gates[3].id = "runtime-control" /\ Gates[3].commands = <<VerifyRuntimeControl>>
    BY <2>1 DEF Gate
  <2> QED BY <2>2, OneScript, NamedScripts DEF Deliveries
<1>4. GateOK("chain", Gates[4])
  <2>1. Gates[4] = Gate("session-metadata", FALSE, <<VerifySessionMetadata>>)
    BY DEF Gates
  <2>2. Gates[4].id = "session-metadata" /\ Gates[4].commands = <<VerifySessionMetadata>>
    BY <2>1 DEF Gate
  <2> QED BY <2>2, OneScript, NamedScripts DEF Deliveries
<1>5. GateOK("chain", Gates[5])
  <2>1. Gates[5] = Gate("durable-quick", TRUE, <<VerifyDurableDelivery>>)
    BY DEF Gates
  <2>2. Gates[5].id = "durable-quick" /\ Gates[5].commands = <<VerifyDurableDelivery>>
    BY <2>1 DEF Gate
  <2> QED BY <2>2, OneScript, NamedScripts DEF Deliveries
<1>6. GateOK("chain", Gates[6])
  <2>1. Gates[6] = Gate("queue-storage-privacy", TRUE, <<VerifyQueueStoragePrivacy>>)
    BY DEF Gates
  <2>2. Gates[6].id = "queue-storage-privacy" /\ Gates[6].commands = <<VerifyQueueStoragePrivacy>>
    BY <2>1 DEF Gate
  <2> QED BY <2>2, OneScript, NamedScripts DEF Deliveries
<1>7. GateOK("chain", Gates[7])
  <2>1. Gates[7] = Gate("pre-ack-redelivery", TRUE, <<VerifyPreAckRedelivery>>)
    BY DEF Gates
  <2>2. Gates[7].id = "pre-ack-redelivery" /\ Gates[7].commands = <<VerifyPreAckRedelivery>>
    BY <2>1 DEF Gate
  <2>3. Gates[7].reset
    BY <2>1 DEF Gate
  <2> QED BY <2>2, <2>3, OneScript, NamedScripts DEF Deliveries
<1>8. GateOK("chain", Gates[8])
  <2>1. Gates[8] = Gate("backup-restore-upgrade-rollback", FALSE, <<Elsewhere>>)
    BY DEF Gates
  <2>2. Gates[8].id = "backup-restore-upgrade-rollback" /\ Gates[8].commands = <<Elsewhere>>
    BY <2>1 DEF Gate
  <2> QED BY <2>2, OneScript, NamedScripts DEF Deliveries
<1>9. GateOK("chain", Gates[9])
  <2>1. Gates[9] = Gate("token-rotation", TRUE, <<VerifyTokenRotation>>)
    BY DEF Gates
  <2>2. Gates[9].id = "token-rotation" /\ Gates[9].commands = <<VerifyTokenRotation>>
    BY <2>1 DEF Gate
  <2>3. Gates[9].reset
    BY <2>1 DEF Gate
  <2> QED BY <2>2, <2>3, OneScript, NamedScripts DEF Deliveries
<1>10. GateOK("chain", Gates[10])
  <2>1. Gates[10] = Gate("linux-systemd-reference", FALSE, <<Elsewhere>>)
    BY DEF Gates
  <2>2. Gates[10].id = "linux-systemd-reference" /\ Gates[10].commands = <<Elsewhere>>
    BY <2>1 DEF Gate
  <2> QED BY <2>2, OneScript, NamedScripts DEF Deliveries
<1>11. GateOK("chain", Gates[11])
  <2>1. Gates[11] = Gate("flask-jinja-consumer", TRUE, <<Elsewhere>>)
    BY DEF Gates
  <2>2. Gates[11].id = "flask-jinja-consumer" /\ Gates[11].commands = <<Elsewhere>>
    BY <2>1 DEF Gate
  <2> QED BY <2>2, OneScript, NamedScripts DEF Deliveries
<1>12. GateOK("chain", Gates[12])
  <2>1. Gates[12] = Gate("service-scope-isolation", TRUE, <<VerifyServiceScopeIsolation>>)
    BY DEF Gates
  <2>2. Gates[12].id = "service-scope-isolation" /\ Gates[12].commands = <<VerifyServiceScopeIsolation>>
    BY <2>1 DEF Gate
  <2> QED BY <2>2, OneScript, NamedScripts DEF Deliveries
<1>13. GateOK("chain", Gates[13])
  <2>1. Gates[13] = Gate("health-readiness", TRUE, <<LabVerify>>)
    BY DEF Gates
  <2>2. Gates[13].id = "health-readiness" /\ Gates[13].commands = <<LabVerify>>
    BY <2>1 DEF Gate
  <2> QED BY <2>2, OneScript, NamedScripts DEF Deliveries
<1>14. GateOK("chain", Gates[14])
  <2>1. Gates[14] = Gate("security-scan", TRUE, <<Elsewhere, Elsewhere>>)
    BY DEF Gates
  <2>2. Gates[14].id = "security-scan" /\ Gates[14].commands = <<Elsewhere, Elsewhere>>
    BY <2>1 DEF Gate
  <2>3. Elsewhere \in ReadyScripts
    BY NamedScripts
  <2>4. Gates[14].commands \in Seq(ReadyScripts) /\ Len(Gates[14].commands) = 2
    BY <2>2, <2>3
  <2>5. Gates[14].id \notin Deliveries /\ Len(Gates[14].commands) > 0
    BY <2>2, <2>4 DEF Deliveries
  <2> QED BY <2>4, <2>5, ReadyGate
<1>15. \A g \in 1..14 : g \in {1, 2, 3, 4, 5, 6, 7, 8, 9, 10, 11, 12, 13, 14}
  OBVIOUS
<1> QED BY <1>0, <1>1, <1>2, <1>3, <1>4, <1>5, <1>6, <1>7, <1>8, <1>9, <1>10, <1>11, <1>12, <1>13, <1>14, <1>15

ByItself == {"soak", "proxy", "resilience", "resilienceSoak"}

LEMMA SinglePrograms ==
  \A p \in ByItself : Len(Program[p]) = 1 /\ ~Program[p][1].reset /\ GateOK(p, Program[p][1])
<1>1. Len(Program["soak"]) = 1 /\ ~Program["soak"][1].reset /\ GateOK("soak", Program["soak"][1])
  <2>1. Program["soak"] = <<Gate("real-soak", FALSE, <<VerifyRealDurableOutageSoak>>)>>
    BY DEF Program
  <2>2. Len(Program["soak"]) = 1 /\ Program["soak"][1] = Gate("real-soak", FALSE, <<VerifyRealDurableOutageSoak>>)
    BY <2>1
  <2>3. Program["soak"][1].id = "real-soak" /\ Program["soak"][1].commands = <<VerifyRealDurableOutageSoak>> /\ ~Program["soak"][1].reset
    BY <2>2 DEF Gate
  <2>4. GateOK("soak", Program["soak"][1])
    BY <2>3, OneScript, NamedScripts DEF Deliveries
  <2> QED BY <2>2, <2>3, <2>4
<1>2. Len(Program["proxy"]) = 1 /\ ~Program["proxy"][1].reset /\ GateOK("proxy", Program["proxy"][1])
  <2>1. Program["proxy"] = <<Gate("proxy-security", FALSE, <<VerifyProxySecurity>>)>>
    BY DEF Program
  <2>2. Len(Program["proxy"]) = 1 /\ Program["proxy"][1] = Gate("proxy-security", FALSE, <<VerifyProxySecurity>>)
    BY <2>1
  <2>3. Program["proxy"][1].id = "proxy-security" /\ Program["proxy"][1].commands = <<VerifyProxySecurity>> /\ ~Program["proxy"][1].reset
    BY <2>2 DEF Gate
  <2>4. GateOK("proxy", Program["proxy"][1])
    BY <2>3, OneScript, NamedScripts DEF Deliveries
  <2> QED BY <2>2, <2>3, <2>4
<1>3. Len(Program["resilience"]) = 1 /\ ~Program["resilience"][1].reset /\ GateOK("resilience", Program["resilience"][1])
  <2>1. Program["resilience"] = <<Gate("resilience", FALSE, <<VerifyResilience>>)>>
    BY DEF Program
  <2>2. Len(Program["resilience"]) = 1 /\ Program["resilience"][1] = Gate("resilience", FALSE, <<VerifyResilience>>)
    BY <2>1
  <2>3. Program["resilience"][1].id = "resilience" /\ Program["resilience"][1].commands = <<VerifyResilience>> /\ ~Program["resilience"][1].reset
    BY <2>2 DEF Gate
  <2>4. GateOK("resilience", Program["resilience"][1])
    BY <2>3, OneScript, NamedScripts DEF Deliveries
  <2> QED BY <2>2, <2>3, <2>4
<1>4. Len(Program["resilienceSoak"]) = 1 /\ ~Program["resilienceSoak"][1].reset /\ GateOK("resilienceSoak", Program["resilienceSoak"][1])
  <2>1. Program["resilienceSoak"] = <<Gate("resilience-soak", FALSE, <<RunResilienceSoak>>)>>
    BY DEF Program
  <2>2. Len(Program["resilienceSoak"]) = 1 /\ Program["resilienceSoak"][1] = Gate("resilience-soak", FALSE, <<RunResilienceSoak>>)
    BY <2>1
  <2>3. Program["resilienceSoak"][1].id = "resilience-soak" /\ Program["resilienceSoak"][1].commands = <<RunResilienceSoak>> /\ ~Program["resilienceSoak"][1].reset
    BY <2>2 DEF Gate
  <2>4. GateOK("resilienceSoak", Program["resilienceSoak"][1])
    BY <2>3, OneScript, NamedScripts DEF Deliveries
  <2> QED BY <2>2, <2>3, <2>4
<1> QED BY <1>1, <1>2, <1>3, <1>4 DEF ByItself

LEMMA Programs ==
  /\ DOMAIN Program = {"chain"} \cup ByItself /\ Program["chain"] = Gates
  /\ \A p \in DOMAIN Program :
       /\ Len(Program[p]) \in Nat \ {0}
       /\ p # "chain" => Len(Program[p]) = 1 /\ ~Program[p][1].reset
       /\ \A g \in 1..Len(Program[p]) : GateOK(p, Program[p][g])
<1>1. DOMAIN Program = {"chain"} \cup ByItself /\ Program["chain"] = Gates
  BY DEF Program, ByItself
<1>2. \A p \in ByItself : p # "chain"
  BY DEF ByItself
<1>3. ASSUME NEW p \in ByItself
      PROVE  /\ Len(Program[p]) = 1 /\ ~Program[p][1].reset
             /\ \A g \in 1..Len(Program[p]) : GateOK(p, Program[p][g])
  <2>1. Len(Program[p]) = 1 /\ ~Program[p][1].reset /\ GateOK(p, Program[p][1])
    BY SinglePrograms
  <2>2. \A g \in 1..Len(Program[p]) : g = 1
    BY <2>1
  <2> QED BY <2>1, <2>2
<1>4. Len(Program["chain"]) = 14 /\ \A g \in 1..Len(Program["chain"]) : GateOK("chain", Program["chain"][g])
  BY <1>1, ChainGates
<1> QED BY <1>1, <1>2, <1>3, <1>4

(***************************************************************************)
(* The chain.  A command begins in a lab that is open and, where it has to *)
(* be, drained; a gate is the delivery's proof while it runs its script.   *)
(***************************************************************************)
Target == IF gate > 0 /\ ~Finished /\ command = 0 THEN Drained ELSE Ready
Delivering == gate > 0 /\ ~Finished /\ command > 0 /\ Program[program][gate].id \in Deliveries

ProgressOK ==
  /\ program \in DOMAIN Program /\ gate \in 0..Len(Program[program]) + 1
  /\ broken \in BOOLEAN /\ failed \in BOOLEAN
  /\ gate = 0 => program = "chain" /\ command = 0 /\ ~broken /\ ~failed
  /\ gate \in 1..Len(Program[program]) => command \in 0..Len(Program[program][gate].commands)
  /\ Finished => todo = <<>> /\ frames = <<>> /\ ~broken /\ ~found /\ command = 0

TidiesUp == failed \/ broken \/ found \/ Doomed \/ Secured(Tidy)
Delivers == Delivering => found \/ Doomed \/ Secured({"drained", "there"})
Passing == disturbed \/ (~found /\ ~broken /\ ~failed /\ OnTrack(Target))

ChainInv == LabTypeOK /\ CodeOK /\ ProgressOK /\ TidiesUp /\ Delivers /\ Passing

(* A finding stays, and so does a disturbance.                             *)
LEMMA FoundStays ==
  ASSUME found = TRUE, LabMoves \/ ScriptStep
  PROVE  found' = TRUE
<1>1. CASE LabMoves
  BY <1>1 DEF LabMoves
<1>2. CASE EnterBlock \/ LeaveBlock
  BY <1>2 DEF EnterBlock, LeaveBlock
<1>3. ASSUME NEW how, Continues \/ Finds \/ Throws \/ Ends(how)
      PROVE  found' = TRUE
  BY <1>3 DEF Continues, Finds, Throws, Ends
<1> QED BY <1>1, <1>2, <1>3, StepEnds

LEMMA DisturbedStays ==
  ASSUME disturbed, LabMoves \/ ScriptStep
  PROVE  disturbed'
<1>1. CASE LabMoves
  BY <1>1 DEF LabMoves
<1>2. CASE StopContainer \/ StartContainers \/ RecreateContainers \/ RotateCredential \/ WipeLab
           \/ SetControl \/ DeriveHold \/ ReloadProxy \/ OutliveDocument
  BY <1>2 DEF StopContainer, StartContainers, RecreateContainers, RotateCredential, WipeLab,
       SetControl, DeriveHold, ReloadProxy, OutliveDocument
<1>3. CASE PublishBatch \/ PurgeQueue \/ LookAtDepth \/ BrowsePage \/ CountBatch \/ AskOpenObserve
           \/ RunHarness \/ ProbeLab
  BY <1>3 DEF PublishBatch, PurgeQueue, LookAtDepth, BrowsePage, CountBatch, AskOpenObserve,
       RunHarness, ProbeLab
<1>4. CASE EnterBlock \/ LeaveBlock \/ ThrowOn \/ CallFails
  BY <1>4 DEF EnterBlock, LeaveBlock, ThrowOn, CallFails
<1>5. ASSUME NEW condition, NEW how, Waits(condition, how)
      PROVE  disturbed'
  BY <1>5 DEF Waits
<1>6. CASE AwaitContainers \/ WaitForRows \/ SettleHold \/ SeePage
  BY <1>5, <1>6 DEF AwaitContainers, WaitForRows, SettleHold, SeePage
<1>7. CASE WaitForDepth
  BY <1>5, <1>7 DEF WaitForDepth
<1> QED BY <1>1, <1>2, <1>3, <1>4, <1>6, <1>7 DEF ScriptStep

LEMMA DrainedFields ==
  /\ Drained.up = Service /\ Drained.down = {} /\ Drained.control = Open /\ Drained.synced = FALSE
  /\ Drained.none = Batch /\ Drained.main = {} /\ Drained.queued = {} /\ Drained.kept = {}
  /\ Drained.swept = FALSE /\ Drained.page = Pages
BY DEF Drained, Expect

LEMMA ReadyFields ==
  /\ Ready.up = Service /\ Ready.down = {} /\ Ready.control = Open /\ Ready.synced = FALSE
  /\ Ready.none = {} /\ Ready.main = {} /\ Ready.queued = {} /\ Ready.kept = {}
  /\ Ready.swept = FALSE /\ Ready.page = Pages
BY DEF Ready, Lab, Expect

(* Between two commands nobody looks at the page or counts what is indexed.*)
LEMMA BetweenCommands ==
  ASSUME UNCHANGED <<services, control, queue>>, page' \in Pages
  PROVE  /\ Meets(Ready) => Meets(Ready)'
         /\ Meets(Drained) => Meets(Drained)' /\ Meets(Ready)'
<1>1. ASSUME NEW e, e.kept = {}, e.swept = FALSE, e.page = Pages, Meets(e)
      PROVE  Meets(e)'
  <2>1. ServicesMeet(e)' /\ ControlMeets(e)'
    BY <1>1 DEF Meets, ServicesMeet, ControlMeets
  <2>2. QueuesMeet(e)'
    BY <1>1 DEF Meets, QueuesMeet
  <2> QED BY <1>1, <2>1, <2>2 DEF Meets
<1>2. ASSUME Meets(Drained)
      PROVE  Meets(Ready)
  <2>1. ServicesMeet(Ready)
    BY <1>2, DrainedFields, ReadyFields DEF Meets, ServicesMeet
  <2>2. ControlMeets(Ready)
    BY <1>2, DrainedFields, ReadyFields DEF Meets, ControlMeets
  <2>3. QueuesMeet(Ready)
    BY ReadyFields DEF QueuesMeet
  <2>4. page \in Ready.page
    BY <1>2, DrainedFields, ReadyFields DEF Meets
  <2> QED BY <2>1, <2>2, <2>3, <2>4 DEF Meets
<1>3. Meets(Ready) => Meets(Ready)'
  BY <1>1, ReadyFields
<1>4. Meets(Drained) => Meets(Drained)'
  BY <1>1, DrainedFields
<1> QED BY <1>2, <1>3, <1>4

(* Nobody touches the containers and the switches between two commands.    *)
LEMMA TidyStays ==
  ASSUME UNCHANGED <<services, control>>, AllHold(Tidy)
  PROVE  AllHold(Tidy)'
<1>1. \A c \in Tidy : c \notin Arrival
  BY DEF Tidy, Switches, Service, Arrival
<1>2. ASSUME NEW c \in Tidy
      PROVE  Holds(c)'
  <2>1. Holds(c) /\ c # "sent" /\ c # "drained" /\ c # "there"
    BY <1>1 DEF AllHold, Arrival
  <2> QED BY <2>1 DEF Holds
<1> QED BY <1>2 DEF AllHold

(* A script begins.                                                        *)
LEMMA RunsOut ==
  ASSUME NEW s \in ReadyScripts \cup DrainedScripts
  PROVE  /\ s \in Seq(ScriptSteps)
         /\ Proceeds(Facts, ScriptTidy, Facts, Tidy, s, <<>>, Tidy)
         /\ s \in ReadyScripts => Proceeds(Expectations, ScriptQuiet, Edges, Ready, s, <<>>, Ready)
         /\ s \in DrainedScripts => Proceeds(Expectations, ScriptQuiet, Edges, Drained, s, <<>>, Ready)
         /\ s \in DeliveryScripts => Proceeds(Facts, ScriptTidy, Facts, {}, s, <<>>, {"drained", "there"})
<1>1. Tidy \in Facts /\ {} \in Facts /\ {"drained", "there"} \in Facts
  BY DEF Facts, Fact, Arrival
<1>2. s \in Seq(ScriptSteps) /\ Leads(Facts, ScriptTidy, Tidy, s, Tidy)
  BY ScriptsTidy
<1>3. Ready \in Edges /\ Drained \in Edges
  BY NamedEdges
<1>4. ASSUME s \in ReadyScripts
      PROVE  Proceeds(Expectations, ScriptQuiet, Edges, Ready, s, <<>>, Ready)
  <2>1. Leads(Expectations, ScriptQuiet, Ready, s, Ready)
    BY <1>4, ScriptsQuiet DEF Fully
  <2> QED BY <1>3, <2>1, ProceedsAtFirst
<1>5. ASSUME s \in DrainedScripts
      PROVE  Proceeds(Expectations, ScriptQuiet, Edges, Drained, s, <<>>, Ready)
  <2>1. Leads(Expectations, ScriptQuiet, Drained, s, Ready)
    BY <1>5, ScriptsQuiet DEF Fully
  <2> QED BY <1>3, <2>1, ProceedsAtFirst
<1>6. ASSUME s \in DeliveryScripts
      PROVE  Proceeds(Facts, ScriptTidy, Facts, {}, s, <<>>, {"drained", "there"})
  <2>1. Leads(Facts, ScriptTidy, {}, s, {"drained", "there"})
    BY <1>6, DeliveriesTidy DEF DeliveryScripts
  <2> QED BY <1>1, <2>1, ProceedsAtFirst
<1>7. Proceeds(Facts, ScriptTidy, Facts, Tidy, s, <<>>, Tidy)
  BY <1>1, <1>2, ProceedsAtFirst
<1> QED BY <1>2, <1>4, <1>5, <1>6, <1>7

LEMMA BeginsScript ==
  ASSUME NEW s \in ReadyScripts \cup DrainedScripts, todo' = s, frames' = <<>>
  PROVE  /\ AllHold(Tidy)' => Secured(Tidy)'
         /\ Meets(Ready)' /\ (s \in ReadyScripts \/ Meets(Drained)') => OnTrack(Ready)'
         /\ s \in DeliveryScripts => Secured({"drained", "there"})'
<1>1. Tidy \in Facts /\ {} \in Facts
  BY DEF Facts, Fact
<1>2. Ready \in Expectations /\ Drained \in Expectations
  BY NamedEdges, EdgesAre
<1>3. ASSUME AllHold(Tidy)'
      PROVE  Secured(Tidy)'
  BY <1>1, <1>3, RunsOut DEF Secured
<1>4. ASSUME s \in DeliveryScripts
      PROVE  Secured({"drained", "there"})'
  <2>1. AllHold({})'
    BY DEF AllHold
  <2> QED BY <1>1, <1>4, <2>1, RunsOut DEF Secured
<1>5. ASSUME s \in ReadyScripts, Meets(Ready)'
      PROVE  OnTrack(Ready)'
  BY <1>2, <1>5, RunsOut DEF OnTrack
<1>6. ASSUME s \in DrainedScripts, Meets(Drained)'
      PROVE  OnTrack(Ready)'
  BY <1>2, <1>6, RunsOut DEF OnTrack
<1> QED BY <1>3, <1>4, <1>5, <1>6

(* The queues are purged before a gate.                                    *)
LEMMA BeginsReset ==
  ASSUME todo' = QueueOnlyReset, frames' = <<>>
  PROVE  /\ QueueOnlyReset \in Seq(ScriptSteps)
         /\ AllHold(Tidy)' => Secured(Tidy)'
         /\ Meets(Ready)' => OnTrack(Drained)'
<1>1. Tidy \in Facts /\ Ready \in Edges /\ Drained \in Edges /\ Ready \in Expectations
  BY NamedEdges, EdgesAre DEF Facts, Fact
<1>2. QueueOnlyReset \in Seq(ScriptSteps) /\ Leads(Facts, ScriptTidy, Tidy, QueueOnlyReset, Tidy)
  BY ScriptsTidy
<1>3. Leads(Expectations, ScriptQuiet, Ready, QueueOnlyReset, Drained)
  BY ScriptsQuiet DEF Fully
<1>4. Proceeds(Facts, ScriptTidy, Facts, Tidy, QueueOnlyReset, <<>>, Tidy)
  BY <1>1, <1>2, ProceedsAtFirst
<1>5. Proceeds(Expectations, ScriptQuiet, Edges, Ready, QueueOnlyReset, <<>>, Drained)
  BY <1>1, <1>3, ProceedsAtFirst
<1>6. AllHold(Tidy)' => Secured(Tidy)'
  BY <1>1, <1>4 DEF Secured
<1>7. Meets(Ready)' => OnTrack(Drained)'
  BY <1>1, <1>5 DEF OnTrack
<1> QED BY <1>2, <1>6, <1>7

(* No script is left to run.                                               *)
LEMMA BeginsNothing ==
  ASSUME todo' = <<>>, frames' = <<>>
  PROVE  (AllHold(Tidy)' => Secured(Tidy)') /\ (Meets(Ready)' => OnTrack(Ready)')
<1>1. Tidy \in Facts /\ Ready \in Edges /\ Ready \in Expectations
  BY NamedEdges, EdgesAre DEF Facts, Fact
<1>2. Leads(Facts, ScriptTidy, Tidy, <<>>, Tidy) /\ Leads(Expectations, ScriptQuiet, Ready, <<>>, Ready)
  BY <1>1, LeadsNowhere
<1>3. Proceeds(Facts, ScriptTidy, Facts, Tidy, <<>>, <<>>, Tidy)
  BY <1>1, <1>2, ProceedsAtFirst
<1>4. Proceeds(Expectations, ScriptQuiet, Edges, Ready, <<>>, <<>>, Ready)
  BY <1>1, <1>2, ProceedsAtFirst
<1>5. AllHold(Tidy)' => Secured(Tidy)'
  BY <1>1, <1>3 DEF Secured
<1>6. Meets(Ready)' => OnTrack(Ready)'
  BY <1>1, <1>4 DEF OnTrack
<1> QED BY <1>5, <1>6

(* A command has ended: what its script was to reach is reached.           *)
LEMMA CommandDone ==
  ASSUME todo = <<>>, frames = <<>>
  PROVE  /\ ~Doomed /\ \A goal \in Facts : Secured(goal) => AllHold(goal)
         /\ \A goal \in Edges : OnTrack(goal) => Meets(goal)
<1>1. ~Doomed
  BY DEF Doomed
<1>2. ASSUME NEW goal \in Facts, Secured(goal)
      PROVE  AllHold(goal)
  <2>1. PICK E \in Facts : AllHold(E) /\ Proceeds(Facts, ScriptTidy, Facts, E, <<>>, <<>>, goal)
    BY <1>2 DEF Secured
  <2>2. E = goal
    BY <2>1, ProceedsToEnd
  <2> QED BY <2>1, <2>2
<1>3. ASSUME NEW goal \in Edges, OnTrack(goal)
      PROVE  Meets(goal)
  <2>1. PICK e \in Expectations : Meets(e) /\ Proceeds(Expectations, ScriptQuiet, Edges, e, <<>>, <<>>, goal)
    BY <1>3 DEF OnTrack
  <2>2. e = goal
    BY <2>1, ProceedsToEnd
  <2> QED BY <2>1, <2>2
<1> QED BY <1>1, <1>2, <1>3

(* The lab moves, or the script takes a step.                              *)
LEMMA ChainMoves ==
  ASSUME ChainInv, LabMoves \/ ScriptStep, ~Finished, UNCHANGED <<program, gate, command, broken, failed>>
  PROVE  ChainInv'
<1>1. LabTypeOK' /\ CodeOK'
  BY CodeKept, MovesKeepTypes, StepsKeepTypes DEF ChainInv
<1>2. /\ Finished' = Finished /\ Delivering' = Delivering /\ Target' = Target
  BY DEF Finished, Delivering, Target
<1>3. ProgressOK'
  BY <1>2 DEF ChainInv, ProgressOK
<1>4. found = TRUE => found' = TRUE
  BY FoundStays
<1>5. ASSUME Doomed
      PROVE  found' = TRUE \/ Doomed'
  <2>1. CASE LabMoves
    <3>1. UNCHANGED <<todo, frames>>
      BY <2>1 DEF LabMoves
    <3> QED BY <1>5, <3>1 DEF Doomed
  <2>2. CASE ScriptStep
    BY <1>5, <2>2, DoomedStays DEF ChainInv
  <2> QED BY <2>1, <2>2
<1>6. Tidy \in Facts /\ {"drained", "there"} \in Facts
  BY DEF Facts, Fact, Arrival
<1>7. ASSUME NEW goal \in Facts, found \/ Doomed \/ Secured(goal)
      PROVE  found' \/ Doomed' \/ Secured(goal)'
  <2>1. found \in BOOLEAN /\ found' \in BOOLEAN
    BY <1>1 DEF ChainInv, LabTypeOK
  <2>2. CASE found
    BY <1>4, <2>1, <2>2
  <2>3. CASE Doomed
    BY <1>5, <2>1, <2>3
  <2>4. CASE Secured(goal)
    <3>1. found' = TRUE \/ Doomed' \/ Secured(goal)'
      BY <2>4, SecuredStep DEF ChainInv
    <3> QED BY <2>1, <3>1
  <2> QED BY <1>7, <2>2, <2>3, <2>4
<1>8. TidiesUp'
  BY <1>6, <1>7 DEF ChainInv, TidiesUp
<1>9. Delivers'
  BY <1>2, <1>6, <1>7 DEF ChainInv, Delivers
<1>10. ASSUME ~disturbed'
       PROVE  ~found' /\ ~broken' /\ ~failed' /\ OnTrack(Target)'
  <2>1. ~disturbed
    BY <1>10, DisturbedStays
  <2>2. ~found /\ ~broken /\ ~failed /\ OnTrack(Target)
    BY <2>1 DEF ChainInv, Passing
  <2>3. ASSUME NEW goal, OnTrack(goal)
        PROVE  OnTrack(goal)' /\ UNCHANGED found
    BY <1>10, <2>3, OnTrackStep DEF ChainInv
  <2>4. Target \in {Ready, Drained}
    BY DEF Target
  <2>5. CASE Target = Ready
    <3>1. OnTrack(Ready)' /\ UNCHANGED found
      BY <2>2, <2>3, <2>5
    <3>2. Target' = Ready
      BY <1>2, <2>5
    <3> QED BY <2>2, <3>1, <3>2 DEF OnTrack
  <2>6. CASE Target = Drained
    <3>1. OnTrack(Drained)' /\ UNCHANGED found
      BY <2>2, <2>3, <2>6
    <3>2. Target' = Drained
      BY <1>2, <2>6
    <3> QED BY <2>2, <3>1, <3>2 DEF OnTrack
  <2> QED BY <2>4, <2>5, <2>6
<1>11. Passing'
  BY <1>10 DEF Passing
<1> QED BY <1>1, <1>3, <1>8, <1>9, <1>11 DEF ChainInv

(* The next gate, or the end.                                              *)
LEMMA OpensGate ==
  ASSUME ChainInv, NEW g \in 1..Len(Program[program]) + 1, OpenGate(g), g > 1 \/ program = "chain",
         found' = FALSE, frames = <<>>, failed' \in BOOLEAN,
         failed' \/ AllHold(Tidy), disturbed \/ (~failed' /\ (Meets(Ready) \/ Meets(Drained))),
         UNCHANGED <<program, services, control, queue, frames, faults, disturbed>>
  PROVE  ChainInv'
<1>1. /\ program \in DOMAIN Program /\ Len(Program[program]) \in Nat \ {0}
      /\ program # "chain" => Len(Program[program]) = 1
      /\ \A h \in 1..Len(Program[program]) : GateOK(program, Program[program][h])
  BY Programs DEF ChainInv, ProgressOK
<1>2. /\ gate' = g /\ indexed' = {} /\ page' = "none" /\ page' \in Pages /\ broken' = FALSE /\ frames' = <<>>
      /\ program' = program /\ Program[program'] = Program[program]
  BY DEF OpenGate, Pages
<1>3. LabTypeOK'
  BY <1>2 DEF ChainInv, LabTypeOK
<1>9. /\ program' \in DOMAIN Program /\ gate' \in 0..Len(Program[program']) + 1 /\ gate' # 0
      /\ broken' \in BOOLEAN /\ failed' \in BOOLEAN
  <2>1. program' \in DOMAIN Program /\ gate' = g /\ Len(Program[program']) = Len(Program[program])
    BY <1>1, <1>2
  <2>2. g \in 0..Len(Program[program]) + 1 /\ g # 0
    BY <1>1
  <2>3. gate' \in 0..Len(Program[program']) + 1 /\ gate' # 0
    BY <2>1, <2>2
  <2>4. broken' \in BOOLEAN
    BY <1>2, Zenon
  <2> QED BY <2>1, <2>3, <2>4
<1>4. failed' \/ AllHold(Tidy)'
  BY TidyStays
<1>5. disturbed \/ (~failed' /\ Meets(Ready)')
  BY <1>2, BetweenCommands
<1>6. CASE g > Len(Program[program])
  <2>1. command' = 0 /\ todo' = <<>> /\ Finished'
    BY <1>2, <1>6 DEF OpenGate, Finished
  <2>2. CodeOK'
    BY <1>2, <2>1 DEF CodeOK
  <2>3. ProgressOK'
    <3>1. gate' \notin 1..Len(Program[program'])
      BY <1>1, <1>2, <1>6
    <3>2. todo' = <<>> /\ frames' = <<>> /\ ~broken' /\ ~found' /\ command' = 0
      BY <1>2, <2>1
    <3> QED BY <1>9, <3>1, <3>2 DEF ProgressOK
  <2>4. TidiesUp'
    BY <1>2, <1>4, <2>1, BeginsNothing DEF TidiesUp
  <2>5. Delivers' /\ Target' = Ready
    BY <2>1 DEF Delivers, Delivering, Target
  <2>6. Passing'
    <3>1. disturbed \/ OnTrack(Ready)'
      BY <1>2, <1>5, <2>1, BeginsNothing
    <3> QED BY <1>2, <1>5, <2>5, <3>1 DEF Passing, OnTrack
  <2> QED BY <1>3, <2>2, <2>3, <2>4, <2>5, <2>6 DEF ChainInv
<1>7. CASE g \in 1..Len(Program[program]) /\ Program[program][g].reset
  <2>1. command' = 0 /\ todo' = QueueOnlyReset /\ ~Finished'
    BY <1>1, <1>2, <1>7 DEF OpenGate, Finished
  <2>2. CodeOK'
    BY <1>2, <2>1, BeginsReset DEF CodeOK
  <2>3. ProgressOK'
    <3>1. Len(Program[program][g].commands) \in Nat
      BY <1>1, <1>7 DEF GateOK
    <3>2. command' \in 0..Len(Program[program'][gate'].commands)
      BY <1>2, <2>1, <3>1
    <3> QED BY <1>9, <2>1, <3>2 DEF ProgressOK
  <2>4. TidiesUp'
    BY <1>2, <1>4, <2>1, BeginsReset DEF TidiesUp
  <2>5. Delivers' /\ Target' = Drained
    BY <1>2, <1>7, <2>1 DEF Delivers, Delivering, Target
  <2>6. Passing'
    <3>1. disturbed \/ OnTrack(Drained)'
      BY <1>2, <1>5, <2>1, BeginsReset
    <3> QED BY <1>2, <1>5, <2>5, <3>1 DEF Passing, OnTrack
  <2> QED BY <1>3, <2>2, <2>3, <2>4, <2>5, <2>6 DEF ChainInv
<1>8. CASE g \in 1..Len(Program[program]) /\ ~Program[program][g].reset
  <2> DEFINE s == Program[program][g].commands[1]
  <2>1. command' = 1 /\ todo' = s /\ ~Finished'
    BY <1>1, <1>2, <1>8 DEF OpenGate, Finished
  <2>2. program = "chain"
    BY <1>1, <1>8
  <2>3. /\ Len(Program[program][g].commands) \in Nat \ {0} /\ s \in ReadyScripts
        /\ Program[program][g].id \in Deliveries => s \in DeliveryScripts
    <3>1. GateOK(program, Program[program][g])
      BY <1>1, <1>8
    <3>2. Len(Program[program][g].commands) \in Nat \ {0}
      BY <3>1 DEF GateOK
    <3>3. 1 \in 1..Len(Program[program][g].commands)
      BY <3>2
    <3> QED BY <1>8, <2>2, <3>1, <3>2, <3>3 DEF GateOK
  <2> HIDE DEF s
  <2>4. CodeOK'
    BY <1>2, <2>1, <2>3, RunsOut DEF CodeOK
  <2>5. ProgressOK'
    <3>1. command' \in 0..Len(Program[program'][gate'].commands)
      BY <1>2, <2>1, <2>3
    <3> QED BY <1>9, <2>1, <3>1 DEF ProgressOK
  <2>6. TidiesUp'
    BY <1>2, <1>4, <2>1, <2>3, BeginsScript DEF TidiesUp
  <2>7. Delivers'
    <3>1. Delivering' => s \in DeliveryScripts
      BY <1>2, <2>3 DEF Delivering
    <3> QED BY <1>2, <2>1, <2>3, <3>1, BeginsScript DEF Delivers
  <2>8. Target' = Ready
    BY <2>1 DEF Target
  <2>9. Passing'
    <3>1. disturbed \/ OnTrack(Ready)'
      BY <1>2, <1>5, <2>1, <2>3, BeginsScript
    <3> QED BY <1>2, <1>5, <2>8, <3>1 DEF Passing, OnTrack
  <2> QED BY <1>3, <2>4, <2>5, <2>6, <2>7, <2>9 DEF ChainInv
<1> QED BY <1>1, <1>6, <1>7, <1>8

(* The next command of the gate.                                           *)
LEMMA RunsCommand ==
  ASSUME ChainInv, gate \in 1..Len(Program[program]), NEW k \in 1..Len(Program[program][gate].commands),
         command' = k, todo' = Program[program][gate].commands[k],
         found' = FALSE, frames = <<>>, broken' \in BOOLEAN,
         failed \/ broken' \/ AllHold(Tidy),
         disturbed \/ (~broken' /\ ~failed /\ ((k > 1 /\ Meets(Ready)) \/ Meets(Drained))),
         UNCHANGED <<gate, failed, indexed, page>>,
         UNCHANGED <<program, services, control, queue, frames, faults, disturbed>>
  PROVE  ChainInv'
<1> DEFINE s == Program[program][gate].commands[k]
<1>1. /\ program \in DOMAIN Program /\ Len(Program[program]) \in Nat \ {0}
      /\ GateOK(program, Program[program][gate]) /\ program' = program /\ gate' = gate
  BY Programs DEF ChainInv, ProgressOK
<1>2. /\ Len(Program[program][gate].commands) \in Nat \ {0}
      /\ s \in ReadyScripts \/ (k = 1 /\ s \in DrainedScripts)
      /\ Program[program][gate].id \in Deliveries => s \in DeliveryScripts
  <2>1. Len(Program[program][gate].commands) \in Nat \ {0}
    BY <1>1 DEF GateOK
  <2>2. s \in ReadyScripts \/ (k = 1 /\ s \in DrainedScripts)
    BY <1>1 DEF GateOK
  <2>3. ASSUME Program[program][gate].id \in Deliveries
        PROVE  s \in DeliveryScripts
    <3>1. k = 1
      BY <1>1, <2>1, <2>3 DEF GateOK
    <3> QED BY <1>1, <2>3, <3>1 DEF GateOK
  <2> QED BY <2>1, <2>2, <2>3
<1>3. todo' = s /\ frames' = <<>> /\ page' \in Pages
  BY DEF ChainInv, LabTypeOK
<1> HIDE DEF s
<1>4. LabTypeOK' /\ CodeOK'
  <2>1. LabTypeOK'
    BY DEF ChainInv, LabTypeOK
  <2> QED BY <1>2, <1>3, <2>1, RunsOut DEF CodeOK
<1>5. ~Finished' /\ Target' = Ready /\ (Delivering' => s \in DeliveryScripts)
  BY <1>1, <1>2 DEF Finished, Target, Delivering
<1>6. ProgressOK'
  <2>1. gate \in 0..Len(Program[program]) + 1 /\ gate # 0
    BY <1>1
  <2>2. command' \in 0..Len(Program[program][gate].commands)
    BY <1>2
  <2>3. failed \in BOOLEAN
    BY DEF ChainInv, ProgressOK
  <2> QED BY <1>1, <1>5, <2>1, <2>2, <2>3 DEF ProgressOK
<1>7. TidiesUp'
  <2>1. failed' \/ broken' \/ AllHold(Tidy)'
    BY TidyStays
  <2> QED BY <1>2, <1>3, <2>1, BeginsScript DEF TidiesUp
<1>8. Delivers'
  BY <1>2, <1>3, <1>5, BeginsScript DEF Delivers
<1>9. Passing'
  <2>1. disturbed \/ (Meets(Ready)' /\ (s \in ReadyScripts \/ Meets(Drained)'))
    BY <1>2, <1>3, BetweenCommands
  <2>2. disturbed \/ OnTrack(Ready)'
    BY <1>2, <1>3, <2>1, BeginsScript
  <2> QED BY <1>5, <2>2 DEF Passing, OnTrack
<1> QED BY <1>4, <1>6, <1>7, <1>8, <1>9 DEF ChainInv

(* What is known when a command has ended.                                 *)
LEMMA AtTheEnd ==
  ASSUME ChainInv, CommandEnded
  PROVE  /\ failed \/ broken \/ found \/ AllHold(Tidy)
         /\ Delivering /\ ~found => AllHold({"drained", "there"})
         /\ disturbed \/ (~found /\ ~broken /\ ~failed /\ Meets(Target))
<1>1. todo = <<>> /\ frames = <<>>
  BY DEF CommandEnded
<1>2. Tidy \in Facts /\ {"drained", "there"} \in Facts
  BY DEF Facts, Fact, Arrival
<1>3. failed \/ broken \/ found \/ AllHold(Tidy)
  BY <1>1, <1>2, CommandDone DEF ChainInv, TidiesUp
<1>4. Delivering /\ ~found => AllHold({"drained", "there"})
  BY <1>1, <1>2, CommandDone DEF ChainInv, Delivers
<1>5. Target \in Edges
  BY NamedEdges DEF Target
<1>6. disturbed \/ (~found /\ ~broken /\ ~failed /\ Meets(Target))
  BY <1>1, <1>5, CommandDone DEF ChainInv, Passing
<1> QED BY <1>3, <1>4, <1>6

(* Whichever command ends, the next one begins as it has to.               *)
LEMMA CommandsEnd ==
  ASSUME ChainInv, FullResetEnds \/ QueueResetEnds \/ CommandEnds, found' = FALSE,
         UNCHANGED <<program, services, control, queue, frames, faults, disturbed>>
  PROVE  ChainInv'
<1>1. /\ program \in DOMAIN Program /\ Len(Program[program]) \in Nat \ {0} /\ gate \in 0..Len(Program[program]) + 1
      /\ \A h \in 1..Len(Program[program]) : GateOK(program, Program[program][h])
      /\ found \in BOOLEAN /\ broken \in BOOLEAN /\ failed \in BOOLEAN
      /\ gate = 0 => program = "chain" /\ command = 0 /\ ~broken /\ ~failed
      /\ gate \in 1..Len(Program[program]) => command \in 0..Len(Program[program][gate].commands)
  BY Programs DEF ChainInv, ProgressOK, LabTypeOK
<1>2. /\ CommandEnded /\ ~Finished /\ frames = <<>>
      /\ failed \/ broken \/ found \/ AllHold(Tidy)
      /\ disturbed \/ (~found /\ ~broken /\ ~failed /\ Meets(Target))
  BY AtTheEnd DEF FullResetEnds, QueueResetEnds, CommandEnds, CommandEnded
<1>3. gate \in 0..Len(Program[program])
  BY <1>1, <1>2 DEF Finished
<1>4. ASSUME FullResetEnds
      PROVE  ChainInv'
  <2>1. gate = 0 /\ program = "chain" /\ ~broken /\ ~failed /\ failed' = found /\ Target = Ready
    BY <1>1, <1>4 DEF FullResetEnds, Target
  <2>2. CASE found
    <3>1. OpenGate(Len(Program[program]) + 1) /\ Len(Program[program]) + 1 \in 1..Len(Program[program]) + 1
      BY <1>1, <1>4, <2>1, <2>2, Programs DEF FullResetEnds
    <3> QED BY <1>1, <1>2, <2>1, <2>2, <3>1, OpensGate
  <2>3. CASE ~found
    <3>1. OpenGate(1) /\ 1 \in 1..Len(Program[program]) + 1
      BY <1>1, <1>4, <2>3 DEF FullResetEnds
    <3> QED BY <1>1, <1>2, <2>1, <2>3, <3>1, OpensGate
  <2> QED BY <2>2, <2>3
<1>5. ASSUME QueueResetEnds
      PROVE  ChainInv'
  <2>1. gate \in 1..Len(Program[program]) /\ command = 0 /\ Target = Drained
    BY <1>1, <1>2, <1>3, <1>5 DEF QueueResetEnds, Target
  <2>2. CASE found
    <3>1. OpenGate(gate + 1) /\ failed' = TRUE /\ gate + 1 \in 1..Len(Program[program]) + 1 /\ gate + 1 > 1
      BY <1>1, <1>5, <2>1, <2>2 DEF QueueResetEnds
    <3> QED BY <1>1, <1>2, <2>1, <2>2, <3>1, OpensGate
  <2>3. CASE ~found
    <3>1. /\ command' = 1 /\ todo' = Program[program][gate].commands[1]
          /\ UNCHANGED <<gate, broken, failed, indexed, page>>
      BY <1>5, <2>3 DEF QueueResetEnds
    <3>2. 1 \in 1..Len(Program[program][gate].commands)
      BY <1>1, <2>1 DEF GateOK
    <3> QED BY <1>1, <1>2, <2>1, <2>3, <3>1, <3>2, RunsCommand
  <2> QED BY <2>2, <2>3
<1>6. ASSUME CommandEnds
      PROVE  ChainInv'
  <2> DEFINE series == Program[program][gate].commands
  <2>1. gate \in 1..Len(Program[program]) /\ command > 0 /\ Target = Ready
    BY <1>1, <1>2, <1>3, <1>6 DEF CommandEnds, Target
  <2>2. Len(series) \in Nat \ {0} /\ command \in 1..Len(series)
    BY <1>1, <2>1 DEF GateOK
  <2>3. CASE command < Len(series)
    <3>1. /\ command' = command + 1 /\ todo' = series[command + 1] /\ UNCHANGED <<gate, failed, indexed, page>>
      BY <1>6, <2>3 DEF CommandEnds
    <3>2. broken' = (broken \/ found)
      BY <1>6, <2>3, Zenon DEF CommandEnds
    <3>3. command + 1 \in 1..Len(series) /\ command + 1 > 1
      BY <2>2, <2>3
    <3> QED BY <1>1, <1>2, <2>1, <3>1, <3>2, <3>3, RunsCommand
  <2>4. CASE ~(command < Len(series))
    <3>1. OpenGate(gate + 1)
      BY <1>6, <2>4 DEF CommandEnds
    <3>2. failed' = (failed \/ broken \/ found)
      BY <1>6, <2>4, Zenon DEF CommandEnds
    <3>3. gate + 1 \in 1..Len(Program[program]) + 1 /\ gate + 1 > 1
      BY <1>1, <2>1
    <3> QED BY <1>1, <1>2, <2>1, <3>1, <3>2, <3>3, OpensGate
  <2> QED BY <2>3, <2>4
<1> QED BY <1>4, <1>5, <1>6

(* The chain is begun in any lab that has its containers, every other      *)
(* program in one that is open and drained.                                *)
LEMMA ChainBegins ==
  ASSUME ChainInit
  PROVE  ChainInv
<1>1. /\ program \in DOMAIN Program /\ Len(Program[program]) \in Nat \ {0}
      /\ program # "chain" => Len(Program[program]) = 1 /\ ~Program[program][1].reset
      /\ \A h \in 1..Len(Program[program]) : GateOK(program, Program[program][h])
  BY Programs DEF ChainInit
<1>2. control \in Controls /\ control.held = control.hold
  <2>1. Open \in Controls /\ Open.hold = FALSE /\ Open.held = FALSE
    BY Switchboard
  <2> DEFINE shut == [Open EXCEPT !.hold = TRUE, !.held = TRUE, !.document = "kill",
                                  !.scoped = TRUE, !.gate = TRUE, !.closed = TRUE]
  <2>2. shut \in Controls /\ shut.hold = TRUE /\ shut.held = TRUE
    BY DEF Open, Controls, Document
  <2>3. control = Open \/ control = shut
    BY DEF ChainInit
  <2> HIDE DEF shut
  <2> QED BY <2>1, <2>2, <2>3
<1>3. LabTypeOK
  <2>1. services \in [Service -> {"up", "starting", "down"}] /\ queue \in [Batch -> Place]
    BY DEF ChainInit, Place
  <2>2. faults \in 0..FaultBudget
    BY FaultAssumption DEF ChainInit
  <2>3. indexed \subseteq Batch /\ page \in Pages
    BY DEF ChainInit, Pages
  <2>4. found \in BOOLEAN /\ disturbed \in BOOLEAN
    BY Zenon DEF ChainInit
  <2> QED BY <1>2, <2>1, <2>2, <2>3, <2>4 DEF LabTypeOK
<1>4. \A c \in Service : services[c] = "up"
  BY DEF ChainInit
<1>5. ASSUME NEW e, e.up = Service, e.down = {}, e.control = control, e.swept = FALSE, e.page = Pages,
             e.main = {}, e.queued = {}, e.kept = {}, \A b \in e.none : queue[b] = "none"
      PROVE  Meets(e)
  <2>1. ServicesMeet(e)
    BY <1>4, <1>5 DEF ServicesMeet
  <2>2. ControlMeets(e)
    BY <1>2, <1>5 DEF ControlMeets
  <2>3. QueuesMeet(e)
    BY <1>5 DEF QueuesMeet
  <2>4. page \in e.page
    BY <1>3, <1>5 DEF LabTypeOK
  <2> QED BY <2>1, <2>2, <2>3, <2>4 DEF Meets
<1>6. /\ frames = <<>> /\ found = FALSE /\ disturbed = FALSE /\ broken = FALSE /\ failed = FALSE
      /\ frames \in Seq(Frames(ScriptSteps))
  BY DEF ChainInit
<1>7. broken \in BOOLEAN /\ failed \in BOOLEAN
  BY <1>6, Zenon
<1>8. CASE program = "chain"
  <2>1. gate = 0 /\ command = 0 /\ todo = FullReset /\ ~Finished /\ Target = Ready /\ ~Delivering
    BY <1>1, <1>8 DEF ChainInit, Finished, Target, Delivering
  <2>2. CodeOK
    BY <1>6, <2>1, FullResetTidy DEF CodeOK
  <2>3. ProgressOK
    BY <1>1, <1>6, <1>7, <1>8, <2>1 DEF ProgressOK
  <2>4. Secured(Tidy)
    <3>1. {} \in Facts /\ Tidy \in Facts /\ AllHold({})
      BY DEF Facts, Fact, AllHold
    <3>2. Proceeds(Facts, ScriptTidy, Facts, {}, FullReset, <<>>, Tidy)
      BY <3>1, FullResetTidy, ProceedsAtFirst
    <3> QED BY <1>6, <2>1, <3>1, <3>2 DEF Secured
  <2>5. OnTrack(Ready)
    <3>1. Lab(control) \in Edges /\ Lab(control) \in Expectations /\ Ready \in Edges
      BY <1>2, NamedEdges, EdgesAre
    <3>2. Meets(Lab(control))
      <4>1. Lab(control).swept = FALSE
        BY DEF Lab, Expect
      <4> QED BY <1>5, <4>1, LabFields
    <3>3. Leads(Expectations, ScriptQuiet, Lab(control), FullReset, Ready)
      BY <3>1, ScriptsQuiet DEF Fully
    <3>4. Proceeds(Expectations, ScriptQuiet, Edges, Lab(control), FullReset, <<>>, Ready)
      BY <3>1, <3>3, ProceedsAtFirst
    <3> QED BY <1>6, <2>1, <3>1, <3>2, <3>4 DEF OnTrack
  <2> QED BY <1>3, <1>6, <2>1, <2>2, <2>3, <2>4, <2>5 DEF ChainInv, TidiesUp, Delivers, Passing
<1>9. CASE program # "chain"
  <2> DEFINE s == Program[program][1].commands[1]
  <2>1. gate = 1 /\ command = 1 /\ todo = s /\ control = Open /\ \A b \in Batch : queue[b] = "none"
    BY <1>9 DEF ChainInit
  <2>2. ~Finished /\ Target = Ready
    BY <1>1, <1>9, <2>1 DEF Finished, Target
  <2>3. /\ Len(Program[program][1].commands) \in Nat \ {0} /\ s \in ReadyScripts \cup DrainedScripts
        /\ Program[program][1].id \in Deliveries => s \in DeliveryScripts
    <3>1. GateOK(program, Program[program][1])
      BY <1>1, <1>9
    <3>2. Len(Program[program][1].commands) \in Nat \ {0}
      BY <3>1 DEF GateOK
    <3>3. 1 \in 1..Len(Program[program][1].commands)
      BY <3>2
    <3> QED BY <3>1, <3>2, <3>3 DEF GateOK
  <2> HIDE DEF s
  <2>4. CodeOK
    BY <1>6, <2>1, <2>3, RunsOut DEF CodeOK
  <2>5. ProgressOK
    <3>1. gate \in 0..Len(Program[program]) + 1 /\ gate # 0
      BY <1>1, <1>9, <2>1
    <3>2. command \in 0..Len(Program[program][gate].commands)
      BY <2>1, <2>3
    <3> QED BY <1>1, <1>7, <2>2, <3>1, <3>2 DEF ProgressOK
  <2>6. Secured(Tidy)
    <3>1. AllHold(Tidy)
      <4>1. ASSUME NEW c \in Tidy
            PROVE  Holds(c)
        <5>1. c \notin Arrival /\ c # "sent" /\ c # "drained" /\ c # "there"
          BY DEF Tidy, Switches, Service, Arrival
        <5>2. /\ ~control.hold /\ control.document = "open" /\ ~control.scoped /\ ~control.gate
              /\ ~control.closed /\ ~control.alert
          BY <2>1 DEF Open
        <5> QED BY <1>4, <5>1, <5>2 DEF Holds
      <4> QED BY <4>1 DEF AllHold
    <3>2. Tidy \in Facts
      BY DEF Facts, Fact
    <3> QED BY <1>6, <2>1, <2>3, <3>1, <3>2, RunsOut DEF Secured
  <2>7. Delivers
    <3>1. Delivering => s \in DeliveryScripts
      BY <2>1, <2>3 DEF Delivering
    <3>2. {} \in Facts /\ AllHold({})
      BY DEF Facts, AllHold
    <3>3. s \in DeliveryScripts => Secured({"drained", "there"})
      BY <1>6, <2>1, <2>3, <3>2, RunsOut DEF Secured
    <3> QED BY <3>1, <3>3 DEF Delivers
  <2>8. OnTrack(Ready)
    <3>1. Meets(Ready)
      BY <1>5, <2>1, ReadyFields
    <3>2. Meets(Drained)
      BY <1>5, <2>1, DrainedFields
    <3>3. Ready \in Expectations /\ Drained \in Expectations
      BY NamedEdges, EdgesAre
    <3>4. CASE s \in ReadyScripts
      BY <1>6, <2>1, <3>1, <3>3, <3>4, RunsOut DEF OnTrack
    <3>5. CASE s \in DrainedScripts
      BY <1>6, <2>1, <3>2, <3>3, <3>5, RunsOut DEF OnTrack
    <3> QED BY <2>3, <3>4, <3>5
  <2> QED BY <1>3, <1>6, <2>2, <2>4, <2>5, <2>6, <2>7, <2>8 DEF ChainInv, TidiesUp, Passing
<1> QED BY <1>8, <1>9

(* The invariant is inductive.                                             *)
LEMMA ChainSteps ==
  ASSUME ChainInv, [ChainNext]_chainVars
  PROVE  ChainInv'
<1>1. CASE (LabMoves \/ ScriptStep) /\ ~Finished /\ UNCHANGED <<program, gate, command, broken, failed>>
  BY <1>1, ChainMoves
<1>2. CASE /\ FullResetEnds \/ QueueResetEnds \/ CommandEnds
           /\ found' = FALSE
           /\ UNCHANGED <<program, services, control, queue, frames, faults, disturbed>>
  BY <1>2, CommandsEnd
<1>3. CASE UNCHANGED chainVars
  <2>1. UNCHANGED <<services, control, queue, indexed, page, todo, frames, found, faults, disturbed>>
        /\ UNCHANGED <<program, gate, command, broken, failed>>
    BY <1>3 DEF chainVars, labVars
  <2>2. LabTypeOK' /\ CodeOK' /\ ProgressOK'
    BY <2>1 DEF ChainInv, LabTypeOK, CodeOK, ProgressOK, Finished
  <2>3. Doomed' = Doomed /\ Delivering' = Delivering /\ Target' = Target
    BY <2>1 DEF Doomed, Delivering, Target, Finished
  <2>4. ASSUME NEW E, AllHold(E)
        PROVE  AllHold(E)'
    BY <2>1, <2>4, LookKeepsFacts DEF AllHold
  <2>5. ASSUME NEW goal, Secured(goal)
        PROVE  Secured(goal)'
    BY <2>1, <2>4, <2>5 DEF Secured
  <2>6. ASSUME NEW e \in Expectations, Meets(e)
        PROVE  Meets(e)'
    BY <2>1, <2>6 DEF Meets, ServicesMeet, ControlMeets, QueuesMeet, Doing, Step
  <2>7. ASSUME NEW goal, OnTrack(goal)
        PROVE  OnTrack(goal)'
    BY <2>1, <2>6, <2>7 DEF OnTrack
  <2>8. TidiesUp'
    BY <2>1, <2>3, <2>5 DEF ChainInv, TidiesUp
  <2>9. Delivers'
    BY <2>1, <2>3, <2>5 DEF ChainInv, Delivers
  <2>10. Passing'
    <3>1. CASE Target = Ready
      <4>1. Target' = Ready
        BY <2>3, <3>1
      <4> QED BY <2>1, <2>7, <3>1, <4>1 DEF ChainInv, Passing
    <3>2. CASE Target = Drained
      <4>1. Target' = Drained
        BY <2>3, <3>2
      <4> QED BY <2>1, <2>7, <3>2, <4>1 DEF ChainInv, Passing
    <3> QED BY <3>1, <3>2 DEF Target
  <2> QED BY <2>2, <2>8, <2>9, <2>10 DEF ChainInv
<1> QED BY <1>1, <1>2, <1>3 DEF ChainNext

(* It says of a finished program what is wanted, and of a gate that has    *)
(* proved a delivery.                                                      *)
LEMMA ChainIsSound ==
  ASSUME ChainInv
  PROVE  ChainSound
<1>1. ChainTypeOK
  <2>1. control.document \in Document
    BY DEF ChainInv, LabTypeOK, Controls
  <2> QED BY <2>1 DEF ChainInv, LabTypeOK, ProgressOK, ChainTypeOK, Pages
<1>2. ASSUME Finished, ~failed
      PROVE  [control EXCEPT !.held = FALSE] = Open /\ \A s \in Service : services[s] # "down"
  <2>1. todo = <<>> /\ frames = <<>> /\ ~broken /\ ~found
    BY <1>2 DEF ChainInv, ProgressOK
  <2>2. AllHold(Tidy)
    <3>1. Tidy \in Facts
      BY DEF Facts, Fact
    <3> QED BY <1>2, <2>1, <3>1, CommandDone DEF ChainInv, TidiesUp
  <2>3. \A c \in Tidy : Holds(c)
    BY <2>2 DEF AllHold
  <2>4. \A s \in Service : services[s] # "down"
    BY <2>3 DEF Holds, Tidy
  <2>5. /\ ~control.hold /\ control.document = "open" /\ ~control.scoped /\ ~control.gate
        /\ ~control.closed /\ ~control.alert
    BY <2>3 DEF Holds, Tidy, Switches
  <2>6. control \in Controls
    BY DEF ChainInv, LabTypeOK
  <2> DEFINE released == [control EXCEPT !.held = FALSE]
  <2>7. /\ released \in Controls /\ released.held = FALSE
        /\ released.hold = control.hold /\ released.document = control.document
        /\ released.scoped = control.scoped /\ released.gate = control.gate
        /\ released.closed = control.closed /\ released.alert = control.alert
    BY <2>6 DEF Controls
  <2> HIDE DEF released
  <2>8. released = Open
    BY <2>5, <2>6, <2>7, Switchboard, SameControls DEF Controls
  <2> QED BY <2>4, <2>8 DEF released
<1>3. ASSUME Finished, ~disturbed
      PROVE  ~failed
  BY <1>3 DEF ChainInv, Passing
<1> QED BY <1>1, <1>2, <1>3 DEF ChainSound, PassedMeansOpen, QuietRunsPass

LEMMA ProofsDeliver ==
  ASSUME ChainInv, [ChainNext]_chainVars, gate' # gate, gate > 0, command > 0, ~broken, ~found,
         Program[program][gate].id \in Deliveries
  PROVE  "first" \in indexed /\ queue["first"] = "none"
<1>1. CommandEnded
  BY DEF ChainNext, chainVars, FullResetEnds, QueueResetEnds, CommandEnds
<1>2. Delivering
  BY <1>1 DEF Delivering, CommandEnded
<1>3. AllHold({"drained", "there"})
  BY <1>1, <1>2, AtTheEnd
<1> QED BY <1>3 DEF AllHold, Holds, Service

(***************************************************************************)
(* A behaviour that does not look at the chain leaves it as it begins.     *)
(***************************************************************************)
LEMMA ChainOfSpec ==
  /\ Init => ChainInv
  /\ ChainInv /\ [Next]_governanceVars => [ChainNext]_chainVars /\ ChainInv'
<1>1. Init => ChainInv
  BY ChainBegins DEF Init
<1>2. ASSUME [Next]_governanceVars
      PROVE  [ChainNext]_chainVars
  BY <1>2 DEF Next, governanceVars
<1> QED BY <1>1, <1>2, ChainSteps

(* However calls fail and waits run out: a program that passed leaves the  *)
(* lab open, with every container running and nothing of its own in it;    *)
(* and one that nothing disturbed passes, so that no gate is in the way of *)
(* a later one.                                                            *)
THEOREM ChainIsSafe == Spec => []ChainSound
<1>1. Init => ChainInv
  BY ChainOfSpec
<1>2. ChainInv /\ [Next]_governanceVars => ChainInv'
  BY ChainOfSpec
<1>3. ChainInv => ChainSound
  BY ChainIsSound
<1> QED BY <1>1, <1>2, <1>3, PTL DEF Spec

(* A gate that proves a delivery ends without a finding only after its     *)
(* batch was in OpenObserve and in no queue.                               *)
THEOREM ProofsOfDelivery == Spec => ProvedMeansDelivered
<1>1. Init => ChainInv
  BY ChainOfSpec
<1>2. ChainInv /\ [Next]_governanceVars => ChainInv'
  BY ChainOfSpec
<1>3. ChainInv /\ [Next]_governanceVars
      => [gate' # gate /\ gate > 0 /\ command > 0 /\ ~broken /\ ~found
            /\ Program[program][gate].id \in {"queue-storage-privacy", "pre-ack-redelivery", "real-soak"}
          => "first" \in indexed /\ queue["first"] = "none"]_chainVars
  BY ChainOfSpec, ProofsDeliver DEF Deliveries
<1> QED BY <1>1, <1>2, <1>3, PTL DEF Spec, ProvedMeansDelivered
=============================================================================
