------------------------- MODULE SessionSyncProofs -------------------------
(***************************************************************************)
(* For every look-back, limit and number of rows and sessions: a watermark *)
(* is earned, no search forgets a row that arrived within the look-back,   *)
(* and a service that reports itself ready has caught up.                  *)
(***************************************************************************)
EXTENDS SessionSync, FiniteSetTheorems, TLAPS

(***************************************************************************)
(* The newest and the oldest of some times.                                *)
(***************************************************************************)
LEMMA LeastNatural ==
  ASSUME NEW S \in SUBSET Nat, S # {}
  PROVE  \E x \in S : \A y \in S : x <= y
<1> DEFINE R == OpToRel(<, Nat)
<1>1. IsWellFoundedOn(R, Nat)
  BY NatLessThanWellFounded
<1>2. \A x, y \in S : y < x => <<y, x>> \in R
  BY DEF OpToRel
<1> HIDE DEF R
<1>3. PICK x \in S : \A y \in S : <<y, x>> \notin R
  BY <1>1, WFMin
<1>4. ASSUME NEW y \in S
      PROVE  x <= y
  <2>1. x \in Nat /\ y \in Nat
    OBVIOUS
  <2>2. ~ (y < x)
    BY <1>2, <1>3
  <2> QED
    BY <2>1, <2>2
<1> QED
  BY <1>4

LEMMA MinOfTimes ==
  ASSUME NEW T \in SUBSET (0 .. Horizon), T # {}
  PROVE  Min(T) \in T /\ \A t \in T : Min(T) <= t
<1>1. \E x \in T : \A y \in T : x <= y
  BY LeastNatural, NumbersAssumption
<1> QED
  BY <1>1 DEF Min

LEMMA MaxOfTimes ==
  ASSUME NEW T \in SUBSET (0 .. Horizon), T # {}
  PROVE  Max(T) \in T /\ \A t \in T : t <= Max(T)
<1> DEFINE Back == {Horizon - t : t \in T}
<1>1. Back \in SUBSET Nat /\ Back # {}
  <2>1. \A t \in T : Horizon - t \in Nat
    BY NumbersAssumption
  <2> QED
    BY <2>1
<1>2. PICK b \in Back : \A y \in Back : b <= y
  BY <1>1, LeastNatural
<1>3. PICK x \in T : b = Horizon - x
  BY <1>2
<1>4. ASSUME NEW y \in T
      PROVE  x >= y
  <2>1. b <= Horizon - y
    BY <1>2
  <2> QED
    BY <1>3, <2>1, NumbersAssumption
<1>5. Max(T) \in T /\ \A y \in T : Max(T) >= y
  BY <1>4 DEF Max
<1> QED
  BY <1>5, NumbersAssumption

(* What the search found of a session is summed up in one record that      *)
(* covers it.                                                              *)
LEMMA AggregateCovers ==
  ASSUME NEW rows \in SUBSET Row
  PROVE  /\ Aggregate(rows) \subseteq Record
         /\ \A r \in rows : r.session \in Session =>
              \E record \in Aggregate(rows) :
                /\ record.session = r.session
                /\ record.start <= r.time
                /\ r.time <= record.last
<1>1. ASSUME NEW r \in rows
      PROVE  /\ Times(rows, r.session) \in SUBSET (1 .. Horizon)
             /\ r.time \in Times(rows, r.session)
  BY DEF Times, Row
<1>2. ASSUME NEW r \in rows
      PROVE  LET T == Times(rows, r.session)
             IN  /\ Min(T) \in 1 .. Horizon /\ Max(T) \in 1 .. Horizon
                 /\ Min(T) <= r.time /\ r.time <= Max(T)
  <2> DEFINE T == Times(rows, r.session)
  <2>1. T \in SUBSET (0 .. Horizon) /\ T # {}
    BY <1>1, NumbersAssumption
  <2> HIDE DEF T
  <2>2. Min(T) \in T /\ Max(T) \in T /\ \A t \in T : Min(T) <= t /\ t <= Max(T)
    BY <2>1, MinOfTimes, MaxOfTimes
  <2> QED
    BY <1>1, <2>2 DEF T
<1>3. ASSUME NEW r \in rows, r.session \in Session
      PROVE  [session |-> r.session, start |-> Min(Times(rows, r.session)),
              last |-> Max(Times(rows, r.session))] \in Aggregate(rows)
  BY <1>3 DEF Aggregate
<1>4. Aggregate(rows) \subseteq Record
  BY <1>2 DEF Aggregate, Record
<1> QED
  BY <1>2, <1>3, <1>4

(* Once the records cover a search, none of its rows is missing.           *)
LEMMA IngestCovers ==
  ASSUME NEW rows \in SUBSET Row, target' = target \cup Aggregate(rows)
  PROVE  \A r \in rows : r.session \in Session => Recorded(r)'
BY AggregateCovers DEF Recorded

(* Records are never taken back, so what was recorded stays so.            *)
LEMMA RecordedStays ==
  ASSUME target \subseteq target'
  PROVE  \A r : Recorded(r) => Recorded(r)'
BY DEF Recorded

LEMMA EarnedStays ==
  ASSUME source \subseteq source', target \subseteq target', NEW w, EarnedAt(w)
  PROVE  w > 0 => \E r \in source' : r.time = w /\ (r.session \in Session => Recorded(r)')
BY RecordedStays DEF EarnedAt, Missing

(* The newest row of a sync, or the watermark if that is newer.            *)
LEMMA NewestRow ==
  ASSUME TypeOK, SyncOK
  PROVE  /\ Newest \in 0 .. Horizon
         /\ watermark <= Newest /\ Newest <= now
         /\ \A r \in sync.rows : r.time <= Newest
         /\ Newest = watermark \/ \E r \in sync.rows : r.time = Newest
<1> DEFINE T == {watermark} \cup {r.time : r \in sync.rows}
<1>1. \A r \in sync.rows : r.time \in 1 .. Horizon
  BY DEF TypeOK, Row
<1>2. T \in SUBSET (0 .. Horizon) /\ T # {}
  BY <1>1, NumbersAssumption DEF TypeOK
<1>3. /\ watermark \in T /\ \A r \in sync.rows : r.time \in T
      /\ \A t \in T : t = watermark \/ \E r \in sync.rows : r.time = t
      /\ \A t \in T : t <= now
  <2>1. watermark <= now
    BY NumbersAssumption DEF TypeOK, SyncOK
  <2> QED
    BY <2>1 DEF SyncOK
<1> HIDE DEF T
<1>4. Max(T) \in T /\ \A t \in T : t <= Max(T)
  BY <1>2, MaxOfTimes
<1>5. Newest = Max(T)
  BY DEF Newest, T
<1> QED
  BY <1>2, <1>3, <1>4, <1>5

(***************************************************************************)
(* The steps.  Where a step leaves a part of the state alone, what was     *)
(* recorded or earned stays so.                                            *)
(***************************************************************************)
LEMMA TickStep ==
  ASSUME IInv, Tick
  PROVE  IInv'
<1> USE NumbersAssumption DEF IInv, Tick
<1>1. TypeOK'
  BY DEF TypeOK
<1>2. SyncOK'
  BY DEF TypeOK, SyncOK, Answered, Row
<1>3. AllEarned'
  BY DEF AllEarned, EarnedAt, Missing, Recorded
<1>4. NothingForgotten'
  BY DEF NothingForgotten, NothingSkipped, Missing, Recorded
<1>5. BacklogCaught'
  BY DEF TypeOK, BacklogCaught, ReadyMeansCaughtUp, Answered, Missing, Recorded, Row
<1> QED
  BY <1>1, <1>2, <1>3, <1>4, <1>5

(* A row counts as due only if it is within the look-back of the clock,    *)
(* and so of every watermark there is or may be soon.                      *)
LEMMA RowArrivesStep ==
  ASSUME IInv, NEW r \in Row, RowArrives(r)
  PROVE  IInv'
<1> USE NumbersAssumption DEF IInv, RowArrives
<1>1. TypeOK'
  BY DEF TypeOK
<1>2. SyncOK'
  BY FS_AddElement DEF TypeOK, SyncOK, Answered
<1>3. AllEarned'
  BY DEF AllEarned, EarnedAt, Missing, Recorded
<1>4. NothingForgotten'
  BY DEF TypeOK, SyncOK, NothingForgotten, NothingSkipped, Missing, Recorded, Row
<1>5. BacklogCaught'
  BY DEF BacklogCaught, ReadyMeansCaughtUp, Answered, Missing, Recorded
<1> QED
  BY <1>1, <1>2, <1>3, <1>4, <1>5

LEMMA SyncStartsStep ==
  ASSUME IInv, SyncStarts
  PROVE  IInv'
<1> USE NumbersAssumption DEF IInv
<1>0. /\ sync' = [step |-> "search", at |-> now, rows |-> {}]
      /\ sync'.step = "search" /\ sync'.at = now /\ sync'.rows = {}
      /\ UNCHANGED <<now, source, target, file, watermark, initialized, process, due, backlog, partial>>
  BY DEF SyncStarts, NoSync
<1>1. TypeOK'
  BY <1>0 DEF TypeOK
<1>2. SyncOK'
  BY <1>0 DEF TypeOK, SyncOK, Answered
<1>3. AllEarned'
  BY <1>0 DEF AllEarned, EarnedAt, Missing, Recorded
<1>4. NothingForgotten'
  BY <1>0 DEF NothingForgotten, NothingSkipped, Missing, Recorded
<1>5. BacklogCaught'
  BY <1>0 DEF BacklogCaught, ReadyMeansCaughtUp, Answered, Missing, Recorded
<1> QED
  BY <1>1, <1>2, <1>3, <1>4, <1>5

(* A search that is not cut short finds every missing row of its window:   *)
(* the due rows it does not find are younger than it.                      *)
LEMMA SearchAnswersStep ==
  ASSUME IInv, SearchAnswers
  PROVE  IInv'
<1> USE NumbersAssumption DEF IInv
<1>1. PICK rows \in SUBSET Window, step \in {"ingest", "diagnose", "advance"} :
        /\ Cardinality(rows) = Min({Limit, Cardinality(Window)})
        /\ step # "ingest" => Aggregate(rows) = {}
        /\ sync' = [step |-> step, at |-> 0, rows |-> rows]
  BY DEF SearchAnswers, AfterIngest
<1>2. /\ sync.step = "search"
      /\ partial' = (partial \/ Cardinality(Window) > Limit)
      /\ UNCHANGED <<now, source, target, file, watermark, initialized, process, due, backlog>>
  BY DEF SearchAnswers
<1>3. rows \subseteq source /\ \A r \in rows : r.time <= sync.at
  BY DEF Window
<1>4. ~ partial' => rows = Window
  <2>1. IsFiniteSet(Window) /\ Cardinality(Window) \in Nat
    BY FS_Subset, FS_CardinalityType DEF SyncOK, Window
  <2>2. Cardinality(Window) <= Limit =>
          Min({Limit, Cardinality(Window)}) = Cardinality(Window)
    BY <2>1 DEF Min
  <2>3. ~ partial' => ~ (Cardinality(Window) > Limit)
    BY <1>2, Zenon
  <2>4. Cardinality(rows) = Cardinality(Window) => rows = Window
    BY <2>1, FS_Subset
  <2> QED
    BY <1>1, <2>1, <2>2, <2>3, <2>4
<1>5. TypeOK'
  BY <1>1, <1>2, <1>3 DEF TypeOK
<1>6. SyncOK'
  BY <1>1, <1>2, <1>3 DEF TypeOK, SyncOK, Answered, Row
<1>7. AllEarned'
  <2>1. step # "ingest" => Missing(rows) = {}
    <3>1. rows \subseteq Row
      BY <1>3 DEF TypeOK
    <3> QED
      BY <1>1, <3>1, AggregateCovers DEF Missing
  <2> QED
    BY <1>1, <1>2, <2>1 DEF AllEarned, EarnedAt, Missing, Recorded
<1>8. ASSUME ~ partial', NEW r \in Missing(due) \cup Missing(backlog)
      PROVE  r \in rows \/ \A q \in rows : q.time <= r.time + Lookback
  <2>1. r \in source /\ r.time \in 1 .. Horizon /\ r \in Missing(due)
    BY DEF TypeOK, Missing, Row
  <2>2. watermark <= r.time + Lookback /\ watermark > 0
    BY <1>2, <1>8, <2>1 DEF NothingForgotten, NothingSkipped, TypeOK, Missing
  <2>3. CASE r.time <= sync.at
    BY <1>4, <1>8, <2>1, <2>2, <2>3 DEF Window
  <2>4. CASE sync.at < r.time
    BY <1>3, <2>1, <2>4 DEF TypeOK, Row
  <2> QED
    BY <2>1, <2>3, <2>4 DEF TypeOK
<1>9. NothingForgotten'
  BY <1>1, <1>2, <1>8 DEF NothingForgotten, NothingSkipped, Missing, Recorded
<1>10. BacklogCaught'
  <2>1. ~ partial' => Missing(backlog) \subseteq rows
    <3>1. ASSUME ~ partial', NEW r \in Missing(backlog)
          PROVE  r \in rows
      <4>1. r \in source /\ r.time \in 1 .. Horizon /\ r \in Missing(due)
        BY <3>1 DEF TypeOK, Missing, Row
      <4>2. watermark <= r.time + Lookback /\ watermark > 0
        BY <1>2, <3>1, <4>1 DEF NothingForgotten, NothingSkipped, TypeOK, Missing
      <4>3. r.time <= sync.at
        BY <1>2, <3>1 DEF BacklogCaught, Missing
      <4> QED
        BY <1>4, <3>1, <4>1, <4>2, <4>3 DEF Window
    <3> QED
      BY <3>1
  <2> QED
    BY <1>1, <1>2, <2>1 DEF BacklogCaught, ReadyMeansCaughtUp, Answered, Missing, Recorded
<1> QED
  BY <1>5, <1>6, <1>7, <1>9, <1>10

LEMMA SearchUnreadableStep ==
  ASSUME IInv, SearchUnreadable
  PROVE  IInv'
<1> USE NumbersAssumption DEF IInv
<1>0. /\ sync' = [step |-> "advance", at |-> 0, rows |-> {}]
      /\ sync'.step = "advance" /\ sync'.at = 0 /\ sync'.rows = {}
      /\ UNCHANGED <<now, source, target, file, watermark, initialized, process, due, backlog>>
      /\ partial' = TRUE
  BY DEF SearchUnreadable, NoSync
<1>1. TypeOK'
  BY <1>0 DEF TypeOK
<1>2. SyncOK'
  BY <1>0 DEF TypeOK, SyncOK, Answered
<1>3. AllEarned'
  BY <1>0 DEF AllEarned, EarnedAt, Missing, Recorded
<1>4. NothingForgotten'
  BY <1>0 DEF NothingForgotten, NothingSkipped, Missing, Recorded
<1>5. BacklogCaught'
  BY <1>0 DEF BacklogCaught, ReadyMeansCaughtUp, Answered, Missing, Recorded
<1> QED
  BY <1>1, <1>2, <1>3, <1>4, <1>5

(* From here on every row of the sync has its record.                      *)
LEMMA IngestStoresStep ==
  ASSUME IInv, IngestStores
  PROVE  IInv'
<1> USE NumbersAssumption DEF IInv
<1>1. PICK step \in {"diagnose", "advance"} : sync' = [sync EXCEPT !.step = step]
  BY DEF IngestStores, AfterIngest
<1>2. /\ sync.step = "ingest"
      /\ target' = target \cup Aggregate(sync.rows)
      /\ UNCHANGED <<now, source, file, watermark, initialized, process, due, backlog, partial>>
  BY DEF IngestStores
<1>3. /\ sync'.step = step /\ sync'.at = sync.at /\ sync'.rows = sync.rows
      /\ sync' \in [step : {"diagnose", "advance"}, at : 0 .. Horizon, rows : SUBSET source]
  BY <1>1 DEF SyncOK
<1>4. sync.rows \in SUBSET Row
  BY DEF TypeOK
<1>5. /\ \A r : Recorded(r) => Recorded(r)'
      /\ \A r \in sync.rows : r.session \in Session => Recorded(r)'
  BY <1>2, <1>4, RecordedStays, IngestCovers
<1>6. TypeOK'
  BY <1>2, <1>3, <1>4, AggregateCovers DEF TypeOK
<1>7. SyncOK'
  BY <1>2, <1>3 DEF SyncOK, Answered
<1>8. AllEarned'
  BY <1>2, <1>3, <1>5 DEF AllEarned, EarnedAt, Missing
<1>9. NothingForgotten'
  BY <1>2, <1>3, <1>5 DEF NothingForgotten, NothingSkipped, Missing
<1>10. BacklogCaught'
  BY <1>2, <1>3, <1>5 DEF BacklogCaught, ReadyMeansCaughtUp, Answered, Missing
<1> QED
  BY <1>6, <1>7, <1>8, <1>9, <1>10

LEMMA DiagnosticsStep ==
  ASSUME IInv, DiagnosticsStored
  PROVE  IInv'
<1> USE NumbersAssumption DEF IInv, DiagnosticsStored
<1>0. sync' = [step |-> "advance", at |-> sync.at, rows |-> sync.rows]
  BY DEF SyncOK
<1>1. TypeOK'
  BY <1>0 DEF TypeOK
<1>2. SyncOK'
  BY <1>0 DEF TypeOK, SyncOK, Answered
<1>3. AllEarned'
  BY <1>0 DEF AllEarned, EarnedAt, Missing, Recorded
<1>4. NothingForgotten'
  BY <1>0 DEF NothingForgotten, NothingSkipped, Missing, Recorded
<1>5. BacklogCaught'
  BY <1>0 DEF BacklogCaught, ReadyMeansCaughtUp, Answered, Missing, Recorded
<1> QED
  BY <1>1, <1>2, <1>3, <1>4, <1>5

(* The watermark moves to a row that has its record, or needs none, and    *)
(* that no missing row is further behind than the look-back.               *)
LEMMA AdvanceStep ==
  ASSUME IInv, Advance
  PROVE  IInv'
<1> USE NumbersAssumption DEF IInv
<1>1. /\ sync.step = "advance"
      /\ sync'.step = "idle" /\ sync'.at = 0 /\ sync'.rows = {}
      /\ sync' = [step |-> "idle", at |-> 0, rows |-> {}]
      /\ file' = IF Newest = watermark THEN file ELSE Newest
      /\ watermark' = Newest
      /\ initialized' = TRUE
      /\ UNCHANGED <<now, source, target, process, due, backlog, partial>>
  BY DEF Advance, NoSync
<1>2. /\ Newest \in 0 .. Horizon
      /\ watermark <= Newest /\ Newest <= now
      /\ Newest = watermark \/ \E r \in sync.rows : r.time = Newest
  BY NewestRow
<1>3. TypeOK'
  BY <1>1, <1>2 DEF TypeOK
<1>4. SyncOK'
  BY <1>1, <1>2 DEF TypeOK, SyncOK, Answered
<1>5. AllEarned'
  <2>1. \A r \in sync.rows : r \in source /\ r \notin Missing(source)
    BY <1>1 DEF AllEarned, Missing, TypeOK
  <2> QED
    BY <1>1, <1>2, <2>1 DEF AllEarned, EarnedAt, Missing, Recorded
<1>6. NothingForgotten'
  <2>1. \A r \in Missing(due) : r \notin sync.rows
    BY <1>1 DEF AllEarned, Missing
  <2>2. ~ partial => \A r \in Missing(due) : Newest <= r.time + Lookback
    BY <1>2, <2>1 DEF NothingForgotten, NothingSkipped
  <2> QED
    BY <1>1, <1>2, <2>2
       DEF NothingForgotten, NothingSkipped, Missing, Recorded, TypeOK
<1>7. BacklogCaught'
  <2>1. ~ partial => Missing(backlog) = {}
    BY <1>1 DEF BacklogCaught, AllEarned, Missing, Answered
  <2> QED
    BY <1>1, <2>1 DEF BacklogCaught, ReadyMeansCaughtUp, Answered, Missing, Recorded
<1> QED
  BY <1>3, <1>4, <1>5, <1>6, <1>7

(* A sync that fails has stored its records, written its file, or neither. *)
LEMMA SyncFailsStep ==
  ASSUME IInv, SyncFails
  PROVE  IInv'
<1> USE NumbersAssumption DEF IInv
<1>1. /\ sync'.step = "idle" /\ sync'.at = 0 /\ sync'.rows = {}
      /\ sync' = [step |-> "idle", at |-> 0, rows |-> {}]
      /\ UNCHANGED <<now, source, watermark, initialized, process, due, backlog, partial>>
  BY DEF SyncFails, NoSync
<1>2. target \subseteq target' /\ target' \subseteq Record
  <2>1. Aggregate(sync.rows) \subseteq Record
    BY AggregateCovers DEF TypeOK
  <2> QED
    BY <2>1 DEF SyncFails, TypeOK
<1>3. \/ file' = file
      \/ /\ sync.step = "advance" /\ file' = Newest /\ Newest > watermark
         /\ UNCHANGED target
  BY DEF SyncFails
<1>4. /\ Newest \in 0 .. Horizon /\ Newest <= now
      /\ Newest = watermark \/ \E r \in sync.rows : r.time = Newest
  BY NewestRow
<1>5. \A r : Recorded(r) => Recorded(r)'
  BY <1>2, RecordedStays
<1>6. TypeOK'
  BY <1>1, <1>2, <1>3, <1>4 DEF TypeOK
<1>7. SyncOK'
  BY <1>1, <1>3, <1>4 DEF TypeOK, SyncOK, Answered
<1>8. AllEarned'
  <2>1. CASE file' = file
    BY <1>1, <1>5, <2>1 DEF AllEarned, EarnedAt, Missing
  <2>2. CASE sync.step = "advance" /\ file' = Newest /\ Newest > watermark
    <3>1. PICK r \in sync.rows : r.time = Newest
      BY <1>4, <2>2 DEF TypeOK
    <3>2. r \in source /\ r \notin Missing(source)
      BY <2>2 DEF AllEarned, Missing, TypeOK
    <3> QED
      BY <1>1, <1>5, <2>2, <3>1, <3>2 DEF AllEarned, EarnedAt, Missing
  <2> QED
    BY <1>3, <2>1, <2>2
<1>9. NothingForgotten'
  <2>1. CASE file' = file
    BY <1>1, <1>5, <2>1 DEF NothingForgotten, NothingSkipped, Missing
  <2>2. CASE sync.step = "advance" /\ file' = Newest /\ Newest > watermark
    <3>1. \A r \in Missing(due) : r \notin sync.rows
      BY <2>2 DEF AllEarned, Missing
    <3>2. ~ partial => \A r \in Missing(due) : Newest <= r.time + Lookback
      BY <1>4, <3>1 DEF NothingForgotten, NothingSkipped
    <3> QED
      BY <1>1, <1>5, <2>2, <3>2 DEF NothingForgotten, NothingSkipped, Missing
  <2> QED
    BY <1>3, <2>1, <2>2
<1>10. BacklogCaught'
  BY <1>1, <1>5 DEF BacklogCaught, ReadyMeansCaughtUp, Answered, Missing
<1> QED
  BY <1>6, <1>7, <1>8, <1>9, <1>10

LEMMA StopStep ==
  ASSUME IInv, Stop
  PROVE  IInv'
<1> USE DEF IInv, Stop
<1>1. TypeOK'
  BY DEF TypeOK
<1>2. SyncOK'
  BY DEF SyncOK, Answered
<1>3. AllEarned'
  BY DEF AllEarned, EarnedAt, Missing, Recorded
<1>4. NothingForgotten'
  BY DEF NothingForgotten, NothingSkipped, Missing, Recorded
<1>5. BacklogCaught'
  BY DEF BacklogCaught, ReadyMeansCaughtUp, Answered, Missing, Recorded
<1> QED
  BY <1>1, <1>2, <1>3, <1>4, <1>5

(* The watermark on file is all a new process has, and it is enough.       *)
LEMMA RestartStep ==
  ASSUME IInv, Restart
  PROVE  IInv'
<1> USE NumbersAssumption DEF IInv
<1>1. /\ sync'.step = "idle" /\ sync'.at = 0 /\ sync'.rows = {}
      /\ sync' = [step |-> "idle", at |-> 0, rows |-> {}]
      /\ process' = "running" /\ watermark' = file /\ initialized' = FALSE
      /\ backlog' = {r \in Missing(due) : r.time <= now}
      /\ UNCHANGED <<now, source, target, file, due, partial>>
  BY DEF Restart, NoSync
<1>2. TypeOK'
  <2>1. backlog' \subseteq due
    BY <1>1 DEF Missing
  <2>2. initialized' \in BOOLEAN
    BY <1>1, Zenon
  <2> QED
    BY <1>1, <2>1, <2>2 DEF TypeOK
<1>3. SyncOK'
  BY <1>1 DEF TypeOK, SyncOK, Answered
<1>4. AllEarned'
  BY <1>1 DEF AllEarned, EarnedAt, Missing, Recorded
<1>5. NothingForgotten'
  BY <1>1 DEF NothingForgotten, NothingSkipped, Missing, Recorded, SyncOK, TypeOK
<1>6. BacklogCaught'
  BY <1>1 DEF BacklogCaught, ReadyMeansCaughtUp, Answered
<1> QED
  BY <1>2, <1>3, <1>4, <1>5, <1>6

(***************************************************************************)
(* The theorems.                                                           *)
(***************************************************************************)
LEMMA InitIInv == Init => IInv
<1> SUFFICES ASSUME Init PROVE IInv
  OBVIOUS
<1> USE NumbersAssumption DEF Init, NoSync
<1>1. sync.step = "idle" /\ sync.at = 0 /\ sync.rows = {}
  OBVIOUS
<1>2. TypeOK
  <2>1. initialized \in BOOLEAN /\ partial \in BOOLEAN
    BY Zenon
  <2> QED
    BY <1>1, <2>1 DEF TypeOK
<1>3. SyncOK
  BY <1>1, FS_EmptySet DEF SyncOK, Answered
<1>4. AllEarned
  BY <1>1 DEF AllEarned, EarnedAt
<1>5. NothingForgotten
  BY <1>1 DEF NothingForgotten, NothingSkipped, Missing
<1>6. BacklogCaught
  BY <1>1 DEF BacklogCaught, ReadyMeansCaughtUp, Answered
<1> QED
  BY <1>2, <1>3, <1>4, <1>5, <1>6 DEF IInv

LEMMA NextIInv == IInv /\ [Next]_vars => IInv'
<1> SUFFICES ASSUME IInv, [Next]_vars PROVE IInv'
  OBVIOUS
<1>1. CASE Next
  BY <1>1, TickStep, RowArrivesStep, SyncStartsStep, SearchAnswersStep, SearchUnreadableStep,
     IngestStoresStep, DiagnosticsStep, AdvanceStep, SyncFailsStep, StopStep, RestartStep DEF Next
<1>2. CASE UNCHANGED vars
  BY <1>2 DEF vars, IInv, TypeOK, SyncOK, Answered, AllEarned, EarnedAt, NothingForgotten,
              NothingSkipped, BacklogCaught, ReadyMeansCaughtUp, Missing, Recorded
<1> QED
  BY <1>1, <1>2

LEMMA InvariantHolds == Spec => []IInv
BY InitIInv, NextIInv, PTL DEF Spec

(* Whatever call failed, and wherever the process ended: of the watermark  *)
(* in memory and of the one on file, some row has its record or needs      *)
(* none, and the file is never behind the memory.                          *)
THEOREM WatermarkEarned == Spec => []WatermarkOK
<1>1. IInv => WatermarkOK
  BY DEF IInv, AllEarned, SyncOK, WatermarkOK, WatermarkIsEarned
<1> QED
  BY <1>1, InvariantHolds, PTL

(* A row that arrived within the look-back and has no record yet lies in   *)
(* the window of the next search, of this process or of its successor.     *)
THEOREM NoRowForgotten == Spec => []NothingSkipped
<1>1. IInv => NothingSkipped
  BY DEF IInv, NothingForgotten
<1> QED
  BY <1>1, InvariantHolds, PTL

(* Readiness is honest: the first sync that completes has recorded all     *)
(* that its predecessor left.                                              *)
THEOREM ReadyCaughtUp == Spec => []ReadyMeansCaughtUp
<1>1. IInv => ReadyMeansCaughtUp
  BY DEF IInv, BacklogCaught
<1> QED
  BY <1>1, InvariantHolds, PTL
=============================================================================
