----------------------------- MODULE SessionSync -----------------------------
(***************************************************************************)
(* Session Metadata Sync, apps/session-metadata-sync/src: every minute it  *)
(* searches the RUM stream from a little before its watermark to now,      *)
(* sums the rows up per session, ingests one record per session, and moves *)
(* the watermark, on file and in memory, to the newest row it has seen.    *)
(*                                                                         *)
(* Rows arrive in OpenObserve at any time, in any order, late or with the  *)
(* clock of the browser ahead; the search returns no more than a limit, in *)
(* no stated order; each call may fail, and the process may end anywhere.  *)
(***************************************************************************)
EXTENDS Naturals, FiniteSets, FiniteSetsExt

CONSTANTS
  Session,    \* sessions
  Rejected,   \* marks a row with a forbidden field, rejected with a diagnostic,
              \* or one without a session, passed over
  Lookback,   \* options.lookbackMs
  Limit,      \* options.limit
  Horizon,    \* bound of the clock
  MaxRows     \* rows explored

ASSUME RejectedAssumption == Rejected \notin Session
ASSUME NumbersAssumption ==
  Lookback \in Nat /\ Limit \in Nat \ {0} /\ Horizon \in Nat \ {0} /\ MaxRows \in Nat

VARIABLES
  now,          \* the clock
  source,       \* the rows of _rumdata
  target,       \* the records of _sessionreplay
  file,         \* the watermark on file, 0 if there is none
  watermark,    \* state.watermarkUs
  initialized,  \* state.initialized, which is readiness
  process,      \* "running", or "stopping" after a signal
  sync,         \* the sync in progress
  due,          \* history: rows that arrived within the look-back
  backlog,      \* history: past due rows without a record when the process began
  partial       \* history: some search returned less than its window

vars == <<now, source, target, file, watermark, initialized, process, sync,
          due, backlog, partial>>

Row == [session : Session \cup {Rejected}, time : 1 .. Horizon]

(* "last" is the record's _timestamp, the newest activity; its duration,   *)
(* converted to milliseconds and capped, is left out.                      *)
Record == [session : Session, start : 1 .. Horizon, last : 1 .. Horizon]

NoSync == [step |-> "idle", at |-> 0, rows |-> {}]

Recorded(r) ==
  \E record \in target : /\ record.session = r.session
                         /\ record.start <= r.time
                         /\ r.time <= record.last

Missing(rows) == {r \in rows : r.session \in Session /\ ~ Recorded(r)}

(***************************************************************************)
(* The world.                                                              *)
(***************************************************************************)
Tick ==
  /\ now < Horizon
  /\ now' = now + 1
  /\ UNCHANGED <<source, target, file, watermark, initialized, process, sync,
                 due, backlog, partial>>

(* Rows count as due once there is a watermark: before, each search looks  *)
(* back from the present.                                                  *)
RowArrives(r) ==
  /\ r \notin source
  /\ Cardinality(source) < MaxRows
  /\ source' = source \cup {r}
  /\ due' = IF watermark > 0 /\ now <= r.time + Lookback THEN due \cup {r} ELSE due
  /\ UNCHANGED <<now, target, file, watermark, initialized, process, sync,
                 backlog, partial>>

(***************************************************************************)
(* One sync: search, ingest, ingest diagnostics, advance. The time it      *)
(* began at is kept until the search is answered.                          *)
(***************************************************************************)

(* scheduler.tick: one sync at a time, none after a signal.                *)
SyncStarts ==
  /\ process = "running"
  /\ sync.step = "idle"
  /\ sync' = [NoSync EXCEPT !.step = "search", !.at = now]
  /\ UNCHANGED <<now, source, target, file, watermark, initialized, process,
                 due, backlog, partial>>

(* A plausible bug: the search begins at the watermark.                    *)
WindowSinceWatermark ==
  LET from == IF watermark > 0 THEN watermark ELSE sync.at
  IN {r \in source : from <= r.time /\ r.time <= sync.at}

Window ==
  LET from == IF watermark > 0 THEN watermark ELSE sync.at
  IN {r \in source : from <= r.time + Lookback /\ r.time <= sync.at}

(* aggregateSessionMetadataRows                                            *)
Times(rows, s) == {r.time : r \in {q \in rows : q.session = s}}

Aggregate(rows) ==
  {[session |-> s, start |-> Min(Times(rows, s)), last |-> Max(Times(rows, s))] :
     s \in {r.session : r \in rows} \cap Session}

(* Diagnostics are ingested next if there are any.                         *)
AfterIngest(rows) ==
  {"advance"} \cup (IF \E r \in rows : r.session = Rejected THEN {"diagnose"} ELSE {})

SearchAnswers ==
  /\ sync.step = "search"
  /\ \E rows \in SUBSET Window :
       /\ Cardinality(rows) = Min({Limit, Cardinality(Window)})
       /\ \E step \in IF Aggregate(rows) # {} THEN {"ingest"} ELSE AfterIngest(rows) :
            sync' = [step |-> step, at |-> 0, rows |-> rows]
  /\ partial' = (partial \/ Cardinality(Window) > Limit)
  /\ UNCHANGED <<now, source, target, file, watermark, initialized, process, due, backlog>>

(* A stream schema or a search result that cannot be read is taken for an  *)
(* empty one.                                                              *)
SearchUnreadable ==
  /\ sync.step = "search"
  /\ sync' = [NoSync EXCEPT !.step = "advance"]
  /\ partial' = TRUE
  /\ UNCHANGED <<now, source, target, file, watermark, initialized, process, due, backlog>>

IngestStores ==
  /\ sync.step = "ingest"
  /\ target' = target \cup Aggregate(sync.rows)
  /\ \E step \in AfterIngest(sync.rows) : sync' = [sync EXCEPT !.step = step]
  /\ UNCHANGED <<now, source, file, watermark, initialized, process, due, backlog, partial>>

DiagnosticsStored ==
  /\ sync.step = "diagnose"
  /\ sync' = [sync EXCEPT !.step = "advance"]
  /\ UNCHANGED <<now, source, target, file, watermark, initialized, process,
                 due, backlog, partial>>

Newest == Max({watermark} \cup {r.time : r \in sync.rows})

(* The watermark is replaced on file, then in memory.                      *)
Advance ==
  /\ sync.step = "advance"
  /\ file' = IF Newest = watermark THEN file ELSE Newest
  /\ watermark' = Newest
  /\ initialized' = TRUE
  /\ sync' = NoSync
  /\ UNCHANGED <<now, source, target, process, due, backlog, partial>>

(* A plausible bug: an error leaves the scheduler's flag up.               *)
SyncFailsStuck ==
  /\ sync.step \in {"search", "ingest", "diagnose", "advance"}
  /\ sync' = [sync EXCEPT !.step = "stuck"]
  /\ UNCHANGED <<now, source, target, file, watermark, initialized, process,
                 due, backlog, partial>>

(* A plausible bug: what the ingest answers is not looked at.              *)
SyncFailsGoesOn ==
  /\ sync.step = "ingest"
  /\ \E step \in AfterIngest(sync.rows) : sync' = [sync EXCEPT !.step = step]
  /\ UNCHANGED <<now, source, target, file, watermark, initialized, process,
                 due, backlog, partial>>

(* A search, an ingest or the write of the file fails, before or after it  *)
(* has had its effect: the sync ends, the next one begins like this one.   *)
SyncFails ==
  /\ sync.step # "idle"
  /\ \/ UNCHANGED <<target, file>>
     \/ sync.step = "ingest" /\ target' = target \cup Aggregate(sync.rows) /\ UNCHANGED file
     \/ sync.step = "advance" /\ Newest > watermark /\ file' = Newest /\ UNCHANGED target
  /\ sync' = NoSync
  /\ UNCHANGED <<now, source, watermark, initialized, process, due, backlog, partial>>

(***************************************************************************)
(* The process.                                                            *)
(***************************************************************************)

(* A sync in progress goes on until the server has closed.                 *)
Stop ==
  /\ process = "running"
  /\ process' = "stopping"
  /\ UNCHANGED <<now, source, target, file, watermark, initialized, sync,
                 due, backlog, partial>>

(* A plausible bug: a service that finds a watermark calls itself ready.   *)
RestartTrustsFile ==
  /\ process' = "running"
  /\ watermark' = file
  /\ initialized' = (file > 0)
  /\ sync' = NoSync
  /\ backlog' = {r \in Missing(due) : r.time <= now}
  /\ UNCHANGED <<now, source, target, file, due, partial>>

(* The process ends, after a signal or by itself, and is started again.    *)
Restart ==
  /\ process' = "running"
  /\ watermark' = file
  /\ initialized' = FALSE
  /\ sync' = NoSync
  /\ backlog' = {r \in Missing(due) : r.time <= now}
  /\ UNCHANGED <<now, source, target, file, due, partial>>

Init ==
  /\ now = 1
  /\ source = {}
  /\ target = {}
  /\ file = 0
  /\ watermark = 0
  /\ initialized = FALSE
  /\ process = "running"
  /\ sync = NoSync
  /\ due = {}
  /\ backlog = {}
  /\ partial = FALSE

Next ==
  \/ Tick
  \/ \E r \in Row : RowArrives(r)
  \/ SyncStarts
  \/ SearchAnswers
  \/ SearchUnreadable
  \/ IngestStores
  \/ DiagnosticsStored
  \/ Advance
  \/ SyncFails
  \/ Stop
  \/ Restart

Spec == Init /\ [][Next]_vars

Answers ==
  SearchAnswers \/ SearchUnreadable \/ IngestStores \/ DiagnosticsStored \/ Advance

(* The interval keeps firing, every call ends and so does a stopping       *)
(* process; the process does not end, nor OpenObserve fail, in the middle  *)
(* of every sync.                                                          *)
FairSpec ==
  /\ Spec
  /\ WF_vars(Tick)
  /\ SF_vars(SyncStarts)
  /\ WF_vars(Answers \/ SyncFails)
  /\ SF_vars(SearchAnswers)
  /\ SF_vars(IngestStores)
  /\ WF_vars(process = "stopping" /\ Restart)

TypeOK ==
  /\ now \in 1 .. Horizon
  /\ source \subseteq Row
  /\ target \subseteq Record
  /\ file \in 0 .. Horizon
  /\ watermark \in 0 .. Horizon
  /\ initialized \in BOOLEAN
  /\ process \in {"running", "stopping"}
  /\ sync.step \in {"idle", "search", "ingest", "diagnose", "advance"}
  /\ sync.at \in 0 .. Horizon
  /\ sync.rows \subseteq source
  /\ due \subseteq source
  /\ backlog \subseteq due
  /\ partial \in BOOLEAN

(***************************************************************************)
(* Properties.                                                             *)
(***************************************************************************)

(* Some row of the time has its record, or needs none.                     *)
EarnedAt(w) == w > 0 => \E r \in source : r.time = w /\ r \notin Missing(source)

(* The watermark in memory and the one on file, whatever failure or crash  *)
(* they survived, each stand for work done; and the file is never behind   *)
(* the memory, so that a successor searches from no earlier watermark.     *)
WatermarkIsEarned == EarnedAt(watermark) /\ EarnedAt(file) /\ watermark <= file

(* No search forgets: while each returned its whole window, a row that     *)
(* arrived within the look-back has its record or is in the window of the  *)
(* next sync, of this process or, from the file, of its successor.         *)
NothingSkipped ==
  ~ partial => \A r \in Missing(due) : /\ watermark <= r.time + Lookback
                                       /\ file <= r.time + Lookback

(* A service that reports itself ready has caught up with what arrived     *)
(* while its predecessor was failing or gone; an empty answer that was no  *)
(* answer makes it ready, too.                                             *)
ReadyMeansCaughtUp ==
  initialized /\ ~ partial => Missing(backlog) = {}

(* Every row that arrives within the look-back gets its record, unless a   *)
(* search returns less than its window.                                    *)
EventuallyRecorded ==
  \A r \in [session : Session, time : 1 .. Horizon] :
    r \in due ~> Recorded(r) \/ partial

(* The types, and a watermark that is earned in memory and on file.        *)
WatermarkOK == TypeOK /\ WatermarkIsEarned

(***************************************************************************)
(* The inductive invariant behind the three.                               *)
(***************************************************************************)
Answered == sync.step \in {"ingest", "diagnose", "advance"}

(* A sync is a record of rows the source holds; nothing is ahead of the    *)
(* clock, and the file is never behind the memory.                         *)
SyncOK ==
  /\ sync \in [step : {"idle", "search"} \cup {"ingest", "diagnose", "advance"},
               at : 0 .. Horizon, rows : SUBSET source]
  /\ IsFiniteSet(source)
  /\ sync.at <= now /\ file <= now /\ watermark <= file
  /\ \A r \in sync.rows : r.time <= now
  /\ ~ Answered => sync.rows = {}

(* Whoever holds a watermark, or is about to write one, has seen its rows  *)
(* recorded.                                                               *)
AllEarned ==
  /\ EarnedAt(file)
  /\ EarnedAt(watermark)
  /\ sync.step \in {"diagnose", "advance"} => Missing(sync.rows) = {}

(* A due row without a record is one the sync in progress is about to      *)
(* record, or one that the newest row of the sync is not too far ahead of. *)
NothingForgotten ==
  /\ watermark = 0 => due = {}
  /\ NothingSkipped
  /\ ~ partial => \A r \in Missing(due) :
                    r \in sync.rows \/ \A q \in sync.rows : q.time <= r.time + Lookback

(* What was missing when the process began is found by its first sync.     *)
BacklogCaught ==
  /\ \A r \in backlog : r.time <= now /\ (sync.step = "search" => r.time <= sync.at)
  /\ ReadyMeansCaughtUp
  /\ Answered /\ ~ partial => Missing(backlog) \subseteq sync.rows

IInv == TypeOK /\ SyncOK /\ AllEarned /\ NothingForgotten /\ BacklogCaught
=============================================================================
