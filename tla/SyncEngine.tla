------------------------------ MODULE SyncEngine ------------------------------
(***************************************************************************)
(* The CRM import: SyncEngine.runEntity and persistRecords over the cursor *)
(* store (PrismaSyncStore), as run by one or more processes ("runners":    *)
(* the sync worker, and a resync or an import started by hand, which take  *)
(* no lock).                                                               *)
(*                                                                         *)
(* A row is one portal record.  Its data is abstracted to a version, and   *)
(* the version is the instant the portal stamped on it (DATE_MODIFY or     *)
(* CREATED_TIME).  The portal stamps a row before its lists return it, so  *)
(* a row has two versions there: stamped, and shown.                       *)
(***************************************************************************)
EXTENDS Integers, FiniteSets

CONSTANTS
  Row,        \* Record ids; a walk reads them in ascending order.
  Entity,     \* SyncEntityValue: the tables the engine imports.
  EntityOf,   \* EntityOf[r]: the entity of a row.
  Needs,      \* Needs[r]: rows whose absence makes the handler skip r.
  Whole,      \* Entities whose fetch ignores updatedSince.
  Fixed,      \* Entities whose records are never edited (stage history).
  Strict,     \* Entities filtered by '>' (the others by '>=').
  Finalizing, \* Entities whose handler derives a column in finalize.
  Settle,     \* SETTLE_LOOKBACK_MS per entity.
  SkipBack,   \* SKIP_LOOKBACK_MS per entity.
  HistoryEntity, WindIdle, WindBackTo, \* historyBackfillCursor's entity and times.
  Runner,     \* Processes that run the engine.
  Modes,      \* Modes[k]: how k reads: modes of runEntity, or BYID (persistRecords).
  Since,      \* Instants a BACKFILL may be asked to start from.
  CommitLag,  \* Longest time between a row's stamp and its being listed.
  PageHold,   \* Longest time between reading a page and writing its last row.
  MaxTime,    \* Bound: the clock stops here.
  MaxFaults   \* Bound: failures and crashes of a behaviour.

(***************************************************************************)
(* The lookbacks outlast the portal's commit lag and the writing of a page.*)
(* SyncEngine.ts states the first ("three minutes is more than one tick"); *)
(* the second is only needed when two runners overlap.                     *)
(***************************************************************************)
ASSUME RowAssumption == Row \subseteq Nat \ {0}
ASSUME EntityAssumption ==
  /\ EntityOf \in [Row -> Entity]
  /\ Needs \in [Row -> SUBSET Row]
ASSUME LookbackAssumption ==
  /\ CommitLag \in Nat /\ PageHold \in Nat
  /\ Settle \in [Entity -> Nat] /\ SkipBack \in [Entity -> Nat]
  /\ \A e \in Entity \ Whole : Settle[e] > CommitLag + PageHold
ASSUME ModeAssumption == Modes \in [Runner -> SUBSET {"FULL", "INCREMENTAL", "BACKFILL", "BYID"}]
ASSUME HistoryAssumption == HistoryEntity \in Entity /\ Since \subseteq Nat
ASSUME BoundAssumption == MaxTime \in Nat \ {0} /\ MaxFaults \in Nat
ASSUME WindAssumption == WindIdle \in Nat /\ WindBackTo \in Nat

VARIABLES
  now,       \* The clock.
  stamped,   \* stamped[r]: latest version in the portal; 0 = no such record.
  shown,     \* shown[r]: the version the portal's lists return; 0 = none.
  stored,    \* stored[r]: the version in Postgres; 0 = no row.
  storedAt,  \* storedAt[p]: when a row others refer to was first written; 0 = never.
  cursor,    \* cursor[e]: sync_cursor.lastSyncedAt; 0 or less reads everything.
  underived, \* Rows inserted whose derived column no finalize has computed yet.
  \* The locals of each runner's run:
  pc,        \* The step it is at.
  entity, mode, startedAt, \* What it runs, how, and since when.
  from,      \* The watermark it reads from.
  pos, done, \* Where its walk stands; whether the last page was the end of it.
  held,      \* held[k][r]: the version of r in the page in hand; 0 = not in it.
  fetchedAt, \* When that page was read; 0 = no page.
  marks,     \* What went wrong so far.
  touched,   \* Rows the next finalize derives; the handler's, not the run's.
  faults     \* Failures so far.

portal == <<now, stamped, shown>>
database == <<stored, storedAt, cursor, underived>>
job == <<entity, mode, startedAt, from>>
walk == <<pos, done>>
page == <<held, fetchedAt>>
vars == <<portal, database, pc, job, walk, page, marks, touched, faults>>

RunModes == {"FULL", "INCREMENTAL", "BACKFILL", "BYID"}
Marks == {"fatal", "failed", "skipped", "underived"}
Steps == {"idle", "open", "fetch", "batch", "records", "finalize", "cursor", "report"}

NoPage == [r \in Row |-> 0]

RowsOf(e) == {r \in Row : EntityOf[r] = e}
Parents == UNION {Needs[r] : r \in Row}
PageRows(k) == {r \in Row : held[k][r] # 0}

\* The filter of a list call: what a read from watermark w returns of entity e.
After(e, t, w) ==
  \/ e \in Whole
  \/ t > w
  \/ e \notin Strict /\ t = w

Listed(k) == {r \in RowsOf(entity[k]) : shown[r] # 0 /\ After(entity[k], shown[r], from[k])}

\* Mutant: the settle lookback is forgotten.
LookbackOnlyOnSkip(e, skipped) == IF skipped THEN SkipBack[e] ELSE 0

\* nextWatermark: the larger of the two lookbacks, the skip one only on a skip.
Lookback(e, skipped) ==
  IF skipped /\ SkipBack[e] > Settle[e] THEN SkipBack[e] ELSE Settle[e]

Resolvable(r) == \A p \in Needs[r] : stored[p] # 0

\* Mutant: a status that overlooks records that failed.
RunStatusWithoutFailures(k) ==
  IF "fatal" \in marks[k] THEN "FAILED"
  ELSE IF marks[k] \subseteq {"failed"} THEN "SUCCESS" ELSE "PARTIAL"

RunStatus(k) ==
  IF "fatal" \in marks[k] THEN "FAILED"
  ELSE IF marks[k] = {} THEN "SUCCESS" ELSE "PARTIAL"

Init ==
  /\ now = 1
  /\ stamped = NoPage /\ shown = NoPage /\ stored = NoPage /\ storedAt = NoPage
  /\ cursor = [e \in Entity |-> 0]
  /\ underived = {}
  /\ pc = [k \in Runner |-> "idle"]
  /\ entity = [k \in Runner |-> HistoryEntity]
  /\ mode = [k \in Runner |-> "BYID"]
  /\ startedAt = [k \in Runner |-> 0]
  /\ from = [k \in Runner |-> 0]
  /\ pos = [k \in Runner |-> 0]
  /\ done = [k \in Runner |-> FALSE]
  /\ held = [k \in Runner |-> NoPage]
  /\ fetchedAt = [k \in Runner |-> 0]
  /\ marks = [k \in Runner |-> {}]
  /\ touched = [k \in Runner |-> {}]
  /\ faults = 0

-------------------------------------------------------------------------------
(* The portal and the clock. *)

engine == <<pc, job, walk, page, marks, touched>>

\* A record is created or edited: stamped now, listed a moment later.
Stamp(r) ==
  /\ stamped[r] = shown[r]
  /\ stamped[r] < now
  /\ EntityOf[r] \in Fixed => stamped[r] = 0
  /\ stamped' = [stamped EXCEPT ![r] = now]
  /\ UNCHANGED <<now, shown, database, engine, faults>>

Show(r) ==
  /\ shown[r] # stamped[r]
  /\ shown' = [shown EXCEPT ![r] = stamped[r]]
  /\ UNCHANGED <<now, stamped, database, engine, faults>>

Tick ==
  /\ now < MaxTime
  /\ \A r \in Row : stamped[r] # shown[r] => now < stamped[r] + CommitLag
  /\ \A k \in Runner : pc[k] \in {"batch", "records"} => now < fetchedAt[k] + PageHold
  /\ now' = now + 1
  /\ UNCHANGED <<stamped, shown, database, engine, faults>>

-------------------------------------------------------------------------------
(* runEntity. *)

At(k, step) == pc[k] = step
Go(k, step) == pc' = [pc EXCEPT ![k] = step]
Mark(k, m) == marks' = [marks EXCEPT ![k] = @ \cup m]

\* The run's locals go out of scope.
Leave(k) ==
  /\ Go(k, "idle")
  /\ entity' = [entity EXCEPT ![k] = HistoryEntity]
  /\ mode' = [mode EXCEPT ![k] = "BYID"]
  /\ startedAt' = [startedAt EXCEPT ![k] = 0]
  /\ from' = [from EXCEPT ![k] = 0]
  /\ pos' = [pos EXCEPT ![k] = 0]
  /\ done' = [done EXCEPT ![k] = FALSE]
  /\ held' = [held EXCEPT ![k] = NoPage]
  /\ fetchedAt' = [fetchedAt EXCEPT ![k] = 0]
  /\ marks' = [marks EXCEPT ![k] = {}]

\* A failure draws on the budget; the records of a rejected page are paid for.
Fail == faults < MaxFaults /\ faults' = faults + 1

\* beginRun, then startedAt: taken before anything is read.
Begin(k, e, m) ==
  /\ At(k, "idle")
  /\ Go(k, "open")
  /\ entity' = [entity EXCEPT ![k] = e]
  /\ mode' = [mode EXCEPT ![k] = m]
  /\ startedAt' = [startedAt EXCEPT ![k] = now]
  /\ UNCHANGED <<portal, database, from, walk, page, marks, touched, faults>>

\* The watermark: the stored cursor, the caller's updatedSince, or everything.
Watermarks(k) ==
  IF mode[k] = "INCREMENTAL" THEN {cursor[entity[k]]}
  ELSE IF mode[k] = "BACKFILL" THEN Since ELSE {0}

OpenRun(k) ==
  /\ At(k, "open")
  /\ Go(k, "fetch")
  /\ \E w \in Watermarks(k) : from' = [from EXCEPT ![k] = w]
  /\ pos' = [pos EXCEPT ![k] = 0]
  /\ done' = [done EXCEPT ![k] = FALSE]
  /\ UNCHANGED <<portal, database, entity, mode, startedAt, page, marks, touched, faults>>

\* A page in hand: rows S of the walk as the portal shows them now.
Hold(k, S, last, end) ==
  /\ Go(k, IF S = {} THEN "finalize" ELSE "batch")
  /\ pos' = [pos EXCEPT ![k] = last]
  /\ done' = [done EXCEPT ![k] = end]
  /\ held' = [held EXCEPT ![k] = [r \in Row |-> IF r \in S THEN shown[r] ELSE 0]]
  /\ fetchedAt' = [fetchedAt EXCEPT ![k] = IF S = {} THEN 0 ELSE now]

\* One page of the walk, up to the last row the answer reached; how far that is
\* depends on the width of the batch.
FetchPage(k, last) ==
  /\ At(k, "fetch")
  /\ last \in Listed(k) /\ last > pos[k]
  /\ Hold(k, {r \in Listed(k) : r > pos[k] /\ r <= last}, last, FALSE)
  /\ UNCHANGED <<portal, database, job, marks, touched, faults>>

\* The page that ends the walk (no nextCursor): all that is left of it.
FetchLastPage(k) ==
  /\ At(k, "fetch")
  /\ Hold(k, {r \in Listed(k) : r > pos[k]}, pos[k], TRUE)
  /\ UNCHANGED <<portal, database, job, marks, touched, faults>>

\* A page that cannot be read ends the run: fatal, and nothing is derived.
\* Mutant: a page that cannot be read is taken for the end of the walk.
FetchFailsEnds(k) ==
  /\ At(k, "fetch")
  /\ Fail
  /\ Go(k, "finalize")
  /\ UNCHANGED <<portal, database, job, walk, page, marks, touched>>

FetchFails(k) ==
  /\ At(k, "fetch")
  /\ Fail
  /\ Go(k, "report")
  /\ Mark(k, {"fatal"})
  /\ UNCHANGED <<portal, database, job, walk, page, touched>>

\* The upsert of rows S out of the page in hand.
Upsert(k, S) ==
  /\ stored' = [r \in Row |-> IF r \in S THEN held[k][r] ELSE stored[r]]
  /\ storedAt' = [r \in Row |-> IF r \in S \cap Parents /\ stored[r] = 0
                                  THEN now ELSE storedAt[r]]
  /\ underived' = underived \cup {r \in S : EntityOf[r] \in Finalizing /\ stored[r] = 0}
  /\ touched' = [touched EXCEPT ![k] = @ \cup {r \in S : EntityOf[r] \in Finalizing}]

\* Where a run goes once its page is written; rows read by id have no walk.
AfterPage(k) ==
  IF mode[k] = "BYID" THEN "report" ELSE IF done[k] THEN "finalize" ELSE "fetch"

\* Mutant: the record loop stops at the first record.
RecordsDoneAtFirst(k, S, m) ==
  /\ Go(k, AfterPage(k))
  /\ held' = [held EXCEPT ![k] = [r \in Row |-> IF r \in S THEN 0 ELSE held[k][r]]]
  /\ fetchedAt' = [fetchedAt EXCEPT ![k] = 0]
  /\ Mark(k, m)

\* Rows S of the page in hand are dealt with, leaving marks m on the run.
RecordsDone(k, S, m) ==
  LET last == PageRows(k) \subseteq S IN
  /\ Go(k, IF last THEN AfterPage(k) ELSE pc[k])
  /\ held' = [held EXCEPT ![k] = [r \in Row |-> IF r \in S THEN 0 ELSE held[k][r]]]
  /\ fetchedAt' = [fetchedAt EXCEPT ![k] = IF last THEN 0 ELSE @]
  /\ Mark(k, m)

\* Rows S are written, those whose references do not resolve skipped.
Persist(k, S) ==
  LET kept == {r \in S : Resolvable(r)} IN
  /\ Upsert(k, kept)
  /\ RecordsDone(k, S, IF kept = S THEN {} ELSE {"skipped"})
  /\ UNCHANGED <<portal, cursor, job, walk, faults>>

\* persistBatch: the whole page at once.
PersistBatch(k) == At(k, "batch") /\ Persist(k, PageRows(k))

\* The batch was refused: fall back to one record at a time.
BatchRejected(k) ==
  /\ At(k, "batch")
  /\ Fail
  /\ Go(k, "records")
  /\ UNCHANGED <<portal, database, job, walk, page, marks, touched>>

IsNextRecord(k, r) == r \in PageRows(k) /\ \A q \in PageRows(k) : r <= q

PersistRecord(k, r) == At(k, "records") /\ IsNextRecord(k, r) /\ Persist(k, {r})

RecordRejected(k, r) ==
  /\ At(k, "records") /\ IsNextRecord(k, r)
  /\ RecordsDone(k, {r}, {"failed"})
  /\ UNCHANGED <<portal, database, job, walk, touched, faults>>

\* The handler's finalize.  It empties its list of touched rows before it
\* derives them.
Finalize(k) ==
  /\ At(k, "finalize")
  /\ Go(k, "cursor")
  /\ underived' = underived \ touched[k]
  /\ touched' = [touched EXCEPT ![k] = {}]
  /\ UNCHANGED <<portal, stored, storedAt, cursor, job, walk, page, marks, faults>>

FinalizeFails(k) ==
  /\ At(k, "finalize")
  /\ touched[k] # {}
  /\ Fail
  /\ Go(k, "cursor")
  /\ touched' = [touched EXCEPT ![k] = {}]
  /\ Mark(k, {"underived"})
  /\ UNCHANGED <<portal, database, job, walk, page>>

\* Mutant: records that failed do not hold the watermark.
MayAdvanceOnFailure(k) == "fatal" \notin marks[k] /\ mode[k] # "BACKFILL"

\* Mutant: a window re-read by hand moves the cursor.
MayAdvanceInBackfill(k) == marks[k] \cap {"fatal", "failed"} = {}

MayAdvance(k) == marks[k] \cap {"fatal", "failed"} = {} /\ mode[k] # "BACKFILL"

NextWatermark(k) == startedAt[k] - Lookback(entity[k], "skipped" \in marks[k])

SetCursor(k) ==
  /\ At(k, "cursor")
  /\ Go(k, "report")
  /\ cursor' = IF MayAdvance(k) THEN [cursor EXCEPT ![entity[k]] = NextWatermark(k)]
                                ELSE cursor
  /\ UNCHANGED <<portal, stored, storedAt, underived, job, walk, page, marks, touched, faults>>

\* finishRun writes RunStatus(k) to sync_log; persistRecords returns its counts.
FinishRun(k) ==
  /\ At(k, "report")
  /\ Leave(k)
  /\ UNCHANGED <<portal, database, touched, faults>>

-------------------------------------------------------------------------------
(* persistRecords, and what happens around a run. *)

\* Records read by id (portal events, triage moves): the same upsert with no
\* run around it.  Refused for an entity that has a finalize.
ReadByIds(k, e, S) ==
  /\ At(k, "idle")
  /\ "BYID" \in Modes[k]
  /\ e \notin Finalizing
  /\ S \subseteq {r \in RowsOf(e) : shown[r] # 0} /\ S # {}
  /\ Hold(k, S, 0, FALSE)
  /\ entity' = [entity EXCEPT ![k] = e]
  /\ mode' = [mode EXCEPT ![k] = "BYID"]
  /\ UNCHANGED <<portal, database, startedAt, from, marks, touched, faults>>

\* A write of the store itself throws: runEntity rejects, the log row stays.
StoreFails(k) ==
  /\ pc[k] \in {"open", "cursor", "report"} /\ mode[k] # "BYID"
  /\ Fail
  /\ Leave(k)
  /\ UNCHANGED <<portal, database, touched>>

\* The process dies between two awaits: what it held in memory goes with it.
Crash(k) ==
  /\ ~ At(k, "idle") \/ touched[k] # {}
  /\ Fail
  /\ Leave(k)
  /\ touched' = [touched EXCEPT ![k] = {}]
  /\ UNCHANGED <<portal, database>>

\* historyBackfillCursor at a worker's start: only an idle cursor, only back.
WindBack ==
  /\ cursor[HistoryEntity] > 0
  /\ now - cursor[HistoryEntity] >= WindIdle
  /\ now - WindBackTo < cursor[HistoryEntity]
  /\ cursor' = [cursor EXCEPT ![HistoryEntity] = now - WindBackTo]
  /\ UNCHANGED <<portal, stored, storedAt, underived, engine, faults>>

RunStep(k) ==
  \/ OpenRun(k)
  \/ FetchLastPage(k)
  \/ \E last \in Row : FetchPage(k, last)
  \/ PersistBatch(k)
  \/ \E r \in Row : PersistRecord(k, r)
  \/ Finalize(k)
  \/ SetCursor(k)
  \/ FinishRun(k)

Failure(k) ==
  \/ FetchFails(k)
  \/ BatchRejected(k)
  \/ \E r \in Row : RecordRejected(k, r)
  \/ FinalizeFails(k)
  \/ StoreFails(k)
  \/ Crash(k)

Next ==
  \/ \E r \in Row : Stamp(r) \/ Show(r)
  \/ Tick
  \/ \E k \in Runner :
       \/ \E e \in Entity, m \in Modes[k] \ {"BYID"} : Begin(k, e, m)
       \/ \E e \in Entity, S \in SUBSET Row : ReadByIds(k, e, S)
       \/ RunStep(k)
       \/ Failure(k)
  \/ WindBack

Spec == Init /\ [][Next]_vars

(***************************************************************************)
(* The worker's loop is fair: it takes the steps of a run it has begun and *)
(* runs every entity on every tick.  The portal lists what it has stamped. *)
(* A failure is never fair.                                                *)
(***************************************************************************)
Fairness ==
  /\ \A r \in Row : WF_vars(Show(r))
  /\ \A k \in Runner : WF_vars(RunStep(k) \/ BatchRejected(k))
  /\ \A k \in Runner, e \in Entity : SF_vars(Begin(k, e, "INCREMENTAL"))

FairSpec == Spec /\ Fairness

-------------------------------------------------------------------------------
(* Properties. *)

PageInHand == \A k \in Runner : PageRows(k) # {} <=> pc[k] \in {"batch", "records"}

\* Types; and a run holds a page exactly while it is writing one.
TypeOK ==
  /\ now \in Nat
  /\ stamped \in [Row -> Nat] /\ shown \in [Row -> Nat]
  /\ stored \in [Row -> Nat] /\ storedAt \in [Row -> Nat]
  /\ cursor \in [Entity -> Int]
  /\ underived \subseteq Row
  /\ pc \in [Runner -> Steps]
  /\ entity \in [Runner -> Entity] /\ mode \in [Runner -> RunModes]
  /\ startedAt \in [Runner -> Nat] /\ from \in [Runner -> Int]
  /\ pos \in [Runner -> Nat] /\ done \in [Runner -> BOOLEAN]
  /\ held \in [Runner -> [Row -> Nat]] /\ fetchedAt \in [Runner -> Nat]
  /\ marks \in [Runner -> SUBSET Marks]
  /\ PageInHand
  /\ touched \in [Runner -> SUBSET Row]
  /\ faults \in Nat

\* The portal shows a version that the database does not hold.
Missing(r) == shown[r] # 0 /\ stored[r] # shown[r]

\* The next incremental run of the row's entity will read it.
InReach(r) == After(EntityOf[r], shown[r], cursor[EntityOf[r]])

\* A row it refers to was not written until the skip lookback was over.
Late(r) ==
  LET limit == shown[r] + Lookback(EntityOf[r], TRUE) IN
  \E p \in Needs[r] : \/ storedAt[p] = 0 /\ now >= limit
                      \/ storedAt[p] >= limit

(***************************************************************************)
(* No record is lost by the cursor: whatever the portal shows and the      *)
(* database lacks is still in reach of the next incremental run, unless    *)
(* the rows it refers to came later than the skip lookback allows for.     *)
(* About nextWatermark and setCursor against late-listed rows, rows edited *)
(* during a walk, skips, failed records, crashes, and a second process     *)
(* writing an older page over a newer row.                                 *)
(***************************************************************************)
NothingForgotten == \A r \in Row : Missing(r) => InReach(r) \/ Late(r)

(***************************************************************************)
(* A run about to be reported as SUCCESS in sync_log left no settled row   *)
(* of its window unwritten: the report that the sweep and the slow clocks  *)
(* rely on is true, whatever changed in the portal while it walked.        *)
(***************************************************************************)
SuccessIsComplete ==
  \A k \in Runner :
    At(k, "report") /\ mode[k] # "BYID" /\ RunStatus(k) = "SUCCESS" /\ entity[k] \notin Whole
      => \A r \in Listed(k) :
           shown[r] <= startedAt[k] - Settle[entity[k]] => stored[r] = shown[r]

(***************************************************************************)
(* A derivation that failed waits for a later run (SyncEngine.ts, the      *)
(* comment above finalize): an inserted row whose derived column is not    *)
(* computed is remembered by a runner or still in reach of the cursor.     *)
(***************************************************************************)
DerivationWaits ==
  \A r \in underived : InReach(r) \/ \E k \in Runner : r \in touched[k]

(***************************************************************************)
(* Under fairness, and with failures that end, every version the portal    *)
(* shows is written or replaced by a newer one, once the rows it refers to *)
(* are there, unless they came too late.                                   *)
(***************************************************************************)
EventuallyStored ==
  \A r \in Row :
    Missing(r) /\ (\A p \in Needs[r] : shown[p] # 0) ~> ~ Missing(r) \/ Late(r)

(***************************************************************************)
(* The engine implements the mirror: a row that refers to nothing leaves   *)
(* the debt only by being written at the version the portal shows.         *)
(***************************************************************************)
Mirror == INSTANCE CrmMirror WITH
  Dependent <- {r \in Row : Needs[r] # {}},
  owed <- {r \in Row : Missing(r) /\ InReach(r)}

ImplementsMirror == Mirror!Spec

-------------------------------------------------------------------------------
(* The inductive invariant behind NothingForgotten. *)

Reading(k) == pc[k] \in {"fetch", "batch", "records", "finalize", "cursor"}

\* Versions are in the past, and a stamp is listed within CommitLag.
PortalClock ==
  /\ now > 0
  /\ \A r \in Row : /\ shown[r] <= stamped[r] /\ stamped[r] <= now
                    /\ stamped[r] # shown[r] => now <= stamped[r] + CommitLag

FirstWrites == \A p \in Parents : storedAt[p] = 0 <=> stored[p] = 0

\* A run started in the past, and its page is written within PageHold.
RunClock ==
  \A k \in Runner :
    /\ startedAt[k] <= now
    /\ pc[k] = "fetch" => ~ done[k]
    /\ pc[k] \in {"open", "fetch", "finalize", "cursor"} => mode[k] # "BYID"
    /\ pc[k] \in {"batch", "records"} =>
         fetchedAt[k] <= now /\ now <= fetchedAt[k] + PageHold

\* A version in hand is older than the one shown only if that one is recent.
PageFresh ==
  \A k \in Runner : \A r \in PageRows(k) :
    /\ EntityOf[r] = entity[k]
    /\ held[k][r] # shown[r] => shown[r] + CommitLag >= fetchedAt[k]

\* A cursor stays the settle lookback behind the clock.
CursorBehind == \A e \in Entity : cursor[e] <= 0 \/ cursor[e] + Settle[e] <= now

\* Why a run that moves its cursor may do so although row r is missing.
Covered(k, r) ==
  \/ shown[r] + Settle[EntityOf[r]] > startedAt[k]
  \/ Late(r)
  \/ "failed" \in marks[k]
  \/ /\ "skipped" \in marks[k]
     /\ \E p \in Needs[r] : storedAt[p] = 0 \/ storedAt[p] >= startedAt[k]
  \/ held[k][r] = shown[r]
  \/ /\ pc[k] \in {"fetch", "batch", "records"} /\ ~ done[k]
     /\ r > pos[k] /\ After(EntityOf[r], shown[r], from[k])

Coverage ==
  \A k \in Runner : Reading(k) /\ mode[k] \in {"INCREMENTAL", "FULL"} =>
    \A r \in RowsOf(entity[k]) :
      EntityOf[r] \notin Whole /\ Missing(r) => Covered(k, r)

IInv ==
  /\ TypeOK /\ PortalClock /\ FirstWrites /\ RunClock
  /\ PageFresh /\ CursorBehind /\ Coverage /\ NothingForgotten

=============================================================================
