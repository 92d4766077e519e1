--------------------------- MODULE SyncEngineProofs ---------------------------
(* Proofs about SyncEngine, and that it implements CrmMirror, for every set *)
(* of rows, entities and runners.                                           *)
EXTENDS SyncEngine, TLAPS

\* The assumptions every step uses.
Assumed == /\ Row \subseteq Nat \ {0}
           /\ EntityOf \in [Row -> Entity] /\ Needs \in [Row -> SUBSET Row]
           /\ CommitLag \in Nat /\ PageHold \in Nat
           /\ Settle \in [Entity -> Nat] /\ SkipBack \in [Entity -> Nat]
           /\ \A e \in Entity \ Whole : Settle[e] > CommitLag + PageHold
           /\ Modes \in [Runner -> SUBSET {"FULL", "INCREMENTAL", "BACKFILL", "BYID"}]
           /\ HistoryEntity \in Entity /\ Since \subseteq Nat
           /\ MaxTime \in Nat /\ MaxFaults \in Nat
           /\ WindIdle \in Nat /\ WindBackTo \in Nat

LEMMA AssumedHolds == Assumed
  BY RowAssumption, EntityAssumption, LookbackAssumption, ModeAssumption,
     HistoryAssumption, BoundAssumption, WindAssumption DEF Assumed

-------------------------------------------------------------------------------
(* Type correctness. *)

\* A page is held exactly while its rows are being written, and is of its type.
LEMMA HoldType ==
  ASSUME TypeOK, NEW k \in Runner, NEW S \in SUBSET Row, NEW last \in Nat, NEW end \in BOOLEAN,
         \A r \in S : shown[r] # 0, Hold(k, S, last, end)
  PROVE  /\ pc' \in [Runner -> Steps] /\ pos' \in [Runner -> Nat] /\ done' \in [Runner -> BOOLEAN]
         /\ held' \in [Runner -> [Row -> Nat]] /\ fetchedAt' \in [Runner -> Nat]
         /\ PageInHand'
<1> USE AssumedHolds DEF Assumed, TypeOK, Hold, Go, Steps
<1>1. pc' \in [Runner -> Steps] /\ pos' \in [Runner -> Nat] /\ done' \in [Runner -> BOOLEAN]
      /\ held' \in [Runner -> [Row -> Nat]] /\ fetchedAt' \in [Runner -> Nat]
  OBVIOUS
<1>2. PageRows(k)' = S /\ \A j \in Runner \ {k} : PageRows(j)' = PageRows(j)
  BY DEF PageRows
<1>3. PageInHand'
  BY <1>2 DEF PageInHand
<1>4. QED
  BY <1>1, <1>3

LEMMA RecordsDoneType ==
  ASSUME TypeOK, NEW k \in Runner, NEW S, NEW m \in SUBSET Marks, pc[k] \in {"batch", "records"},
         RecordsDone(k, S, m)
  PROVE  /\ pc' \in [Runner -> Steps] /\ held' \in [Runner -> [Row -> Nat]]
         /\ fetchedAt' \in [Runner -> Nat] /\ marks' \in [Runner -> SUBSET Marks]
         /\ PageInHand'
<1> USE AssumedHolds DEF Assumed, TypeOK, RecordsDone, Go, Mark, Steps
<1>1. AfterPage(k) \in {"report", "finalize", "fetch"}
  BY DEF AfterPage
<1>2. pc' \in [Runner -> Steps] /\ held' \in [Runner -> [Row -> Nat]]
      /\ fetchedAt' \in [Runner -> Nat] /\ marks' \in [Runner -> SUBSET Marks]
  BY <1>1
<1>3. PageRows(k)' = PageRows(k) \ S /\ \A j \in Runner \ {k} : PageRows(j)' = PageRows(j)
  BY DEF PageRows
<1>4. PageInHand'
  BY <1>1, <1>3 DEF PageInHand
<1>5. QED
  BY <1>2, <1>4

LEMMA UpsertType ==
  ASSUME TypeOK, NEW k \in Runner, NEW S \in SUBSET Row, Upsert(k, S)
  PROVE  /\ stored' \in [Row -> Nat] /\ storedAt' \in [Row -> Nat]
         /\ underived' \subseteq Row /\ touched' \in [Runner -> SUBSET Row]
<1> USE AssumedHolds DEF Assumed, TypeOK, Upsert
<1>1. stored' \in [Row -> Nat]
  OBVIOUS
<1>2. storedAt' \in [Row -> Nat]
  OBVIOUS
<1>3. underived' \subseteq Row /\ touched' \in [Runner -> SUBSET Row]
  OBVIOUS
<1>4. QED
  BY <1>1, <1>2, <1>3

LEMMA LeaveType ==
  ASSUME TypeOK, NEW k \in Runner, Leave(k)
  PROVE  /\ pc' \in [Runner -> Steps] /\ entity' \in [Runner -> Entity]
         /\ mode' \in [Runner -> RunModes] /\ startedAt' \in [Runner -> Nat]
         /\ from' \in [Runner -> Int] /\ pos' \in [Runner -> Nat] /\ done' \in [Runner -> BOOLEAN]
         /\ held' \in [Runner -> [Row -> Nat]] /\ fetchedAt' \in [Runner -> Nat]
         /\ marks' \in [Runner -> SUBSET Marks] /\ PageInHand'
<1> USE AssumedHolds DEF Assumed, TypeOK, Leave, Go, Steps, RunModes, NoPage
<1>1. PageRows(k)' = {} /\ \A j \in Runner \ {k} : PageRows(j)' = PageRows(j)
  BY DEF PageRows
<1>2. PageInHand'
  BY <1>1 DEF PageInHand
<1>3. QED
  BY <1>2

\* A step that leaves every page alone and does not start or end a page.
LEMMA PageKept ==
  ASSUME TypeOK, NEW k \in Runner, NEW s, Go(k, s), UNCHANGED held,
         pc[k] \in {"batch", "records"} <=> s \in {"batch", "records"}
  PROVE  PageInHand'
BY DEF TypeOK, PageInHand, PageRows, Go

LEMMA TypeStep == ASSUME TypeOK, [Next]_vars PROVE TypeOK'
<1> USE AssumedHolds DEF Assumed
<1>1. ASSUME NEW r \in Row, Stamp(r) \/ Show(r) PROVE TypeOK'
  <2>1. CASE Stamp(r)
    BY <2>1 DEF TypeOK, Stamp, PageInHand, PageRows, database, engine, job, walk, page
  <2>2. CASE Show(r)
    BY <2>2 DEF TypeOK, Show, PageInHand, PageRows, database, engine, job, walk, page
  <2>3. QED
    BY <1>1, <2>1, <2>2
<1>2. CASE Tick
  BY <1>2 DEF TypeOK, Tick, PageInHand, PageRows, database, engine, job, walk, page
<1>3. ASSUME NEW k \in Runner, NEW e \in Entity, NEW m \in Modes[k] \ {"BYID"}, Begin(k, e, m)
      PROVE TypeOK'
  <2>1. m \in RunModes
    BY DEF RunModes
  <2>2. PageInHand'
    BY <1>3, PageKept DEF Begin, At, page
  <2>3. QED
    BY <1>3, <2>1, <2>2 DEF Begin, TypeOK, Go, Steps, portal, database, walk, page
<1>4. ASSUME NEW k \in Runner, NEW e \in Entity, NEW S \in SUBSET Row, ReadByIds(k, e, S)
      PROVE TypeOK'
  <2>1. Hold(k, S, 0, FALSE) /\ \A r \in S : shown[r] # 0
    BY <1>4 DEF ReadByIds
  <2>2. /\ pc' \in [Runner -> Steps] /\ pos' \in [Runner -> Nat] /\ done' \in [Runner -> BOOLEAN]
        /\ held' \in [Runner -> [Row -> Nat]] /\ fetchedAt' \in [Runner -> Nat]
        /\ PageInHand'
    BY <2>1, HoldType
  <2>3. QED
    BY <1>4, <2>2 DEF ReadByIds, TypeOK, RunModes, portal, database
<1>5. ASSUME NEW k \in Runner, OpenRun(k) PROVE TypeOK'
  <2>1. PageInHand'
    BY <1>5, PageKept DEF OpenRun, At, page
  <2>2. QED
    BY <1>5, <2>1 DEF OpenRun, Watermarks, Go, Steps, TypeOK, portal, database, page
<1>6. ASSUME NEW k \in Runner, FetchLastPage(k) PROVE TypeOK'
  <2> DEFINE S == {r \in Listed(k) : r > pos[k]}
  <2>1. Hold(k, S, pos[k], TRUE) /\ S \in SUBSET Row /\ \A r \in S : shown[r] # 0
    BY <1>6 DEF FetchLastPage, Listed, RowsOf
  <2> HIDE DEF S
  <2>2. /\ pc' \in [Runner -> Steps] /\ pos' \in [Runner -> Nat] /\ done' \in [Runner -> BOOLEAN]
        /\ held' \in [Runner -> [Row -> Nat]] /\ fetchedAt' \in [Runner -> Nat]
        /\ PageInHand'
    BY <2>1, HoldType DEF TypeOK
  <2>3. QED
    BY <1>6, <2>2 DEF FetchLastPage, TypeOK, portal, database, job
<1>7. ASSUME NEW k \in Runner, NEW last \in Row, FetchPage(k, last) PROVE TypeOK'
  <2> DEFINE S == {r \in Listed(k) : r > pos[k] /\ r <= last}
  <2>1. Hold(k, S, last, FALSE) /\ S \in SUBSET Row /\ \A r \in S : shown[r] # 0
    BY <1>7 DEF FetchPage, Listed, RowsOf
  <2> HIDE DEF S
  <2>2. /\ pc' \in [Runner -> Steps] /\ pos' \in [Runner -> Nat] /\ done' \in [Runner -> BOOLEAN]
        /\ held' \in [Runner -> [Row -> Nat]] /\ fetchedAt' \in [Runner -> Nat]
        /\ PageInHand'
    BY <2>1, HoldType
  <2>3. QED
    BY <1>7, <2>2 DEF FetchPage, TypeOK, portal, database, job
<1>8. ASSUME NEW k \in Runner, PersistBatch(k) PROVE TypeOK'
  <2>1. Persist(k, PageRows(k)) /\ pc[k] \in {"batch", "records"}
    BY <1>8 DEF PersistBatch, At
  <2>2. /\ pc' \in [Runner -> Steps] /\ held' \in [Runner -> [Row -> Nat]]
        /\ fetchedAt' \in [Runner -> Nat] /\ marks' \in [Runner -> SUBSET Marks]
        /\ PageInHand'
    BY <2>1, RecordsDoneType DEF Persist, Marks
  <2>3. /\ stored' \in [Row -> Nat] /\ storedAt' \in [Row -> Nat]
        /\ underived' \subseteq Row /\ touched' \in [Runner -> SUBSET Row]
    BY <2>1, UpsertType DEF Persist, PageRows
  <2>4. QED
    BY <2>1, <2>2, <2>3 DEF Persist, TypeOK, portal, job, walk
<1>9. ASSUME NEW k \in Runner, NEW r \in Row, PersistRecord(k, r) PROVE TypeOK'
  <2>1. Persist(k, {r}) /\ pc[k] \in {"batch", "records"}
    BY <1>9 DEF PersistRecord, At
  <2>2. /\ pc' \in [Runner -> Steps] /\ held' \in [Runner -> [Row -> Nat]]
        /\ fetchedAt' \in [Runner -> Nat] /\ marks' \in [Runner -> SUBSET Marks]
        /\ PageInHand'
    BY <2>1, RecordsDoneType DEF Persist, Marks
  <2>3. /\ stored' \in [Row -> Nat] /\ storedAt' \in [Row -> Nat]
        /\ underived' \subseteq Row /\ touched' \in [Runner -> SUBSET Row]
    BY <2>1, UpsertType DEF Persist, PageRows
  <2>4. QED
    BY <2>1, <2>2, <2>3 DEF Persist, TypeOK, portal, job, walk
<1>10. ASSUME NEW k \in Runner, Finalize(k) PROVE TypeOK'
  <2>1. PageInHand'
    BY <1>10, PageKept DEF Finalize, At, page
  <2>2. QED
    BY <1>10, <2>1 DEF Finalize, Go, Steps, TypeOK, portal, job, walk, page
<1>11. ASSUME NEW k \in Runner, SetCursor(k) PROVE TypeOK'
  <2>1. PageInHand'
    BY <1>11, PageKept DEF SetCursor, At, page
  <2>2. QED
    BY <1>11, <2>1 DEF SetCursor, NextWatermark, Lookback, Go, Steps, TypeOK, portal, job, walk,
       page
<1>12. ASSUME NEW k \in Runner, FinishRun(k) PROVE TypeOK'
  <2>1. /\ pc' \in [Runner -> Steps] /\ entity' \in [Runner -> Entity]
        /\ mode' \in [Runner -> RunModes] /\ startedAt' \in [Runner -> Nat]
        /\ from' \in [Runner -> Int] /\ pos' \in [Runner -> Nat]
        /\ done' \in [Runner -> BOOLEAN] /\ held' \in [Runner -> [Row -> Nat]]
        /\ fetchedAt' \in [Runner -> Nat] /\ marks' \in [Runner -> SUBSET Marks]
        /\ PageInHand'
    BY <1>12, LeaveType DEF FinishRun
  <2>2. QED
    BY <1>12, <2>1 DEF FinishRun, TypeOK, portal, database
<1>13. ASSUME NEW k \in Runner, FetchFails(k) PROVE TypeOK'
  <2>1. PageInHand'
    BY <1>13, PageKept DEF FetchFails, At, page
  <2>2. QED
    BY <1>13, <2>1 DEF FetchFails, Go, Fail, Mark, Steps, Marks, TypeOK, portal, database, job,
       walk, page
<1>14. ASSUME NEW k \in Runner, BatchRejected(k) PROVE TypeOK'
  <2>1. PageInHand'
    BY <1>14, PageKept DEF BatchRejected, At, page
  <2>2. QED
    BY <1>14, <2>1 DEF BatchRejected, Go, Fail, Steps, TypeOK, portal, database, job, walk, page
<1>15. ASSUME NEW k \in Runner, NEW r \in Row, RecordRejected(k, r) PROVE TypeOK'
  <2>1. /\ pc' \in [Runner -> Steps] /\ held' \in [Runner -> [Row -> Nat]]
        /\ fetchedAt' \in [Runner -> Nat] /\ marks' \in [Runner -> SUBSET Marks]
        /\ PageInHand'
    BY <1>15, RecordsDoneType DEF RecordRejected, At, Marks
  <2>2. QED
    BY <1>15, <2>1 DEF RecordRejected, TypeOK, portal, database, job, walk
<1>16. ASSUME NEW k \in Runner, FinalizeFails(k) PROVE TypeOK'
  <2>1. PageInHand'
    BY <1>16, PageKept DEF FinalizeFails, At, page
  <2>2. QED
    BY <1>16, <2>1 DEF FinalizeFails, Go, Fail, Mark, Steps, Marks, TypeOK, portal, database,
       job, walk, page
<1>17. ASSUME NEW k \in Runner, StoreFails(k) \/ Crash(k) PROVE TypeOK'
  <2>1. /\ pc' \in [Runner -> Steps] /\ entity' \in [Runner -> Entity]
        /\ mode' \in [Runner -> RunModes] /\ startedAt' \in [Runner -> Nat]
        /\ from' \in [Runner -> Int] /\ pos' \in [Runner -> Nat]
        /\ done' \in [Runner -> BOOLEAN] /\ held' \in [Runner -> [Row -> Nat]]
        /\ fetchedAt' \in [Runner -> Nat] /\ marks' \in [Runner -> SUBSET Marks]
        /\ PageInHand'
    BY <1>17, LeaveType DEF StoreFails, Crash
  <2>2. faults' \in Nat
    BY <1>17 DEF StoreFails, Crash, Fail, TypeOK
  <2>3. touched' \in [Runner -> SUBSET Row]
    BY <1>17 DEF StoreFails, Crash, TypeOK
  <2>4. UNCHANGED <<portal, database>>
    BY <1>17 DEF StoreFails, Crash
  <2>5. QED
    BY <2>1, <2>2, <2>3, <2>4 DEF TypeOK, portal, database
<1>18. CASE WindBack
  BY <1>18 DEF WindBack, TypeOK, PageInHand, PageRows, portal, engine, job, walk, page
<1>19. CASE UNCHANGED vars
  BY <1>19 DEF TypeOK, PageInHand, PageRows, vars, portal, database, job, walk, page
<1>20. QED
  BY <1>1, <1>2, <1>3, <1>4, <1>5, <1>6, <1>7, <1>8, <1>9, <1>10, <1>11, <1>12, <1>13, <1>14,
     <1>15, <1>16, <1>17, <1>18, <1>19 DEF Next, RunStep, Failure

\* Every variable keeps its type, and a run holds a page exactly in the steps
\* that write one.
THEOREM TypeCorrect == Spec => []TypeOK
<1>1. Init => TypeOK
  BY AssumedHolds
  DEF Assumed, Init, TypeOK, PageInHand, NoPage, PageRows, Steps, RunModes, Marks
<1>2. TypeOK /\ [Next]_vars => TypeOK'
  BY TypeStep
<1>3. QED
  BY <1>1, <1>2, PTL DEF Spec

-------------------------------------------------------------------------------
(* The steps, by what they do to the data. *)

\* Runner k deals with rows S of the page it holds.
Writes(k, S) == pc[k] \in {"batch", "records"} /\ S \subseteq PageRows(k) /\ Persist(k, S)

LEMMA DataSteps ==
  ASSUME [Next]_vars
  PROVE  \/ UNCHANGED <<now, shown, stored, storedAt, cursor>>
         \/ \E r \in Row : Show(r)
         \/ Tick
         \/ \E k \in Runner : \E S \in SUBSET Row : Writes(k, S)
         \/ \E k \in Runner : SetCursor(k)
         \/ WindBack
<1> USE DEF portal, database
<1>1. ASSUME NEW k \in Runner, PersistBatch(k) PROVE Writes(k, PageRows(k))
  BY <1>1 DEF PersistBatch, At, Writes
<1>2. ASSUME NEW k \in Runner, NEW r \in Row, PersistRecord(k, r) PROVE Writes(k, {r})
  BY <1>2 DEF PersistRecord, IsNextRecord, At, Writes
<1>3. \A k \in Runner : PageRows(k) \in SUBSET Row
  BY DEF PageRows
<1>4. ASSUME NEW k \in Runner, RunStep(k)
      PROVE  \/ UNCHANGED <<now, shown, stored, storedAt, cursor>>
             \/ \E S \in SUBSET Row : Writes(k, S)
             \/ SetCursor(k)
  BY <1>1, <1>2, <1>3, <1>4
  DEF RunStep, OpenRun, FetchLastPage, FetchPage, Finalize, FinishRun
<1>5. ASSUME NEW k \in Runner, Failure(k) PROVE UNCHANGED <<now, shown, stored, storedAt, cursor>>
  BY <1>5 DEF Failure, FetchFails, BatchRejected, RecordRejected, FinalizeFails, StoreFails, Crash
<1>6. QED
  BY <1>4, <1>5 DEF Next, vars, Stamp, Begin, ReadByIds

\* What a write changes, row by row.
LEMMA WriteEffect ==
  ASSUME TypeOK, PortalClock, FirstWrites, NEW k \in Runner, NEW S \in SUBSET Row, Writes(k, S)
  PROVE  /\ UNCHANGED <<now, shown, cursor>>
         /\ \A r \in Row : stored'[r] = stored[r] \/ (r \in S /\ stored'[r] = held[k][r])
         /\ \A r \in S : held[k][r] # 0
         /\ \A p \in Row : storedAt'[p] = storedAt[p] \/ (storedAt[p] = 0 /\ storedAt'[p] = now)
<1> USE AssumedHolds DEF Assumed, Writes, Persist, Upsert, TypeOK
<1>1. UNCHANGED <<now, shown, cursor>>
  BY DEF portal
<1>2. \A r \in Row : stored'[r] = stored[r] \/ (r \in S /\ stored'[r] = held[k][r])
  OBVIOUS
<1>3. \A r \in S : held[k][r] # 0
  BY DEF PageRows
<1>4. \A p \in Row : storedAt'[p] = storedAt[p] \/ (storedAt[p] = 0 /\ storedAt'[p] = now)
  BY DEF FirstWrites
<1>5. QED
  BY <1>1, <1>2, <1>3, <1>4

-------------------------------------------------------------------------------
(* The parts of the invariant about instants. *)

LEMMA PortalClockStep ==
  ASSUME TypeOK, PortalClock, [Next]_vars
  PROVE  PortalClock'
<1> USE AssumedHolds DEF Assumed, TypeOK, PortalClock
<1>1. ASSUME NEW r \in Row, Stamp(r) PROVE PortalClock'
  BY <1>1 DEF Stamp
<1>2. ASSUME NEW r \in Row, Show(r) PROVE PortalClock'
  BY <1>2 DEF Show
<1>3. CASE Tick
  BY <1>3 DEF Tick
<1>4. CASE UNCHANGED portal
  BY <1>4 DEF portal
<1>5. ASSUME NEW k \in Runner, RunStep(k) \/ Failure(k) PROVE UNCHANGED portal
  BY <1>5 DEF RunStep, OpenRun, FetchLastPage, FetchPage, PersistBatch, PersistRecord, Persist,
     Finalize, SetCursor, FinishRun, Failure, FetchFails, BatchRejected, RecordRejected,
     FinalizeFails, StoreFails, Crash
<1>6. QED
  BY <1>1, <1>2, <1>3, <1>4, <1>5 DEF Next, vars, Begin, ReadByIds, WindBack

LEMMA FirstWritesStep ==
  ASSUME TypeOK, PortalClock, FirstWrites, [Next]_vars
  PROVE  FirstWrites'
<1> USE AssumedHolds DEF Assumed, FirstWrites
<1>1. Parents \subseteq Row
  BY DEF Parents
<1>2. ASSUME NEW k \in Runner, NEW S \in SUBSET Row, Writes(k, S) PROVE FirstWrites'
  BY <1>1, <1>2 DEF Writes, Persist, Upsert, PageRows, PortalClock, TypeOK
<1>3. UNCHANGED <<stored, storedAt>> => FirstWrites'
  OBVIOUS
<1>4. QED
  BY <1>2, <1>3, DataSteps DEF Show, Tick, SetCursor, WindBack, database

LEMMA CursorBehindStep ==
  ASSUME TypeOK, RunClock, CursorBehind, [Next]_vars
  PROVE  CursorBehind'
<1> USE AssumedHolds DEF Assumed, TypeOK, CursorBehind
<1>1. ASSUME NEW k \in Runner, SetCursor(k) PROVE CursorBehind'
  <2>1. NextWatermark(k) + Settle[entity[k]] <= now
    BY DEF NextWatermark, Lookback, RunClock
  <2>2. NextWatermark(k) \in Int
    BY DEF NextWatermark, Lookback
  <2>3. QED
    BY <1>1, <2>1, <2>2 DEF SetCursor, portal
<1>2. CASE WindBack
  BY <1>2 DEF WindBack, portal
<1>3. CASE Tick
  BY <1>3 DEF Tick, database
<1>4. UNCHANGED <<now, cursor>> => CursorBehind'
  OBVIOUS
<1>5. ASSUME NEW k \in Runner, NEW S \in SUBSET Row, Writes(k, S) PROVE UNCHANGED <<now, cursor>>
  BY <1>5 DEF Writes, Persist, portal
<1>6. ASSUME NEW r \in Row, Show(r) PROVE UNCHANGED <<now, cursor>>
  BY <1>6 DEF Show, database
<1>7. QED
  BY <1>1, <1>2, <1>3, <1>4, <1>5, <1>6, DataSteps

LEMMA RunClockStep ==
  ASSUME TypeOK, RunClock, [Next]_vars
  PROVE  RunClock'
<1> USE AssumedHolds DEF Assumed, RunClock
<1>1. ASSUME NEW r \in Row, Stamp(r) \/ Show(r) PROVE RunClock'
  BY <1>1 DEF Stamp, Show, engine, job, walk, page
<1>2. CASE Tick
  BY <1>2 DEF Tick, TypeOK, engine, job, walk, page
<1>3. ASSUME NEW k \in Runner, NEW e \in Entity, NEW m \in Modes[k] \ {"BYID"}, Begin(k, e, m)
      PROVE RunClock'
  BY <1>3 DEF Begin, Go, TypeOK, portal, walk, page
<1>4. ASSUME NEW k \in Runner, NEW e \in Entity, NEW S \in SUBSET Row, ReadByIds(k, e, S)
      PROVE RunClock'
  <2>1. now' = now /\ startedAt' = startedAt /\ \A j \in Runner \ {k} : mode'[j] = mode[j]
    BY <1>4 DEF ReadByIds, TypeOK, portal
  <2>2. /\ pc'[k] = "batch" /\ fetchedAt'[k] = now
        /\ \A j \in Runner \ {k} : /\ pc'[j] = pc[j] /\ fetchedAt'[j] = fetchedAt[j]
                                   /\ done'[j] = done[j]
    BY <1>4 DEF ReadByIds, Hold, Go, TypeOK
  <2>3. QED
    BY <2>1, <2>2 DEF TypeOK
<1>5. ASSUME NEW k \in Runner, OpenRun(k) PROVE RunClock'
  BY <1>5 DEF OpenRun, At, Go, TypeOK, portal, page
<1>6. ASSUME NEW k \in Runner, FetchLastPage(k) PROVE RunClock'
  BY <1>6 DEF FetchLastPage, Hold, At, Go, TypeOK, portal, job
<1>7. ASSUME NEW k \in Runner, NEW last \in Row, FetchPage(k, last) PROVE RunClock'
  BY <1>7 DEF FetchPage, Hold, At, Go, TypeOK, portal, job
<1>8. ASSUME NEW k \in Runner, NEW S, NEW m, RecordsDone(k, S, m), pc[k] \in {"batch", "records"},
             UNCHANGED <<portal, job, walk>>
      PROVE  RunClock'
  <2>1. AfterPage(k) \in {"report", "finalize", "fetch"}
        /\ (AfterPage(k) = "fetch" => ~ done[k]) /\ (AfterPage(k) # "report" => mode[k] # "BYID")
    BY DEF AfterPage
  <2>2. pc'[k] \in {pc[k], AfterPage(k)} /\ (pc'[k] = pc[k] => fetchedAt'[k] = fetchedAt[k])
        /\ \A j \in Runner \ {k} : pc'[j] = pc[j] /\ fetchedAt'[j] = fetchedAt[j]
    BY <1>8, <2>1 DEF RecordsDone, Go, TypeOK
  <2>3. QED
    BY <1>8, <2>1, <2>2 DEF portal, job, walk
<1>9. ASSUME NEW k \in Runner, NEW S \in SUBSET Row, Writes(k, S) PROVE RunClock'
  BY <1>8, <1>9 DEF Writes, Persist
<1>10. ASSUME NEW k \in Runner, NEW r \in Row, RecordRejected(k, r) PROVE RunClock'
  BY <1>8, <1>10 DEF RecordRejected, At, database
<1>11. ASSUME NEW k \in Runner, Finalize(k) \/ FinalizeFails(k) PROVE RunClock'
  BY <1>11 DEF Finalize, FinalizeFails, At, Go, TypeOK, portal, job, walk, page
<1>12. ASSUME NEW k \in Runner, SetCursor(k) \/ BatchRejected(k) PROVE RunClock'
  BY <1>12 DEF SetCursor, BatchRejected, At, Go, TypeOK, portal, job, walk, page
<1>13. ASSUME NEW k \in Runner, FetchFails(k) PROVE RunClock'
  BY <1>13 DEF FetchFails, At, Go, TypeOK, portal, job, walk, page
<1>14. ASSUME NEW k \in Runner, FinishRun(k) \/ StoreFails(k) \/ Crash(k) PROVE RunClock'
  <2>1. Leave(k) /\ now' = now
    BY <1>14 DEF FinishRun, StoreFails, Crash, portal
  <2>2. QED
    BY <2>1 DEF Leave, Go, TypeOK
<1>15. CASE WindBack \/ UNCHANGED vars
  BY <1>15 DEF WindBack, vars, portal, engine, job, walk, page
<1>16. ASSUME NEW k \in Runner, PersistBatch(k) PROVE RunClock'
  BY <1>9, <1>16 DEF PersistBatch, At, Writes, PageRows
<1>17. ASSUME NEW k \in Runner, NEW r \in Row, PersistRecord(k, r) PROVE RunClock'
  BY <1>9, <1>17 DEF PersistRecord, IsNextRecord, At, Writes
<1>18. QED
  BY <1>1, <1>2, <1>3, <1>4, <1>5, <1>6, <1>7, <1>10, <1>11, <1>12, <1>13, <1>14, <1>15,
     <1>16, <1>17 DEF Next, RunStep, Failure

-------------------------------------------------------------------------------
(* The page in hand. *)

\* What the pages of the runners other than k depend on.
Others(k) ==
  \A j \in Runner \ {k} : /\ held'[j] = held[j] /\ fetchedAt'[j] = fetchedAt[j]
                          /\ entity'[j] = entity[j]

LEMMA PageFreshStep ==
  ASSUME TypeOK, PortalClock, RunClock, PageFresh, [Next]_vars
  PROVE  PageFresh'
<1> USE AssumedHolds DEF Assumed
<1>1. ASSUME UNCHANGED <<shown, page, entity>> PROVE PageFresh'
  BY <1>1 DEF PageFresh, PageRows, page
<1>2. ASSUME NEW k \in Runner, Others(k), UNCHANGED shown, PageRows(k)' = {} PROVE PageFresh'
  BY <1>2 DEF Others, PageFresh, PageRows
<1>3. ASSUME NEW k \in Runner, Others(k), UNCHANGED shown, PageRows(k)' \subseteq RowsOf(entity'[k]),
             \A r \in PageRows(k)' : held'[k][r] = shown[r]
      PROVE  PageFresh'
  BY <1>3 DEF Others, PageFresh, PageRows, RowsOf
<1>4. ASSUME NEW k \in Runner, NEW S, NEW m, RecordsDone(k, S, m), UNCHANGED <<shown, entity>>
      PROVE  PageFresh'
  <2>1. Others(k)
    BY <1>4 DEF RecordsDone, Others, TypeOK
  <2>2. PageRows(k)' = PageRows(k) \ S /\ \A r \in PageRows(k)' : held'[k][r] = held[k][r]
    <3>1. held'[k] = [r \in Row |-> IF r \in S THEN 0 ELSE held[k][r]]
      BY <1>4 DEF RecordsDone, TypeOK
    <3>2. QED
      BY <3>1 DEF PageRows
  <2>3. PageRows(k)' # {} => fetchedAt'[k] = fetchedAt[k]
    BY <1>4, <2>2 DEF RecordsDone, TypeOK
  <2>4. \A r \in PageRows(k)' : /\ EntityOf[r] = entity'[k]
                                /\ held'[k][r] # shown'[r] => shown'[r] + CommitLag >= fetchedAt'[k]
    BY <1>4, <2>2, <2>3 DEF PageFresh
  <2>5. QED
    BY <1>4, <2>1, <2>4 DEF Others, PageFresh, PageRows
<1>5. ASSUME NEW k \in Runner, NEW S, NEW last, NEW end, Hold(k, S, last, end),
             S \subseteq RowsOf(entity'[k]), UNCHANGED shown,
             \A j \in Runner \ {k} : entity'[j] = entity[j]
      PROVE  PageFresh'
  <2>1. Others(k)
    BY <1>5 DEF Hold, Others, TypeOK
  <2>2. \A r \in Row : held'[k][r] = IF r \in S THEN shown[r] ELSE 0
    BY <1>5 DEF Hold, TypeOK
  <2>3. PageRows(k)' \subseteq RowsOf(entity'[k]) /\ \A r \in PageRows(k)' : held'[k][r] = shown[r]
    BY <1>5, <2>2 DEF PageRows
  <2>4. QED
    BY <1>3, <1>5, <2>1, <2>3
<1>6. ASSUME NEW r \in Row, Show(r) PROVE PageFresh'
  <2>1. UNCHANGED <<page, entity, pc>> /\ shown' = [shown EXCEPT ![r] = stamped[r]]
    BY <1>6 DEF Show, engine, job
  <2>2. \A k \in Runner : PageRows(k) # {} => stamped[r] + CommitLag >= fetchedAt[k]
    <3>1. now <= stamped[r] + CommitLag
      BY <1>6 DEF Show, PortalClock
    <3>2. \A k \in Runner : PageRows(k) # {} => fetchedAt[k] <= now
      BY DEF TypeOK, PageInHand, RunClock
    <3>3. stamped[r] \in Nat /\ now \in Nat /\ \A k \in Runner : fetchedAt[k] \in Nat
      BY DEF TypeOK
    <3>4. QED
      BY <3>1, <3>2, <3>3
  <2>3. QED
    BY <2>1, <2>2 DEF PageFresh, PageRows, page, TypeOK
<1>7. ASSUME NEW k \in Runner, NEW e \in Entity, NEW m \in Modes[k] \ {"BYID"}, Begin(k, e, m)
      PROVE  PageFresh'
  <2>1. PageRows(k) = {}
    BY <1>7 DEF Begin, At, TypeOK, PageInHand
  <2>2. PageRows(k)' = {} /\ UNCHANGED shown /\ Others(k)
    BY <1>7, <2>1 DEF Begin, PageRows, Others, portal, page, TypeOK
  <2>3. QED
    BY <1>2, <2>2
<1>8. ASSUME NEW k \in Runner, NEW e \in Entity, NEW S \in SUBSET Row, ReadByIds(k, e, S)
      PROVE  PageFresh'
  <2>1. /\ Hold(k, S, 0, FALSE) /\ S \subseteq RowsOf(entity'[k]) /\ UNCHANGED shown
        /\ \A j \in Runner \ {k} : entity'[j] = entity[j]
    BY <1>8 DEF ReadByIds, TypeOK, portal
  <2>2. QED
    BY <1>5, <2>1
<1>9. ASSUME NEW k \in Runner, FetchLastPage(k) PROVE PageFresh'
  <2> DEFINE S == {r \in Listed(k) : r > pos[k]}
  <2>1. Hold(k, S, pos[k], TRUE) /\ S \subseteq RowsOf(entity'[k]) /\ UNCHANGED <<shown, entity>>
    BY <1>9 DEF FetchLastPage, Listed, portal, job
  <2> HIDE DEF S
  <2>2. QED
    BY <1>5, <2>1
<1>10. ASSUME NEW k \in Runner, NEW last \in Row, FetchPage(k, last) PROVE PageFresh'
  <2> DEFINE S == {r \in Listed(k) : r > pos[k] /\ r <= last}
  <2>1. Hold(k, S, last, FALSE) /\ S \subseteq RowsOf(entity'[k]) /\ UNCHANGED <<shown, entity>>
    BY <1>10 DEF FetchPage, Listed, portal, job
  <2> HIDE DEF S
  <2>2. QED
    BY <1>5, <2>1
<1>11. ASSUME NEW k \in Runner, PersistBatch(k) PROVE PageFresh'
  BY <1>4, <1>11 DEF PersistBatch, Persist, portal, job
<1>12. ASSUME NEW k \in Runner, NEW r \in Row, PersistRecord(k, r) \/ RecordRejected(k, r)
       PROVE  PageFresh'
  BY <1>4, <1>12 DEF PersistRecord, RecordRejected, Persist, portal, job
<1>13. ASSUME NEW k \in Runner, FinishRun(k) \/ StoreFails(k) \/ Crash(k) PROVE PageFresh'
  <2>1. Leave(k) /\ UNCHANGED shown
    BY <1>13 DEF FinishRun, StoreFails, Crash, portal
  <2>2. PageRows(k)' = {} /\ Others(k)
    BY <2>1 DEF Leave, PageRows, Others, NoPage, TypeOK
  <2>3. QED
    BY <1>2, <2>1, <2>2
<1>14. ASSUME NEW k \in Runner,
              OpenRun(k) \/ Finalize(k) \/ SetCursor(k) \/ FetchFails(k) \/ BatchRejected(k)
              \/ FinalizeFails(k)
       PROVE  UNCHANGED <<shown, page, entity>>
  BY <1>14 DEF OpenRun, Finalize, SetCursor, FetchFails, BatchRejected, FinalizeFails, portal, job
<1>15. (\E r \in Row : Stamp(r)) \/ Tick \/ WindBack \/ UNCHANGED vars
       => UNCHANGED <<shown, page, entity>>
  BY DEF Stamp, Tick, WindBack, vars, portal, engine, job
<1>16. QED
  BY <1>1, <1>6, <1>7, <1>8, <1>9, <1>10, <1>11, <1>12, <1>13, <1>14, <1>15
  DEF Next, RunStep, Failure

-------------------------------------------------------------------------------
(* Lateness, and what an older page may overwrite. *)

LEMMA LookbackFacts ==
  \A e \in Entity, b \in BOOLEAN :
    Lookback(e, b) \in Nat /\ Settle[e] <= Lookback(e, b) /\ Lookback(e, b) <= Lookback(e, TRUE)
BY AssumedHolds DEF Assumed, Lookback

\* Time passes, and the first write of a row is never undone.
Grows ==
  /\ now' \in Nat /\ now' >= now
  /\ \A p \in Row : storedAt'[p] = storedAt[p] \/ (storedAt[p] = 0 /\ storedAt'[p] = now)

LEMMA AlwaysGrows ==
  ASSUME TypeOK, PortalClock, FirstWrites, [Next]_vars
  PROVE  Grows
<1>1. ASSUME NEW k \in Runner, NEW S \in SUBSET Row, Writes(k, S) PROVE Grows
  <2>1. /\ now' = now
        /\ \A p \in Row : storedAt'[p] = storedAt[p] \/ (storedAt[p] = 0 /\ storedAt'[p] = now)
    BY <1>1, WriteEffect
  <2>2. QED
    BY <2>1 DEF Grows, TypeOK
<1>2. (\E q \in Row : Show(q)) \/ Tick \/ (\E k \in Runner : SetCursor(k)) \/ WindBack => Grows
  BY DEF Grows, Show, Tick, SetCursor, WindBack, portal, database, TypeOK
<1>3. UNCHANGED <<now, storedAt>> => Grows
  BY DEF Grows, TypeOK
<1>4. QED
  BY <1>1, <1>2, <1>3, DataSteps

LEMMA LateStays ==
  ASSUME TypeOK, PortalClock, FirstWrites, [Next]_vars,
         NEW r \in Row, shown'[r] = shown[r], Late(r)
  PROVE  Late(r)'
<1> USE AssumedHolds DEF Assumed
<1> DEFINE limit == shown[r] + Lookback(EntityOf[r], TRUE)
<1>1. limit \in Nat /\ limit' = limit
  BY LookbackFacts DEF TypeOK, Lookback
<1>2. Needs[r] \subseteq Row /\ \A p \in Row : storedAt[p] \in Nat
  BY DEF TypeOK
<1>3. PICK p \in Needs[r] : (storedAt[p] = 0 /\ now >= limit) \/ storedAt[p] >= limit
  BY DEF Late
<1> HIDE DEF limit
<1>4. (storedAt'[p] = 0 /\ now' >= limit') \/ storedAt'[p] >= limit'
  BY <1>1, <1>2, <1>3, AlwaysGrows DEF Grows, TypeOK
<1>5. QED
  BY <1>4 DEF Late, limit

\* A row just listed, or just overwritten by an older version, is recent.
LEMMA Recent ==
  ASSUME TypeOK, PortalClock, FirstWrites, RunClock, PageFresh, NEW r \in Row,
         EntityOf[r] \notin Whole,
         \/ Show(r)
         \/ \E k \in Runner : \E S \in SUBSET Row : Writes(k, S) /\ r \in S /\ held[k][r] # shown[r]
  PROVE  shown'[r] \in Nat /\ shown'[r] + Settle[EntityOf[r]] > now
<1> USE AssumedHolds DEF Assumed
<1>1. CASE Show(r)
  BY <1>1 DEF Show, PortalClock, TypeOK
<1>2. ASSUME NEW k \in Runner, NEW S \in SUBSET Row, Writes(k, S), r \in S, held[k][r] # shown[r]
      PROVE  shown'[r] \in Nat /\ shown'[r] + Settle[EntityOf[r]] > now
  <2>1. shown'[r] = shown[r] /\ r \in PageRows(k)
    BY <1>2 DEF Writes, Persist, portal
  <2>2. shown[r] + CommitLag >= fetchedAt[k] /\ now <= fetchedAt[k] + PageHold
    BY <1>2, <2>1 DEF PageFresh, RunClock, Writes
  <2>3. shown[r] \in Nat /\ fetchedAt[k] \in Nat /\ now \in Nat /\ EntityOf[r] \in Entity \ Whole
    BY DEF TypeOK
  <2>4. QED
    BY <2>1, <2>2, <2>3
<1>3. QED
  BY <1>1, <1>2

-------------------------------------------------------------------------------
(* No row is forgotten. *)

LEMMA ForgottenStep ==
  ASSUME TypeOK, PortalClock, FirstWrites, RunClock, PageFresh, CursorBehind, Coverage,
         NothingForgotten, [Next]_vars
  PROVE  NothingForgotten'
<1> USE AssumedHolds DEF Assumed
<1> SUFFICES ASSUME NEW r \in Row, Missing(r)' PROVE InReach(r)' \/ Late(r)'
  BY DEF NothingForgotten
<1> DEFINE e == EntityOf[r]
<1>1. CASE e \in Whole
  BY <1>1 DEF InReach, After
<1>2. CASE e \notin Whole
  <2>1. e \in Entity /\ Settle[e] \in Nat /\ now \in Nat /\ cursor[e] \in Int /\ shown[r] \in Nat
    BY DEF TypeOK
  <2> HIDE DEF e
  <2>2. ASSUME Missing(r), shown'[r] = shown[r], cursor'[e] \in Int, cursor'[e] <= cursor[e]
        PROVE  InReach(r)' \/ Late(r)'
    <3>1. InReach(r) \/ Late(r)
      BY <2>2 DEF NothingForgotten
    <3>2. InReach(r) => InReach(r)'
      BY <2>1, <2>2 DEF InReach, After, e
    <3>3. QED
      BY <2>2, <3>1, <3>2, LateStays
  <2>3. ASSUME shown'[r] \in Nat, shown'[r] + Settle[e] > now, cursor' = cursor
        PROVE  InReach(r)'
    <3>1. shown'[r] > 0
      BY <2>3 DEF Missing
    <3>2. shown'[r] > cursor[e]
      BY <2>1, <2>3, <3>1 DEF CursorBehind
    <3>3. QED
      BY <2>3, <3>2 DEF InReach, After, e
  <2>4. ASSUME NEW q \in Row, Show(q) PROVE InReach(r)' \/ Late(r)'
    <3>1. cursor' = cursor /\ stored' = stored
      BY <2>4 DEF Show, database
    <3>2. CASE q = r
      BY <1>2, <2>3, <2>4, <3>1, <3>2, Recent DEF e
    <3>3. CASE q # r
      <4>1. shown'[r] = shown[r]
        BY <2>4, <3>3 DEF Show, TypeOK
      <4>2. QED
        BY <2>1, <2>2, <3>1, <4>1 DEF Missing
    <3>4. QED
      BY <3>2, <3>3
  <2>5. ASSUME NEW k \in Runner, NEW S \in SUBSET Row, Writes(k, S)
        PROVE  InReach(r)' \/ Late(r)'
    <3>1. /\ shown' = shown /\ cursor' = cursor
          /\ stored'[r] = stored[r] \/ (r \in S /\ stored'[r] = held[k][r])
      BY <2>5, WriteEffect
    <3>2. CASE stored'[r] = stored[r]
      BY <2>1, <2>2, <3>1, <3>2 DEF Missing
    <3>3. CASE r \in S /\ stored'[r] = held[k][r]
      <4>1. held[k][r] # shown[r]
        BY <3>1, <3>3 DEF Missing
      <4>2. shown'[r] \in Nat /\ shown'[r] + Settle[e] > now
        BY <1>2, <2>5, <3>3, <4>1, Recent DEF e
      <4>3. QED
        BY <2>3, <3>1, <4>2
    <3>4. QED
      BY <3>1, <3>2, <3>3
  <2>6. ASSUME NEW k \in Runner, SetCursor(k), cursor'[e] # cursor[e]
        PROVE  InReach(r)' \/ Late(r)'
    <3>1. /\ UNCHANGED <<now, shown, stored, storedAt>>
          /\ e = entity[k] /\ MayAdvance(k) /\ cursor'[e] = NextWatermark(k) /\ pc[k] = "cursor"
      BY <2>6 DEF SetCursor, portal, TypeOK, At
    <3>2. mode[k] \in {"INCREMENTAL", "FULL"}
      BY <3>1 DEF MayAdvance, RunClock, TypeOK, RunModes
    <3>3. Missing(r)
      BY <3>1 DEF Missing
    <3>4. Covered(k, r)
      BY <1>2, <3>1, <3>2, <3>3 DEF Coverage, Reading, RowsOf, e
    <3>5. held[k][r] # shown[r]
      BY <3>1, <3>3 DEF TypeOK, PageInHand, PageRows, Missing
    <3>6. startedAt[k] \in Nat /\ startedAt[k] <= now
      BY DEF TypeOK, RunClock
    <3> DEFINE back == Lookback(e, "skipped" \in marks[k])
    <3>7. back \in Nat /\ Settle[e] <= back /\ cursor'[e] = startedAt[k] - back
      <4>1. back \in Nat /\ Settle[e] <= back
        BY <2>1 DEF Lookback
      <4>2. cursor'[e] = startedAt[k] - back
        BY <3>1 DEF NextWatermark
      <4>3. QED
        BY <4>1, <4>2
    <3>8. shown[r] > cursor'[e] => InReach(r)'
      BY <3>1 DEF InReach, After, e
    <3> HIDE DEF back
    <3>9. CASE shown[r] + Settle[e] > startedAt[k]
      BY <2>1, <3>6, <3>7, <3>8, <3>9
    <3>10. CASE Late(r)
      BY <3>1, <3>10, LateStays
    <3>11. CASE /\ "skipped" \in marks[k]
                /\ \E p \in Needs[r] : storedAt[p] = 0 \/ storedAt[p] >= startedAt[k]
      <4>1. CASE shown[r] + back > startedAt[k]
        BY <2>1, <3>6, <3>7, <3>8, <4>1
      <4>2. CASE shown[r] + back <= startedAt[k]
        <5>1. back = Lookback(EntityOf[r], TRUE)
          BY <3>11 DEF back, e
        <5>2. Needs[r] \subseteq Row /\ \A p \in Row : storedAt[p] \in Nat
          BY DEF TypeOK
        <5>3. Late(r)
          <6>1. PICK p \in Needs[r] : storedAt[p] = 0 \/ storedAt[p] >= startedAt[k]
            BY <3>11
          <6>2. now >= shown[r] + back /\ (storedAt[p] = 0 \/ storedAt[p] >= shown[r] + back)
            BY <2>1, <3>6, <3>7, <4>2, <5>2, <6>1
          <6>3. QED
            BY <5>1, <6>1, <6>2 DEF Late
        <5>4. QED
          BY <3>1, <5>3, LateStays
      <4>3. QED
        BY <2>1, <3>6, <3>7, <4>1, <4>2
    <3>12. QED
      BY <3>1, <3>4, <3>5, <3>9, <3>10, <3>11 DEF Covered, MayAdvance, e
  <2>7. CASE WindBack
    <3>1. /\ UNCHANGED <<shown, stored>>
          /\ cursor'[e] = cursor[e] \/ (cursor'[e] = now - WindBackTo /\ cursor'[e] < cursor[e])
      BY <2>7 DEF WindBack, portal, TypeOK
    <3>2. QED
      BY <2>1, <2>2, <3>1 DEF Missing
  <2>8. UNCHANGED <<shown, stored>> /\ cursor'[e] = cursor[e] => InReach(r)' \/ Late(r)'
    BY <2>1, <2>2 DEF Missing
  <2>9. (\E k \in Runner : SetCursor(k)) \/ Tick => UNCHANGED <<shown, stored>>
    BY DEF SetCursor, Tick, portal, database
  <2>10. Tick => cursor' = cursor
    BY DEF Tick, database
  <2>11. QED
    BY <2>4, <2>5, <2>6, <2>7, <2>8, <2>9, <2>10, DataSteps
<1>3. QED
  BY <1>1, <1>2

-------------------------------------------------------------------------------
(* A run that will move its cursor accounts for every missing row. *)

\* The reasons of Covered that no longer depend on where the walk stands.
Excused(k, r) ==
  \/ shown[r] + Settle[EntityOf[r]] > startedAt[k]
  \/ Late(r)
  \/ "failed" \in marks[k]
  \/ /\ "skipped" \in marks[k]
     /\ \E p \in Needs[r] : storedAt[p] = 0 \/ storedAt[p] >= startedAt[k]

\* The walk has not passed the row.
Ahead(k, r) ==
  /\ pc[k] \in {"fetch", "batch", "records"} /\ ~ done[k]
  /\ r > pos[k] /\ After(EntityOf[r], shown[r], from[k])

LEMMA CoveredParts ==
  \A k, r : Covered(k, r) <=> Excused(k, r) \/ held[k][r] = shown[r] \/ Ahead(k, r)
BY DEF Covered, Excused, Ahead

LEMMA ExcusedStays ==
  ASSUME TypeOK, PortalClock, FirstWrites, RunClock, [Next]_vars, NEW k \in Runner, NEW r \in Row,
         shown'[r] = shown[r], startedAt'[k] = startedAt[k], marks[k] \subseteq marks'[k],
         Excused(k, r)
  PROVE  Excused(k, r)'
<1> USE AssumedHolds DEF Assumed
<1>1. CASE Late(r)
  BY <1>1, LateStays DEF Excused
<1>2. CASE "skipped" \in marks[k] /\ \E p \in Needs[r] : storedAt[p] = 0 \/ storedAt[p] >= startedAt[k]
  <2>1. PICK p \in Needs[r] : storedAt[p] = 0 \/ storedAt[p] >= startedAt[k]
    BY <1>2
  <2>2. p \in Row /\ startedAt[k] <= now
    BY DEF RunClock
  <2>3. storedAt'[p] = 0 \/ storedAt'[p] >= startedAt'[k]
    BY <2>1, <2>2, AlwaysGrows DEF Grows, TypeOK
  <2>4. QED
    BY <1>2, <2>3 DEF Excused
<1>3. CASE "failed" \in marks[k] \/ shown[r] + Settle[EntityOf[r]] > startedAt[k]
  BY <1>3 DEF Excused
<1>4. QED
  BY <1>1, <1>2, <1>3 DEF Excused

\* A step that leaves the run of k alone.
Mine(k) ==
  /\ pc'[k] = pc[k] /\ entity'[k] = entity[k] /\ mode'[k] = mode[k] /\ from'[k] = from[k]
  /\ startedAt'[k] = startedAt[k] /\ pos'[k] = pos[k] /\ done'[k] = done[k]
  /\ held'[k] = held[k] /\ marks'[k] = marks[k]

LEMMA CoverageStep ==
  ASSUME TypeOK, PortalClock, FirstWrites, RunClock, PageFresh, Coverage, NothingForgotten,
         [Next]_vars
  PROVE  Coverage'
<1> USE AssumedHolds DEF Assumed
<1> SUFFICES ASSUME NEW k \in Runner, Reading(k)', mode'[k] \in {"INCREMENTAL", "FULL"},
                    NEW r \in Row, EntityOf[r] = entity'[k], EntityOf[r] \notin Whole, Missing(r)'
             PROVE  Covered(k, r)'
  BY DEF Coverage, RowsOf
<1>1. ASSUME shown'[r] \in Nat, shown'[r] + Settle[EntityOf[r]] > now, startedAt'[k] = startedAt[k]
      PROVE  Covered(k, r)'
  <2>1. startedAt[k] \in Nat /\ now \in Nat /\ startedAt[k] <= now /\ Settle[EntityOf[r]] \in Nat
    BY DEF TypeOK, RunClock
  <2>2. QED
    BY <1>1, <2>1 DEF Covered
<1>2. ASSUME pc'[k] = pc[k], entity'[k] = entity[k], mode'[k] = mode[k], Missing(r)
      PROVE  Covered(k, r)
  BY <1>2 DEF Coverage, Reading, RowsOf
<1>3. ASSUME Mine(k), Missing(r), shown'[r] = shown[r] PROVE Covered(k, r)'
  <2>1. Excused(k, r) \/ held[k][r] = shown[r] \/ Ahead(k, r)
    BY <1>2, <1>3, CoveredParts DEF Mine
  <2>2. Excused(k, r) => Excused(k, r)'
    BY <1>3, ExcusedStays DEF Mine
  <2>3. (held[k][r] = shown[r] => held'[k][r] = shown'[r]) /\ (Ahead(k, r) => Ahead(k, r)')
    BY <1>3 DEF Mine, Ahead, After
  <2>4. QED
    BY <2>1, <2>2, <2>3 DEF Covered, Excused, Ahead
<1>4. ASSUME Mine(k), UNCHANGED <<shown, stored>> PROVE Covered(k, r)'
  BY <1>3, <1>4 DEF Missing
<1>5. ASSUME NEW q \in Row, Show(q) PROVE Covered(k, r)'
  <2>1. Mine(k) /\ stored' = stored
    BY <1>5 DEF Show, Mine, engine, job, walk, page, database
  <2>2. CASE q = r
    BY <1>1, <1>5, <2>1, <2>2, Recent DEF Mine
  <2>3. CASE q # r
    <3>1. shown'[r] = shown[r]
      BY <1>5, <2>3 DEF Show, TypeOK
    <3>2. QED
      BY <1>3, <2>1, <3>1 DEF Missing
  <2>4. QED
    BY <2>2, <2>3
<1>6. ASSUME NEW j \in Runner, NEW S \in SUBSET Row, Writes(j, S) PROVE Covered(k, r)'
  <2>1. /\ shown' = shown /\ startedAt' = startedAt
        /\ stored'[r] = stored[r] \/ (r \in S /\ stored'[r] = held[j][r])
    <3>1. startedAt' = startedAt
      BY <1>6 DEF Writes, Persist, job
    <3>2. QED
      BY <1>6, <3>1, WriteEffect
  <2>2. CASE r \in S /\ stored'[r] = held[j][r]
    <3>1. held[j][r] # shown[r]
      BY <2>1, <2>2 DEF Missing
    <3>2. QED
      BY <1>1, <1>6, <2>1, <2>2, <3>1, Recent
  <2>3. CASE stored'[r] = stored[r] /\ j # k
    <3>1. Mine(k)
      BY <1>6, <2>3 DEF Writes, Persist, RecordsDone, Go, Mark, Mine, TypeOK, job, walk
    <3>2. QED
      BY <1>3, <2>1, <2>3, <3>1 DEF Missing
  <2>4. CASE stored'[r] = stored[r] /\ j = k
    <3> DEFINE kept == {q \in S : Resolvable(q)}
    <3>1. UNCHANGED <<entity, mode, from, startedAt, pos, done>> /\ Upsert(k, kept)
          /\ RecordsDone(k, S, IF kept = S THEN {} ELSE {"skipped"})
      BY <1>6, <2>4 DEF Writes, Persist, job, walk
    <3>2. pc[k] \in {"batch", "records"} /\ pc'[k] \in {pc[k], AfterPage(k)}
      BY <1>6, <2>4, <3>1 DEF Writes, RecordsDone, Go, TypeOK
    <3>3. Missing(r)
      BY <2>1, <2>4 DEF Missing
    <3>4. Covered(k, r)
      BY <3>1, <3>2, <3>3 DEF Coverage, Reading, RowsOf
    <3>5. marks'[k] = marks[k] \cup (IF kept = S THEN {} ELSE {"skipped"})
      BY <3>1 DEF RecordsDone, Mark, TypeOK
    <3>6. CASE Excused(k, r)
      BY <2>1, <3>1, <3>5, <3>6, ExcusedStays, CoveredParts DEF Covered, Excused
    <3>7. CASE Ahead(k, r)
      <4>1. AfterPage(k) = "fetch"
        BY <3>1, <3>7 DEF AfterPage, Ahead
      <4>2. QED
        BY <2>1, <3>1, <3>2, <3>7, <4>1 DEF Ahead, Covered, After
    <3>8. CASE held[k][r] = shown[r] /\ r \notin S
      BY <2>1, <3>1, <3>8 DEF RecordsDone, TypeOK, Covered
    <3>9. CASE held[k][r] = shown[r] /\ r \in S
      <4>1. r \notin kept
        BY <2>1, <2>4, <3>1, <3>9 DEF Upsert, Missing
      <4>2. kept # S /\ "skipped" \in marks'[k]
        BY <3>5, <3>9, <4>1
      <4>3. PICK p \in Needs[r] : stored[p] = 0
        BY <3>9, <4>1 DEF Resolvable
      <4>4. p \in Parents /\ p \in Row
        BY DEF Parents
      <4>5. storedAt[p] = 0
        BY <4>3, <4>4 DEF FirstWrites
      <4>6. storedAt'[p] = 0 \/ storedAt'[p] >= startedAt'[k]
        BY <2>1, <4>4, <4>5, AlwaysGrows DEF Grows, RunClock
      <4>7. QED
        BY <4>2, <4>6 DEF Covered
    <3>10. QED
      BY <3>4, <3>6, <3>7, <3>8, <3>9, CoveredParts
  <2>5. QED
    BY <2>1, <2>2, <2>3, <2>4
<1>7. ASSUME NEW j \in Runner, NEW q \in Row, RecordRejected(j, q) PROVE Covered(k, r)'
  <2>1. UNCHANGED <<shown, stored>>
    BY <1>7 DEF RecordRejected, portal, database
  <2>2. CASE j = k
    BY <1>7, <2>2 DEF RecordRejected, RecordsDone, Mark, TypeOK, Covered
  <2>3. CASE j # k
    <3>1. Mine(k)
      BY <1>7, <2>3 DEF RecordRejected, RecordsDone, Go, Mark, Mine, TypeOK, job, walk
    <3>2. QED
      BY <1>4, <2>1, <3>1
  <2>4. QED
    BY <2>2, <2>3
<1>8. ASSUME NEW j \in Runner, OpenRun(j) PROVE Covered(k, r)'
  <2>1. UNCHANGED <<shown, stored, storedAt, now, entity, mode, cursor>>
    BY <1>8 DEF OpenRun, portal, database
  <2>2. CASE j = k
    <3>1. pc'[k] = "fetch" /\ ~ done'[k] /\ pos'[k] = 0 /\ from'[k] \in Watermarks(k)
      BY <1>8, <2>2 DEF OpenRun, Go, TypeOK
    <3>2. Missing(r) /\ shown[r] \in Nat /\ shown[r] # 0 /\ r > 0
      BY <2>1 DEF Missing, TypeOK
    <3>3. InReach(r) \/ Late(r)
      BY <3>2 DEF NothingForgotten
    <3>4. CASE Late(r)
      BY <2>1, <3>4, LateStays DEF Covered
    <3>5. CASE InReach(r) /\ mode[k] = "INCREMENTAL"
      <4>1. from'[k] = cursor[EntityOf[r]]
        BY <2>1, <3>1, <3>5 DEF Watermarks
      <4>2. QED
        BY <2>1, <3>1, <3>2, <3>5, <4>1 DEF InReach, After, Covered
    <3>6. CASE mode[k] = "FULL"
      <4>1. from'[k] = 0
        BY <3>1, <3>6 DEF Watermarks
      <4>2. QED
        BY <2>1, <3>1, <3>2, <4>1 DEF After, Covered
    <3>7. QED
      BY <2>1, <3>3, <3>4, <3>5, <3>6
  <2>3. CASE j # k
    <3>1. Mine(k)
      BY <1>8, <2>3 DEF OpenRun, Go, Mine, TypeOK, page
    <3>2. QED
      BY <1>4, <2>1, <3>1
  <2>4. QED
    BY <2>2, <2>3
<1>9. ASSUME NEW j \in Runner, NEW S, NEW last \in Nat, NEW end \in BOOLEAN, At(j, "fetch"),
             Hold(j, S, last, end), UNCHANGED <<portal, database, job, marks>>,
             \A q \in Listed(j) : q > pos[j] => q \in S \/ (q > last /\ S # {} /\ ~ end)
      PROVE  Covered(k, r)'
  <2>1. UNCHANGED <<shown, stored, entity, mode, from, startedAt>>
    BY <1>9 DEF portal, database, job
  <2>2. CASE j = k
    <3>1. pc[k] = "fetch" /\ Missing(r)
      BY <1>9, <2>1, <2>2 DEF At, Missing
    <3>2. Covered(k, r)
      BY <2>1, <3>1 DEF Coverage, Reading, RowsOf
    <3>3. held[k][r] # shown[r]
      BY <3>1 DEF TypeOK, PageInHand, PageRows, Missing
    <3>4. CASE Excused(k, r)
      <4>1. Excused(k, r)'
        BY <1>9, <2>1, <3>4, ExcusedStays
      <4>2. QED
        BY <4>1 DEF Covered, Excused
    <3>5. CASE Ahead(k, r)
      <4>1. r \in Listed(k) /\ r > pos[k]
        BY <2>1, <3>1, <3>5 DEF Ahead, Listed, RowsOf, Missing
      <4>2. CASE r \in S
        <5>1. held'[k][r] = shown[r]
          BY <1>9, <2>2, <4>2 DEF Hold, TypeOK
        <5>2. QED
          BY <2>1, <5>1 DEF Covered
      <4>3. CASE r > last /\ S # {} /\ ~ end
        <5>1. pc'[k] = "batch" /\ pos'[k] = last /\ ~ done'[k]
          BY <1>9, <2>2, <4>3 DEF Hold, Go, TypeOK
        <5>2. After(EntityOf[r], shown'[r], from'[k])
          BY <2>1, <3>5 DEF Ahead
        <5>3. QED
          BY <4>3, <5>1, <5>2 DEF Covered
      <4>4. QED
        BY <1>9, <2>2, <4>1, <4>2, <4>3
    <3>6. QED
      BY <3>2, <3>3, <3>4, <3>5, CoveredParts
  <2>3. CASE j # k
    <3>1. Mine(k)
      BY <1>9, <2>1, <2>3 DEF Hold, Go, Mine, TypeOK
    <3>2. QED
      BY <1>4, <2>1, <3>1
  <2>4. QED
    BY <2>2, <2>3
<1>10. ASSUME NEW j \in Runner, FetchLastPage(j) PROVE Covered(k, r)'
  <2> DEFINE S == {q \in Listed(j) : q > pos[j]}
  <2>1. At(j, "fetch") /\ Hold(j, S, pos[j], TRUE) /\ UNCHANGED <<portal, database, job, marks>>
    BY <1>10 DEF FetchLastPage
  <2>2. (\A q \in Listed(j) : q > pos[j] => q \in S) /\ pos[j] \in Nat
    BY DEF TypeOK
  <2> HIDE DEF S
  <2>3. QED
    BY <1>9, <2>1, <2>2
<1>11. ASSUME NEW j \in Runner, NEW last \in Row, FetchPage(j, last) PROVE Covered(k, r)'
  <2> DEFINE S == {q \in Listed(j) : q > pos[j] /\ q <= last}
  <2>1. At(j, "fetch") /\ Hold(j, S, last, FALSE) /\ UNCHANGED <<portal, database, job, marks>>
    BY <1>11 DEF FetchPage
  <2>2. last \in Nat /\ \A q \in Listed(j) : q \in Nat
    BY DEF Listed, RowsOf
  <2>3. last \in Listed(j) /\ last > pos[j]
    BY <1>11 DEF FetchPage
  <2>4. S # {}
    BY <2>2, <2>3
  <2>5. \A q \in Listed(j) : q > pos[j] => q \in S \/ q > last
    BY <2>2
  <2> HIDE DEF S
  <2>6. QED
    BY <1>9, <2>1, <2>2, <2>4, <2>5
<1>12. ASSUME NEW j \in Runner, BatchRejected(j) \/ Finalize(j) \/ FinalizeFails(j)
       PROVE  Covered(k, r)'
  <2>1. UNCHANGED <<shown, stored, entity, mode, from, startedAt, pos, done, held>>
    BY <1>12 DEF BatchRejected, Finalize, FinalizeFails, portal, database, job, walk, page
  <2>2. CASE j = k
    <3>1. /\ pc[k] \in {"batch", "finalize"} /\ marks[k] \subseteq marks'[k] /\ Missing(r)
          /\ pc[k] = "batch" => pc'[k] = "records"
      BY <1>12, <2>1, <2>2
      DEF BatchRejected, Finalize, FinalizeFails, At, Go, Mark, Missing, TypeOK
    <3>2. Covered(k, r)
      BY <2>1, <3>1 DEF Coverage, Reading, RowsOf
    <3>3. Excused(k, r) => Excused(k, r)'
      BY <2>1, <3>1, ExcusedStays
    <3>4. Ahead(k, r) => Ahead(k, r)'
      BY <2>1, <3>1 DEF Ahead, After
    <3>5. QED
      BY <2>1, <3>2, <3>3, <3>4 DEF Covered, Excused, Ahead
  <2>3. CASE j # k
    <3>1. Mine(k)
      BY <1>12, <2>1, <2>3 DEF BatchRejected, Finalize, FinalizeFails, Go, Mark, Mine, TypeOK
    <3>2. QED
      BY <1>4, <2>1, <3>1
  <2>4. QED
    BY <2>2, <2>3
<1>13. ASSUME NEW j \in Runner, FetchFails(j) \/ SetCursor(j) PROVE Covered(k, r)'
  <2>1. UNCHANGED <<shown, stored, entity, mode, from, startedAt, pos, done, held>>
        /\ pc' = [pc EXCEPT ![j] = "report"] /\ \A i \in Runner \ {j} : marks'[i] = marks[i]
    BY <1>13 DEF FetchFails, SetCursor, Go, Mark, portal, database, job, walk, page, TypeOK
  <2>2. j # k
    BY <2>1 DEF Reading, TypeOK
  <2>3. Mine(k)
    BY <2>1, <2>2 DEF Mine, TypeOK
  <2>4. QED
    BY <1>4, <2>1, <2>3
<1>14. ASSUME NEW j \in Runner, FinishRun(j) \/ StoreFails(j) \/ Crash(j) PROVE Covered(k, r)'
  <2>1. Leave(j) /\ UNCHANGED <<shown, stored>>
    BY <1>14 DEF FinishRun, StoreFails, Crash, portal, database
  <2>2. j # k
    BY <2>1 DEF Leave, Go, Reading, TypeOK
  <2>3. Mine(k)
    BY <2>1, <2>2 DEF Leave, Go, Mine, TypeOK
  <2>4. QED
    BY <1>4, <2>1, <2>3
<1>15. ASSUME NEW j \in Runner, NEW e \in Entity, NEW m \in Modes[j] \ {"BYID"}, Begin(j, e, m)
       PROVE  Covered(k, r)'
  <2>1. UNCHANGED <<shown, stored, from, pos, done, held, marks>>
    BY <1>15 DEF Begin, portal, database, walk, page
  <2>2. j # k
    BY <1>15 DEF Begin, Go, Reading, TypeOK
  <2>3. Mine(k)
    BY <1>15, <2>1, <2>2 DEF Begin, Go, Mine, TypeOK
  <2>4. QED
    BY <1>4, <2>1, <2>3
<1>16. ASSUME NEW j \in Runner, NEW e \in Entity, NEW S \in SUBSET Row, ReadByIds(j, e, S)
       PROVE  Covered(k, r)'
  <2>1. UNCHANGED <<shown, stored, from, startedAt, marks>>
    BY <1>16 DEF ReadByIds, portal, database
  <2>2. j # k
    BY <1>16 DEF ReadByIds, TypeOK
  <2>3. Mine(k)
    BY <1>16, <2>1, <2>2 DEF ReadByIds, Hold, Go, Mine, TypeOK
  <2>4. QED
    BY <1>4, <2>1, <2>3
<1>17. (\E q \in Row : Stamp(q)) \/ Tick \/ WindBack \/ UNCHANGED vars => Covered(k, r)'
  <2>1. (\E q \in Row : Stamp(q)) \/ Tick \/ WindBack \/ UNCHANGED vars
        => Mine(k) /\ UNCHANGED <<shown, stored>>
    BY DEF Stamp, Tick, WindBack, vars, Mine, portal, database, engine, job, walk, page
  <2>2. QED
    BY <1>4, <2>1
<1>18. ASSUME NEW j \in Runner, PersistBatch(j) PROVE Covered(k, r)'
  BY <1>6, <1>18 DEF PersistBatch, At, Writes, PageRows
<1>19. ASSUME NEW j \in Runner, NEW q \in Row, PersistRecord(j, q) PROVE Covered(k, r)'
  BY <1>6, <1>19 DEF PersistRecord, IsNextRecord, At, Writes
<1>20. QED
  BY <1>5, <1>7, <1>8, <1>10, <1>11, <1>12, <1>13, <1>14, <1>15, <1>16, <1>17, <1>18, <1>19
  DEF Next, RunStep, Failure

-------------------------------------------------------------------------------
(* The invariant. *)

LEMMA IInvInit == Init => IInv
<1> USE AssumedHolds DEF Assumed, Init, NoPage
<1>1. Init => TypeOK
  BY DEF TypeOK, PageInHand, PageRows, Steps, RunModes, Marks
<1>2. Init => PortalClock /\ RunClock
  BY DEF PortalClock, RunClock
<1>3. Init => FirstWrites
  BY DEF FirstWrites, Parents
<1>4. Init => PageFresh
  BY DEF PageFresh, PageRows
<1>5. Init => CursorBehind
  BY DEF CursorBehind
<1>6. Init => Coverage
  BY DEF Coverage, Reading
<1>7. Init => NothingForgotten
  BY DEF NothingForgotten, Missing
<1>8. QED
  BY <1>1, <1>2, <1>3, <1>4, <1>5, <1>6, <1>7 DEF IInv

LEMMA IInvStep == IInv /\ [Next]_vars => IInv'
BY TypeStep, PortalClockStep, FirstWritesStep, RunClockStep, PageFreshStep, CursorBehindStep,
   CoverageStep, ForgottenStep DEF IInv

\* No record is lost by the cursor: what the portal shows and the database lacks
\* is in reach of the next incremental run, for any number of rows, entities and
\* runners, if the settle lookback outlasts CommitLag + PageHold.
THEOREM NothingForgottenHolds == Spec => []NothingForgotten
<1>1. IInv => NothingForgotten
  BY DEF IInv
<1>2. QED
  BY <1>1, IInvInit, IInvStep, PTL DEF Spec

-------------------------------------------------------------------------------
(* The engine implements the mirror. *)

\* No version is written or held before the portal has shown it.
OnlyShown ==
  \A r \in Row : stored[r] <= shown[r] /\ \A k \in Runner : held[k][r] <= shown[r]

\* What a step may do to a page: read a row as the portal shows it, or let it go.
LEMMA HeldEffect ==
  ASSUME TypeOK, [Next]_vars, NEW k \in Runner, NEW r \in Row
  PROVE  held'[k][r] \in {held[k][r], shown[r], 0}
<1> USE AssumedHolds DEF Assumed
<1>1. ASSUME NEW j \in Runner, NEW S, NEW last, NEW end, Hold(j, S, last, end)
      PROVE  held'[k][r] \in {held[k][r], shown[r], 0}
  BY <1>1 DEF Hold, TypeOK
<1>2. ASSUME NEW j \in Runner, NEW S, NEW m, RecordsDone(j, S, m)
      PROVE  held'[k][r] \in {held[k][r], shown[r], 0}
  BY <1>2 DEF RecordsDone, TypeOK
<1>3. ASSUME NEW j \in Runner, Leave(j) PROVE held'[k][r] \in {held[k][r], shown[r], 0}
  BY <1>3 DEF Leave, NoPage, TypeOK
<1>4. held' = held => held'[k][r] \in {held[k][r], shown[r], 0}
  OBVIOUS
<1>5. ASSUME NEW j \in Runner, RunStep(j) PROVE held'[k][r] \in {held[k][r], shown[r], 0}
  <2>1. OpenRun(j) \/ Finalize(j) \/ SetCursor(j) => held' = held
    BY DEF OpenRun, Finalize, SetCursor, page
  <2>2. FetchLastPage(j) \/ (\E last \in Row : FetchPage(j, last))
        => \E S, last, end : Hold(j, S, last, end)
    BY DEF FetchLastPage, FetchPage
  <2>3. PersistBatch(j) \/ (\E q \in Row : PersistRecord(j, q)) => \E S, m : RecordsDone(j, S, m)
    BY DEF PersistBatch, PersistRecord, Persist
  <2>4. QED
    BY <1>1, <1>2, <1>3, <1>4, <1>5, <2>1, <2>2, <2>3 DEF RunStep, FinishRun
<1>6. ASSUME NEW j \in Runner, Failure(j) PROVE held'[k][r] \in {held[k][r], shown[r], 0}
  <2>1. FetchFails(j) \/ BatchRejected(j) \/ FinalizeFails(j) => held' = held
    BY DEF FetchFails, BatchRejected, FinalizeFails, page
  <2>2. QED
    BY <1>2, <1>3, <1>4, <1>6, <2>1 DEF Failure, RecordRejected, StoreFails, Crash
<1>7. \/ \E q \in Row : Stamp(q) \/ Show(q)
      \/ Tick
      \/ \E j \in Runner, e \in Entity, m \in RunModes : Begin(j, e, m)
      \/ WindBack
      \/ UNCHANGED vars
      => held' = held
  BY DEF Stamp, Show, Tick, Begin, WindBack, vars, engine, page
<1>8. ASSUME NEW j \in Runner, NEW e \in Entity, NEW m \in Modes[j] \ {"BYID"}, Begin(j, e, m)
      PROVE  held' = held
  BY <1>8 DEF Begin, page
<1>9. QED
  BY <1>1, <1>4, <1>5, <1>6, <1>7, <1>8 DEF Next, ReadByIds

LEMMA OnlyShownStep ==
  ASSUME TypeOK, PortalClock, FirstWrites, OnlyShown, [Next]_vars
  PROVE  OnlyShown'
<1> USE AssumedHolds DEF Assumed
<1>1. \A r \in Row : shown'[r] \in Nat /\ shown[r] \in Nat /\ shown[r] <= shown'[r]
  <2>1. ASSUME NEW q \in Row, Show(q)
        PROVE  \A r \in Row : shown'[r] \in Nat /\ shown[r] \in Nat /\ shown[r] <= shown'[r]
    BY <2>1 DEF Show, PortalClock, TypeOK
  <2>2. (\E k \in Runner : \E S \in SUBSET Row : Writes(k, S)) => shown' = shown
    BY WriteEffect
  <2>3. shown' = shown
        => \A r \in Row : shown'[r] \in Nat /\ shown[r] \in Nat /\ shown[r] <= shown'[r]
    BY DEF TypeOK
  <2>4. Tick \/ (\E k \in Runner : SetCursor(k)) \/ WindBack => shown' = shown
    BY DEF Tick, SetCursor, WindBack, portal
  <2>5. QED
    BY <2>1, <2>2, <2>3, <2>4, DataSteps
<1>2. ASSUME NEW r \in Row PROVE stored'[r] = stored[r] \/ \E k \in Runner : stored'[r] = held[k][r]
  <2>1. (\E k \in Runner : \E S \in SUBSET Row : Writes(k, S))
        => stored'[r] = stored[r] \/ \E k \in Runner : stored'[r] = held[k][r]
    BY WriteEffect
  <2>2. (\E q \in Row : Show(q)) \/ Tick \/ (\E k \in Runner : SetCursor(k)) \/ WindBack
        => stored' = stored
    BY DEF Show, Tick, SetCursor, WindBack, database
  <2>3. QED
    BY <2>1, <2>2, DataSteps
<1>3. ASSUME NEW r \in Row PROVE stored'[r] <= shown'[r]
  BY <1>1, <1>2 DEF OnlyShown, TypeOK
<1>4. ASSUME NEW r \in Row, NEW k \in Runner PROVE held'[k][r] <= shown'[r]
  <2>1. held'[k][r] \in {held[k][r], shown[r], 0}
    BY HeldEffect
  <2>2. held[k][r] \in Nat /\ held[k][r] <= shown[r]
    BY DEF OnlyShown, TypeOK
  <2>3. QED
    BY <1>1, <2>1, <2>2
<1>5. QED
  BY <1>3, <1>4 DEF OnlyShown

\* A row that refers to nothing is never late: as long as it is missing it is owed.
LEMMA IndependentIsOwed ==
  ASSUME NothingForgotten, NEW r \in Row, Needs[r] = {}, Missing(r)
  PROVE  InReach(r)
BY DEF NothingForgotten, Late

Owed == {r \in Row : Missing(r) /\ InReach(r)}

\* A cursor stays below what was shown within the settle lookback.
LEMMA BehindShown ==
  ASSUME TypeOK, CursorBehind, NEW r \in Row, NEW t \in Nat, t > 0, t + Settle[EntityOf[r]] > now
  PROVE  t > cursor[EntityOf[r]]
<1>1. EntityOf[r] \in Entity /\ Settle[EntityOf[r]] \in Nat
  BY AssumedHolds DEF Assumed
<1>2. cursor[EntityOf[r]] \in Int /\ now \in Nat
  BY <1>1 DEF TypeOK
<1>3. cursor[EntityOf[r]] <= 0 \/ cursor[EntityOf[r]] + Settle[EntityOf[r]] <= now
  BY <1>1 DEF CursorBehind
<1>4. QED
  BY <1>1, <1>2, <1>3

LEMMA MirrorStep ==
  ASSUME IInv, OnlyShown, IInv', [Next]_vars
  PROVE  [Mirror!Next]_<<shown, stored, Owed>>
<1> USE AssumedHolds DEF Assumed
<1>1. TypeOK /\ PortalClock /\ FirstWrites /\ RunClock /\ PageFresh /\ CursorBehind
      /\ NothingForgotten /\ NothingForgotten'
  BY DEF IInv
<1>2. UNCHANGED <<shown, stored, cursor>> => UNCHANGED Owed
  BY DEF Owed, Missing, InReach
<1>3. ASSUME NEW q \in Row, Show(q) PROVE Mirror!Publish(q)
  <2>1. /\ shown' = [shown EXCEPT ![q] = shown'[q]] /\ shown'[q] > shown[q]
        /\ UNCHANGED <<stored, cursor>>
    <3>1. shown \in [Row -> Nat] /\ stamped[q] \in Nat /\ shown[q] <= stamped[q]
      BY <1>1 DEF PortalClock, TypeOK
    <3>2. shown' = [shown EXCEPT ![q] = stamped[q]] /\ shown[q] # stamped[q]
          /\ UNCHANGED <<stored, cursor>>
      BY <1>3 DEF Show, database
    <3>3. shown'[q] = stamped[q]
      BY <3>1, <3>2
    <3>4. QED
      BY <3>1, <3>2, <3>3
  <2>2. Missing(q)'
    BY <1>1, <2>1 DEF Missing, OnlyShown, TypeOK
  <2>3. InReach(q)'
    <3>1. CASE EntityOf[q] \in Whole
      BY <3>1 DEF InReach, After
    <3>2. CASE EntityOf[q] \notin Whole
      <4>1. shown'[q] \in Nat /\ shown'[q] + Settle[EntityOf[q]] > now /\ shown'[q] > 0
        BY <1>1, <1>3, <2>1, <3>2, Recent DEF TypeOK
      <4>2. shown'[q] > cursor[EntityOf[q]]
        BY <1>1, <4>1, BehindShown
      <4>3. QED
        BY <2>1, <4>2 DEF InReach, After
    <3>3. QED
      BY <3>1, <3>2
  <2>4. \A r \in Row \ {q} : (Missing(r) <=> Missing(r)') /\ (InReach(r) <=> InReach(r)')
    BY <1>1, <2>1 DEF Missing, InReach, TypeOK
  <2>5. Owed' = Owed \cup {q}
    BY <2>2, <2>3, <2>4 DEF Owed
  <2>6. QED
    BY <2>1, <2>5 DEF Mirror!Publish, Owed
<1>4. ASSUME NEW k \in Runner, NEW S \in SUBSET Row, Writes(k, S)
      PROVE  \E W \in SUBSET Row : Mirror!Import(W)
  <2> DEFINE W == {r \in S : Resolvable(r)}
  <2>1. UNCHANGED <<now, shown, cursor>> /\ \A r \in S : held[k][r] # 0
    BY <1>1, <1>4, WriteEffect
  <2>2. stored' = [r \in Row |-> IF r \in W THEN held[k][r] ELSE stored[r]]
    BY <1>4 DEF Writes, Persist, Upsert
  <2>3. W \in SUBSET Row /\ W \subseteq S
    OBVIOUS
  <2> HIDE DEF W
  <2>4. \A r \in W : stored'[r] \in 1 .. shown[r]
    <3>1. \A r \in W : stored'[r] = held[k][r] /\ held[k][r] \in Nat /\ shown[r] \in Nat
      BY <1>1, <2>2, <2>3 DEF TypeOK
    <3>2. \A r \in W : held[k][r] # 0 /\ held[k][r] <= shown[r]
      BY <2>1, <2>3 DEF OnlyShown
    <3>3. QED
      BY <3>1, <3>2
  <2>5. stored' = [r \in Row |-> IF r \in W THEN stored'[r] ELSE stored[r]]
    BY <2>2
  <2>6. ASSUME NEW r \in W, stored'[r] # shown[r] PROVE r \in Owed'
    <3>1. held[k][r] # shown[r] /\ r \in Row
      BY <2>2, <2>3, <2>6
    <3>2. Missing(r)'
      <4>1. shown[r] # 0
        BY <2>3, <2>4 DEF OnlyShown
      <4>2. QED
        BY <2>1, <2>6, <4>1 DEF Missing
    <3>3. CASE EntityOf[r] \in Whole
      BY <3>1, <3>2, <3>3 DEF InReach, After, Owed
    <3>4. CASE EntityOf[r] \notin Whole
      <4>1. shown'[r] \in Nat /\ shown'[r] + Settle[EntityOf[r]] > now
        BY <1>1, <1>4, <2>3, <3>1, <3>4, Recent
      <4>2. shown'[r] > 0
        BY <3>2, <4>1 DEF Missing
      <4>3. shown'[r] > cursor[EntityOf[r]]
        BY <1>1, <3>1, <4>1, <4>2, BehindShown
      <4>4. QED
        BY <2>1, <3>1, <3>2, <4>3 DEF InReach, After, Owed
    <3>5. QED
      BY <3>3, <3>4
  <2>7. Owed' = (Owed \ W) \cup {r \in W : stored'[r] # shown[r]}
    <3>1. \A r \in Row \ W : r \in Owed' <=> r \in Owed
      BY <2>1, <2>2 DEF Owed, Missing, InReach
    <3>2. \A r \in W : r \in Owed' => stored'[r] # shown[r]
      BY <2>1 DEF Owed, Missing
    <3>3. Owed \subseteq Row /\ Owed' \subseteq Row
      BY DEF Owed
    <3>4. QED
      BY <2>3, <2>6, <3>1, <3>2, <3>3
  <2>8. Mirror!Import(W)
    BY <2>1, <2>4, <2>5, <2>7 DEF Mirror!Import, Owed
  <2>9. QED
    BY <2>3, <2>8
<1>5. ASSUME UNCHANGED <<shown, stored>>, NEW e \in Entity,
             \A f \in Entity \ {e} : cursor'[f] = cursor[f], cursor'[e] \in Int
      PROVE  \/ \E S \in SUBSET Row : Mirror!GiveUp(S) \/ Mirror!Reopen(S)
             \/ UNCHANGED Owed
  <2> DEFINE Gone == Owed \ Owed'
             Back == Owed' \ Owed
             Dep == {r \in Row : Needs[r] # {}}
  <2>1. cursor[e] \in Int /\ \A r \in Row : shown[r] \in Nat
    BY <1>1 DEF TypeOK
  <2>2. \A r \in Row : Missing(r) <=> Missing(r)'
    BY <1>5 DEF Missing
  <2>3. \A r \in Row : EntityOf[r] # e => (InReach(r) <=> InReach(r)')
    BY <1>5 DEF InReach, After
  <2>4. \A r \in Row : Needs[r] = {} /\ Missing(r) => r \in Owed /\ r \in Owed'
    <3>1. ASSUME NEW r \in Row, Needs[r] = {}, Missing(r) PROVE InReach(r)
      BY <1>1, <3>1, IndependentIsOwed
    <3>2. ASSUME NEW r \in Row, Needs[r] = {}, Missing(r)' PROVE InReach(r)'
      BY <1>1, <3>2 DEF NothingForgotten, Late
    <3>3. QED
      BY <2>2, <3>1, <3>2 DEF Owed
  <2>5. Gone \subseteq Dep /\ Back \subseteq Dep
    BY <2>2, <2>4 DEF Owed
  <2>6. CASE cursor'[e] >= cursor[e]
    <3>1. \A r \in Row : InReach(r)' => InReach(r)
      BY <1>5, <2>1, <2>3, <2>6 DEF InReach, After
    <3>2. Owed' = Owed \ Gone
      BY <2>2, <3>1 DEF Owed
    <3>3. Gone \in SUBSET Row
      BY DEF Owed
    <3>4. Mirror!GiveUp(Gone)
      BY <1>5, <2>5, <3>2 DEF Mirror!GiveUp, Owed
    <3>5. QED
      BY <3>3, <3>4
  <2>7. CASE cursor'[e] <= cursor[e]
    <3>1. \A r \in Row : InReach(r) => InReach(r)'
      BY <1>5, <2>1, <2>3, <2>7 DEF InReach, After
    <3>2. Owed' = Owed \cup Back
      BY <2>2, <3>1 DEF Owed
    <3>3. Back \in SUBSET Row
      BY DEF Owed
    <3>4. Mirror!Reopen(Back)
      BY <1>5, <2>5, <3>2 DEF Mirror!Reopen, Owed
    <3>5. QED
      BY <3>3, <3>4
  <2>8. QED
    BY <1>5, <2>1, <2>6, <2>7
<1>6. (\E k \in Runner : SetCursor(k)) \/ WindBack
      => UNCHANGED <<shown, stored>>
         /\ \E e \in Entity : (\A f \in Entity \ {e} : cursor'[f] = cursor[f]) /\ cursor'[e] \in Int
  <2>1. ASSUME NEW k \in Runner, SetCursor(k)
        PROVE  UNCHANGED <<shown, stored>>
               /\ \E e \in Entity : (\A f \in Entity \ {e} : cursor'[f] = cursor[f]) /\ cursor'[e] \in Int
    <3>1. NextWatermark(k) \in Int /\ entity[k] \in Entity
      BY <1>1 DEF NextWatermark, Lookback, TypeOK
    <3>2. QED
      BY <1>1, <2>1, <3>1 DEF SetCursor, portal, TypeOK
  <2>2. CASE WindBack
    BY <1>1, <2>2 DEF WindBack, portal, TypeOK
  <2>3. QED
    BY <2>1, <2>2
<1>7. Tick => UNCHANGED <<shown, stored, cursor>>
  BY DEF Tick, database
<1>8. (\E q \in Row : Mirror!Publish(q))
      \/ (\E S \in SUBSET Row : Mirror!Import(S) \/ Mirror!GiveUp(S) \/ Mirror!Reopen(S))
      => Mirror!Next
  BY DEF Mirror!Next
<1>9. QED
  BY <1>2, <1>3, <1>4, <1>5, <1>6, <1>7, <1>8, DataSteps

\* The engine implements the mirror, for any rows, entities and runners: whatever
\* the order of walks, writes, cursor moves and crashes, a row that refers to
\* nothing leaves the debt only by being written at the version the portal shows.
THEOREM EngineImplementsMirror == Spec => ImplementsMirror
<1>1. Init => OnlyShown
  BY AssumedHolds DEF Assumed, Init, NoPage, OnlyShown
<1>2. IInv /\ OnlyShown /\ [Next]_vars => OnlyShown'
  BY OnlyShownStep DEF IInv
<1>3. Spec => [](IInv /\ OnlyShown)
  BY <1>1, <1>2, IInvInit, IInvStep, PTL DEF Spec
<1>4. Init => Mirror!Init
  BY DEF Init, Mirror!Init, NoPage, Missing
<1>5. IInv /\ OnlyShown /\ IInv' /\ [Next]_vars
      => [Mirror!Next]_<<shown, stored, {r \in Row : Missing(r) /\ InReach(r)}>>
  BY MirrorStep DEF Owed
<1>6. QED
  BY <1>3, <1>4, <1>5, PTL DEF Spec, ImplementsMirror, Mirror!Spec

-------------------------------------------------------------------------------
(* A run about to report SUCCESS. *)

\* Why a run without marks may leave row r of its window missing for now.
Accounted(k, r) ==
  \/ shown[r] + Settle[EntityOf[r]] > startedAt[k]
  \/ marks[k] # {}
  \/ held[k][r] = shown[r]
  \/ Ahead(k, r)

\* Every mode that walks accounts for every row of its window, to its report.
Walked ==
  \A k \in Runner : (Reading(k) \/ At(k, "report")) /\ mode[k] # "BYID" =>
    \A r \in Listed(k) : EntityOf[r] \notin Whole /\ Missing(r) => Accounted(k, r)

LEMMA WalkedStep ==
  ASSUME TypeOK, PortalClock, FirstWrites, RunClock, PageFresh, Walked, [Next]_vars
  PROVE  Walked'
<1> USE AssumedHolds DEF Assumed
<1> SUFFICES ASSUME NEW k \in Runner, Reading(k)' \/ At(k, "report")', mode'[k] # "BYID",
                    NEW r \in Listed(k)', EntityOf[r] \notin Whole, Missing(r)'
             PROVE  Accounted(k, r)'
  BY DEF Walked
<1>0. r \in Row /\ EntityOf[r] = entity'[k] /\ After(EntityOf[r], shown'[r], from'[k])
  BY DEF Listed, RowsOf
<1>1. ASSUME shown'[r] \in Nat, shown'[r] + Settle[EntityOf[r]] > now, startedAt'[k] = startedAt[k]
      PROVE  Accounted(k, r)'
  <2>1. startedAt[k] \in Nat /\ now \in Nat /\ startedAt[k] <= now /\ Settle[EntityOf[r]] \in Nat
    BY <1>0 DEF TypeOK, RunClock
  <2>2. QED
    BY <1>1, <2>1 DEF Accounted
<1>2. ASSUME Reading(k) \/ At(k, "report"), entity'[k] = entity[k], mode'[k] = mode[k],
             from'[k] = from[k], shown'[r] = shown[r], Missing(r)
      PROVE  Accounted(k, r)
  BY <1>0, <1>2 DEF Walked, Listed, RowsOf, Missing
<1>3. ASSUME Mine(k), Missing(r), shown'[r] = shown[r] PROVE Accounted(k, r)'
  <2>1. Accounted(k, r)
    BY <1>2, <1>3 DEF Mine, Reading, At
  <2>2. QED
    BY <1>3, <2>1 DEF Accounted, Mine, Ahead, After
<1>4. ASSUME Mine(k), UNCHANGED <<shown, stored>> PROVE Accounted(k, r)'
  BY <1>3, <1>4 DEF Missing
<1>5. ASSUME NEW q \in Row, Show(q) PROVE Accounted(k, r)'
  <2>1. Mine(k) /\ stored' = stored
    BY <1>5 DEF Show, Mine, engine, job, walk, page, database
  <2>2. CASE q = r
    BY <1>0, <1>1, <1>5, <2>1, <2>2, Recent DEF Mine
  <2>3. CASE q # r
    <3>1. shown'[r] = shown[r]
      BY <1>0, <1>5, <2>3 DEF Show, TypeOK
    <3>2. QED
      BY <1>3, <2>1, <3>1 DEF Missing
  <2>4. QED
    BY <2>2, <2>3
<1>6. ASSUME NEW j \in Runner, NEW S \in SUBSET Row, Writes(j, S) PROVE Accounted(k, r)'
  <2>1. /\ shown' = shown /\ startedAt' = startedAt
        /\ stored'[r] = stored[r] \/ (r \in S /\ stored'[r] = held[j][r])
    <3>1. startedAt' = startedAt
      BY <1>6 DEF Writes, Persist, job
    <3>2. QED
      BY <1>0, <1>6, <3>1, WriteEffect
  <2>2. CASE r \in S /\ stored'[r] = held[j][r]
    <3>1. held[j][r] # shown[r]
      BY <2>1, <2>2 DEF Missing
    <3>2. QED
      BY <1>0, <1>1, <1>6, <2>1, <2>2, <3>1, Recent
  <2>3. CASE stored'[r] = stored[r] /\ j # k
    <3>1. Mine(k)
      BY <1>6, <2>3 DEF Writes, Persist, RecordsDone, Go, Mark, Mine, TypeOK, job, walk
    <3>2. QED
      BY <1>3, <2>1, <2>3, <3>1 DEF Missing
  <2>4. CASE stored'[r] = stored[r] /\ j = k
    <3> DEFINE kept == {q \in S : Resolvable(q)}
    <3>1. UNCHANGED <<entity, mode, from, startedAt, pos, done>> /\ Upsert(k, kept)
          /\ RecordsDone(k, S, IF kept = S THEN {} ELSE {"skipped"})
      BY <1>6, <2>4 DEF Writes, Persist, job, walk
    <3>2. pc[k] \in {"batch", "records"} /\ pc'[k] \in {pc[k], AfterPage(k)}
      BY <1>6, <2>4, <3>1 DEF Writes, RecordsDone, Go, TypeOK
    <3>3. Accounted(k, r)
      BY <1>2, <2>1, <2>4, <3>1, <3>2 DEF Missing, Reading
    <3>4. marks'[k] = marks[k] \cup (IF kept = S THEN {} ELSE {"skipped"})
      BY <3>1 DEF RecordsDone, Mark, TypeOK
    <3>5. CASE marks[k] # {} \/ kept # S \/ shown[r] + Settle[EntityOf[r]] > startedAt[k]
      BY <2>1, <3>4, <3>5 DEF Accounted
    <3>6. CASE Ahead(k, r)
      <4>1. AfterPage(k) = "fetch"
        BY <3>1, <3>6 DEF AfterPage, Ahead
      <4>2. QED
        BY <2>1, <3>1, <3>2, <3>6, <4>1 DEF Ahead, Accounted, After
    <3>7. CASE held[k][r] = shown[r] /\ r \notin S
      BY <1>0, <2>1, <3>1, <3>7 DEF RecordsDone, TypeOK, Accounted
    <3>8. CASE held[k][r] = shown[r] /\ r \in S /\ kept = S
      <4>1. stored'[r] = shown'[r]
        BY <1>0, <2>1, <3>1, <3>8 DEF Upsert
      <4>2. QED
        BY <4>1 DEF Missing
    <3>9. QED
      BY <3>3, <3>5, <3>6, <3>7, <3>8 DEF Accounted
  <2>5. QED
    BY <2>1, <2>2, <2>3, <2>4
<1>7. ASSUME NEW j \in Runner, NEW q \in Row, RecordRejected(j, q) PROVE Accounted(k, r)'
  <2>1. UNCHANGED <<shown, stored>>
    BY <1>7 DEF RecordRejected, portal, database
  <2>2. CASE j = k
    BY <1>7, <2>2 DEF RecordRejected, RecordsDone, Mark, TypeOK, Accounted
  <2>3. CASE j # k
    <3>1. Mine(k)
      BY <1>7, <2>3 DEF RecordRejected, RecordsDone, Go, Mark, Mine, TypeOK, job, walk
    <3>2. QED
      BY <1>4, <2>1, <3>1
  <2>4. QED
    BY <2>2, <2>3
<1>8. ASSUME NEW j \in Runner, OpenRun(j) PROVE Accounted(k, r)'
  <2>1. UNCHANGED <<shown, stored>>
    BY <1>8 DEF OpenRun, portal, database
  <2>2. CASE j = k
    <3>1. pc'[k] = "fetch" /\ ~ done'[k] /\ pos'[k] = 0 /\ r > 0
      BY <1>0, <1>8, <2>2 DEF OpenRun, Go, TypeOK
    <3>2. Ahead(k, r)'
      BY <1>0, <3>1 DEF Ahead
    <3>3. QED
      BY <3>2 DEF Accounted
  <2>3. CASE j # k
    <3>1. Mine(k)
      BY <1>8, <2>3 DEF OpenRun, Go, Mine, TypeOK, page
    <3>2. QED
      BY <1>4, <2>1, <3>1
  <2>4. QED
    BY <2>2, <2>3
<1>9. ASSUME NEW j \in Runner, NEW S, NEW last \in Nat, NEW end \in BOOLEAN, At(j, "fetch"),
             Hold(j, S, last, end), UNCHANGED <<portal, database, job, marks>>,
             \A q \in Listed(j) : q > pos[j] => q \in S \/ (q > last /\ S # {} /\ ~ end)
      PROVE  Accounted(k, r)'
  <2>1. UNCHANGED <<shown, stored, entity, mode, from, startedAt>>
    BY <1>9 DEF portal, database, job
  <2>2. CASE j = k
    <3>1. pc[k] = "fetch" /\ Missing(r)
      BY <1>9, <2>1, <2>2 DEF At, Missing
    <3>2. Accounted(k, r)
      BY <1>2, <2>1, <3>1 DEF Reading
    <3>3. held[k][r] # shown[r]
      BY <1>0, <3>1 DEF TypeOK, PageInHand, PageRows, Missing
    <3>4. CASE marks[k] # {} \/ shown[r] + Settle[EntityOf[r]] > startedAt[k]
      BY <1>9, <2>1, <3>4 DEF Accounted
    <3>5. CASE Ahead(k, r)
      <4>1. r \in Listed(k) /\ r > pos[k]
        BY <1>0, <2>1, <3>1, <3>5 DEF Ahead, Listed, RowsOf, Missing
      <4>2. CASE r \in S
        <5>1. held'[k][r] = shown[r]
          BY <1>0, <1>9, <2>2, <4>2 DEF Hold, TypeOK
        <5>2. QED
          BY <2>1, <5>1 DEF Accounted
      <4>3. CASE r > last /\ S # {} /\ ~ end
        <5>1. pc'[k] = "batch" /\ pos'[k] = last /\ ~ done'[k]
          BY <1>9, <2>2, <4>3 DEF Hold, Go, TypeOK
        <5>2. Ahead(k, r)'
          BY <1>0, <4>3, <5>1 DEF Ahead
        <5>3. QED
          BY <5>2 DEF Accounted
      <4>4. QED
        BY <1>9, <2>2, <4>1, <4>2, <4>3
    <3>6. QED
      BY <3>2, <3>3, <3>4, <3>5 DEF Accounted
  <2>3. CASE j # k
    <3>1. Mine(k)
      BY <1>9, <2>1, <2>3 DEF Hold, Go, Mine, TypeOK
    <3>2. QED
      BY <1>4, <2>1, <3>1
  <2>4. QED
    BY <2>2, <2>3
<1>10. ASSUME NEW j \in Runner, FetchLastPage(j) PROVE Accounted(k, r)'
  <2> DEFINE S == {q \in Listed(j) : q > pos[j]}
  <2>1. At(j, "fetch") /\ Hold(j, S, pos[j], TRUE) /\ UNCHANGED <<portal, database, job, marks>>
    BY <1>10 DEF FetchLastPage
  <2>2. (\A q \in Listed(j) : q > pos[j] => q \in S) /\ pos[j] \in Nat
    BY DEF TypeOK
  <2> HIDE DEF S
  <2>3. QED
    BY <1>9, <2>1, <2>2
<1>11. ASSUME NEW j \in Runner, NEW last \in Row, FetchPage(j, last) PROVE Accounted(k, r)'
  <2> DEFINE S == {q \in Listed(j) : q > pos[j] /\ q <= last}
  <2>1. At(j, "fetch") /\ Hold(j, S, last, FALSE) /\ UNCHANGED <<portal, database, job, marks>>
    BY <1>11 DEF FetchPage
  <2>2. last \in Nat /\ \A q \in Listed(j) : q \in Nat
    BY DEF Listed, RowsOf
  <2>3. last \in Listed(j) /\ last > pos[j]
    BY <1>11 DEF FetchPage
  <2>4. S # {}
    BY <2>2, <2>3
  <2>5. \A q \in Listed(j) : q > pos[j] => q \in S \/ q > last
    BY <2>2
  <2> HIDE DEF S
  <2>6. QED
    BY <1>9, <2>1, <2>2, <2>4, <2>5
<1>12. ASSUME NEW j \in Runner,
              BatchRejected(j) \/ Finalize(j) \/ FinalizeFails(j) \/ FetchFails(j) \/ SetCursor(j)
       PROVE  Accounted(k, r)'
  <2>1. UNCHANGED <<shown, stored, entity, mode, from, startedAt, pos, done, held>>
    BY <1>12 DEF BatchRejected, Finalize, FinalizeFails, FetchFails, SetCursor, portal, database,
       job, walk, page
  <2>2. CASE j = k
    <3>1. /\ pc[k] \in {"batch", "finalize", "fetch", "cursor"} /\ marks[k] \subseteq marks'[k]
          /\ Missing(r)
          /\ pc[k] = "batch" => pc'[k] = "records"
          /\ pc[k] = "fetch" => marks'[k] # {}
      <4>1. pc \in [Runner -> Steps] /\ marks \in [Runner -> SUBSET Marks]
        BY DEF TypeOK
      <4>2. CASE BatchRejected(k)
        BY <2>1, <4>1, <4>2 DEF BatchRejected, At, Go, Missing
      <4>3. CASE Finalize(k) \/ SetCursor(k)
        BY <2>1, <4>1, <4>3 DEF Finalize, SetCursor, At, Missing
      <4>4. CASE FinalizeFails(k) \/ FetchFails(k)
        BY <2>1, <4>1, <4>4 DEF FinalizeFails, FetchFails, At, Mark, Missing
      <4>5. QED
        BY <1>12, <2>2, <4>2, <4>3, <4>4
    <3>2. Accounted(k, r)
      BY <1>2, <2>1, <3>1 DEF Reading
    <3>3. Ahead(k, r) /\ pc[k] # "fetch" => Ahead(k, r)'
      BY <2>1, <3>1 DEF Ahead, After
    <3>4. QED
      BY <2>1, <3>1, <3>2, <3>3 DEF Accounted
  <2>3. CASE j # k
    <3>1. Mine(k)
      BY <1>12, <2>1, <2>3
      DEF BatchRejected, Finalize, FinalizeFails, FetchFails, SetCursor, Go, Mark, Mine, TypeOK
    <3>2. QED
      BY <1>4, <2>1, <3>1
  <2>4. QED
    BY <2>2, <2>3
<1>13. ASSUME NEW j \in Runner, FinishRun(j) \/ StoreFails(j) \/ Crash(j) PROVE Accounted(k, r)'
  <2>1. Leave(j) /\ UNCHANGED <<shown, stored>>
    BY <1>13 DEF FinishRun, StoreFails, Crash, portal, database
  <2>2. j # k
    BY <2>1 DEF Leave, Go, Reading, At, TypeOK
  <2>3. Mine(k)
    BY <2>1, <2>2 DEF Leave, Go, Mine, TypeOK
  <2>4. QED
    BY <1>4, <2>1, <2>3
<1>14. ASSUME NEW j \in Runner, NEW e \in Entity, NEW m \in Modes[j] \ {"BYID"}, Begin(j, e, m)
       PROVE  Accounted(k, r)'
  <2>1. UNCHANGED <<shown, stored, from, pos, done, held, marks>>
    BY <1>14 DEF Begin, portal, database, walk, page
  <2>2. j # k
    BY <1>14 DEF Begin, Go, Reading, At, TypeOK
  <2>3. Mine(k)
    BY <1>14, <2>1, <2>2 DEF Begin, Go, Mine, TypeOK
  <2>4. QED
    BY <1>4, <2>1, <2>3
<1>15. ASSUME NEW j \in Runner, NEW e \in Entity, NEW S \in SUBSET Row, ReadByIds(j, e, S)
       PROVE  Accounted(k, r)'
  <2>1. UNCHANGED <<shown, stored, from, startedAt, marks>>
    BY <1>15 DEF ReadByIds, portal, database
  <2>2. j # k
    BY <1>15 DEF ReadByIds, TypeOK
  <2>3. Mine(k)
    BY <1>15, <2>1, <2>2 DEF ReadByIds, Hold, Go, Mine, TypeOK
  <2>4. QED
    BY <1>4, <2>1, <2>3
<1>16. (\E q \in Row : Stamp(q)) \/ Tick \/ WindBack \/ UNCHANGED vars => Accounted(k, r)'
  <2>1. (\E q \in Row : Stamp(q)) \/ Tick \/ WindBack \/ UNCHANGED vars
        => Mine(k) /\ UNCHANGED <<shown, stored>>
    BY DEF Stamp, Tick, WindBack, vars, Mine, portal, database, engine, job, walk, page
  <2>2. QED
    BY <1>4, <2>1
<1>17. ASSUME NEW j \in Runner, PersistBatch(j) PROVE Accounted(k, r)'
  BY <1>6, <1>17 DEF PersistBatch, At, Writes, PageRows
<1>18. ASSUME NEW j \in Runner, NEW q \in Row, PersistRecord(j, q) PROVE Accounted(k, r)'
  BY <1>6, <1>18 DEF PersistRecord, IsNextRecord, At, Writes
<1>19. QED
  BY <1>5, <1>7, <1>8, <1>10, <1>11, <1>12, <1>13, <1>14, <1>15, <1>16, <1>17, <1>18
  DEF Next, RunStep, Failure

\* SUCCESS in sync_log is true: a run of any mode that saw nothing go wrong has
\* left no settled row of its window unwritten, whatever the portal did meanwhile
\* and whatever the other runners wrote.
THEOREM SuccessIsCompleteHolds == Spec => []SuccessIsComplete
<1> USE AssumedHolds DEF Assumed
<1>1. Init => Walked
  BY DEF Init, Walked, Reading, At
<1>2. IInv /\ Walked /\ [Next]_vars => Walked'
  BY WalkedStep DEF IInv
<1>3. IInv /\ Walked => SuccessIsComplete
  <2> SUFFICES ASSUME IInv, Walked, NEW k \in Runner, At(k, "report"), mode[k] # "BYID",
                      RunStatus(k) = "SUCCESS", entity[k] \notin Whole, NEW r \in Listed(k),
                      shown[r] <= startedAt[k] - Settle[entity[k]]
               PROVE  stored[r] = shown[r]
    BY DEF SuccessIsComplete
  <2>1. TypeOK /\ r \in Row /\ EntityOf[r] = entity[k] /\ shown[r] # 0
    BY DEF IInv, Listed, RowsOf
  <2>2. marks[k] = {}
    BY DEF RunStatus
  <2>3. held[k][r] # shown[r] /\ ~ Ahead(k, r)
    BY <2>1 DEF TypeOK, PageInHand, PageRows, At, Ahead
  <2>4. ~ (shown[r] + Settle[EntityOf[r]] > startedAt[k])
    BY <2>1 DEF TypeOK
  <2>5. Missing(r) => Accounted(k, r)
    BY <2>1 DEF Walked
  <2>6. QED
    BY <2>1, <2>2, <2>3, <2>4, <2>5 DEF Accounted, Missing
<1>4. QED
  BY <1>1, <1>2, <1>3, IInvInit, IInvStep, PTL DEF Spec
=============================================================================
