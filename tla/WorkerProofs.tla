----------------------------- MODULE WorkerProofs -----------------------------
(***************************************************************************)
(* The feeds' floor under rows shown late, for any number of rows, page    *)
(* and pass, the nights of the sweep and the reads, for any calendar, the  *)
(* slow passes of the tick, for any periods and windows, the operators'    *)
(* chats, for any windows and caps, the orders of the warehouse, for any   *)
(* number of them and pages of any size, and the parts that run beside one *)
(* another in MCWorker.                                                    *)
(***************************************************************************)
EXTENDS MCWorker, FiniteSetTheorems, WellFoundedInduction, TLAPS

\* Where the walk's progress means something.
Walking == {"fetch", "insert", "remember", "succeed"}

\* Old enough, at the pass's "now", for the floor to stand on.
IsOld(i) == stamp[i] <= passAt - Overlap

\* Ids are handed out in the order of their stamps, and a row is not hidden
\* for longer than Lag.
RowsInOrder ==
  /\ \A i, j \in 1..newest : i <= j => stamp[i] <= stamp[j]
  /\ \A i \in Hidden : feedNow <= stamp[i] + Lag

\* What a pass owes is of the month it starts at.
OwesRecent == \A i \in due : stamp[i] >= From

AskIsSafe == walk = "ask" => MonthHasBegun

\* The old rows behind the cursor, the rows under the floor and the owed rows
\* behind the cursor are in the table.
BehindIsStored ==
  walk \in Walking =>
    /\ \A i \in Recent : i <= cursor /\ IsOld(i) => i \in stored
    /\ \A i \in Recent : i <= floor => i \in stored
    /\ \A i \in due : i <= cursor => i \in stored

\* A page read is whole under its rows, but for rows shown since.
PageIsWhole ==
  walk = "insert" =>
    /\ \A f \in answer, i \in 1..newest :
         cursor < i /\ i < f /\ (IsOld(i) \/ i \in due) => i \in answer
    /\ complete => \A i \in due : cursor < i => i \in answer

SuccessIsWhole == walk = "succeed" => due \subseteq stored

FeedInv ==
  /\ FeedTypeOK /\ RowsInOrder /\ OwesRecent /\ AskIsSafe
  /\ BehindIsStored /\ PageIsWhole /\ SuccessIsWhole /\ FloorIsWhole /\ WholeUpToHere

-------------------------------------------------------------------------------
(* Types. *)

LEMMA FeedTypeInit ==
  ASSUME FeedInit
  PROVE  FeedTypeOK
<1> USE FeedAssumption DEF FeedInit
<1>1. stamp \in [Row -> 0..feedNow]
  OBVIOUS
<1>2. 0 \in 0..(MaxPages - 1) /\ 0 \in 0..LastNow /\ 0 \in 0..MaxRow
  OBVIOUS
<1>3. {} \subseteq Above /\ pages = 0 /\ saved \in {NoFloor} \cup 0..newest
  OBVIOUS
<1>4. /\ stored \subseteq shown /\ due \subseteq shown /\ promised \subseteq shown /\ shown \subseteq 1..newest
      /\ answer \subseteq Above /\ complete \in BOOLEAN
  OBVIOUS
<1>5. feedNow \in 0..LastNow /\ newest \in 0..MaxRow /\ walk = "idle" /\ passAt \in 0..feedNow
  BY <1>2
<1>6. cursor \in 0..newest /\ floor \in 0..cursor
  OBVIOUS
<1> QED
  BY <1>1, <1>2, <1>3, <1>4, <1>5, <1>6 DEF FeedTypeOK

LEMMA PortalTypes ==
  ASSUME FeedTypeOK, HandOut \/ ShowRow \/ FeedTick
  PROVE  FeedTypeOK'
<1> USE FeedAssumption
<1>1. CASE HandOut
  <2>1. newest' = newest + 1 /\ newest' \in 1..MaxRow
    BY <1>1 DEF HandOut, FeedTypeOK
  <2>2. stamp' \in [Row -> 0..feedNow'] /\ 1..newest \subseteq 1..newest'
    BY <1>1, <2>1 DEF HandOut, FeedTypeOK, Row
  <2>3. cursor \in 0..newest' /\ floor \in 0..cursor /\ Above' = Above
    BY <1>1, <2>1 DEF HandOut, FeedTypeOK, progress, Above
  <2> QED
    BY <1>1, <2>1, <2>2, <2>3 DEF HandOut, FeedTypeOK, progress, NoFloor
<1>2. CASE ShowRow
  <2>1. shown \subseteq shown' /\ shown' \subseteq 1..newest
    BY <1>2 DEF ShowRow, FeedTypeOK, Hidden
  <2>2. Above \subseteq Above'
    BY <1>2, <2>1 DEF ShowRow, Above, progress
  <2> QED
    BY <1>2, <2>1, <2>2 DEF ShowRow, FeedTypeOK, progress
<1>3. CASE FeedTick
  <2>1. feedNow' = feedNow + 1 /\ feedNow' \in 0..LastNow /\ 0..feedNow \subseteq 0..feedNow'
    BY <1>3 DEF FeedTick, FeedTypeOK
  <2>2. stamp' \in [Row -> 0..feedNow'] /\ passAt' \in 0..feedNow' /\ Above' = Above
    BY <1>3, <2>1 DEF FeedTick, FeedTypeOK, progress, Above
  <2> QED
    BY <1>3, <2>1, <2>2 DEF FeedTick, FeedTypeOK, progress
<1> QED
  BY <1>1, <1>2, <1>3

\* A page's last row, and a floor it allows, are where they should be.
LEMMA InsertBounds ==
  ASSUME FeedTypeOK, InsertRows
  PROVE  /\ cursor' \in 0..newest /\ cursor <= cursor' /\ floor <= floor'
         /\ floor' \in 0..cursor'
         /\ cursor' = cursor \/ cursor' \in answer
         /\ floor' = floor \/ floor' \in Settled
         /\ \A i \in answer : i <= cursor'
         /\ \A i \in answer : i \in 1..newest /\ i > cursor
<1>1. \A i \in answer : i \in 1..newest /\ i > cursor
  BY DEF FeedTypeOK, Above
<1>2. PICK c \in {cursor} \cup answer : (\A i \in answer : i <= c) /\ cursor' = c
  BY DEF InsertRows
<1>3. PICK f \in {floor} \cup Settled : (\A i \in Settled : i <= f) /\ floor' = f
  BY DEF InsertRows
<1>4. Settled \subseteq answer
  BY DEF Settled
<1>5. cursor' \in 0..newest /\ cursor <= cursor'
  BY <1>1, <1>2 DEF FeedTypeOK
<1>6. floor \in 0..cursor /\ floor \in Nat /\ cursor \in 0..newest /\ newest \in Nat
  BY DEF FeedTypeOK
<1>7. CASE floor' = floor
  BY <1>1, <1>2, <1>5, <1>6, <1>7
<1>8. CASE floor' \in Settled
  <2>1. floor' \in answer /\ floor' <= cursor' /\ floor' \in 1..newest /\ floor' > cursor
    BY <1>1, <1>2, <1>4, <1>8
  <2> QED
    BY <1>1, <1>2, <1>5, <1>6, <1>8, <2>1
<1> QED
  BY <1>3, <1>7, <1>8

LEMMA PassTypes ==
  ASSUME FeedTypeOK,
         \/ BeginPass \/ FirstFloor \/ NoFirstFloor \/ FetchRows \/ InsertRows
         \/ PageFails \/ RememberFloor \/ FeedCrash
  PROVE  FeedTypeOK'
<1> USE FeedAssumption
<1>1. CASE BeginPass
  <2>1. /\ feedNow' = feedNow /\ newest' = newest /\ stamp' = stamp /\ shown' = shown
        /\ stored' = stored /\ saved' = saved /\ promised' = promised
        /\ passAt' \in 0..feedNow /\ due' \subseteq shown
    BY <1>1 DEF BeginPass, portalRows, FeedTypeOK
  <2>2. CASE saved = NoFloor
    BY <1>1, <2>1, <2>2 DEF BeginPass, FeedTypeOK, progress, Above
  <2>3. CASE saved # NoFloor
    <3>1. saved \in 0..newest /\ WalkFrom(saved)
      BY <1>1, <2>3 DEF BeginPass, FeedTypeOK
    <3>2. /\ walk' = "fetch" /\ cursor' \in 0..newest /\ floor' \in 0..cursor' /\ pages' \in 0..(MaxPages - 1)
          /\ answer' = {} /\ complete' = FALSE
      BY <3>1 DEF WalkFrom, FeedTypeOK
    <3> QED
      BY <2>1, <3>2 DEF FeedTypeOK
  <2> QED
    BY <2>2, <2>3
<1>2. CASE FirstFloor
  <2>1. PICK i \in shown \cap Recent : saved' = i - 1 /\ WalkFrom(i - 1)
    BY <1>2 DEF FirstFloor
  <2>2. i - 1 \in 0..newest
    BY <2>1 DEF Recent, FeedTypeOK
  <2>3. /\ walk' = "fetch" /\ cursor' \in 0..newest /\ floor' \in 0..cursor' /\ pages' \in 0..(MaxPages - 1)
        /\ answer' = {} /\ complete' = FALSE
    BY <2>1, <2>2 DEF WalkFrom, FeedTypeOK
  <2> QED
    BY <1>2, <2>1, <2>2, <2>3 DEF FirstFloor, FeedTypeOK, portalRows
<1>3. CASE NoFirstFloor \/ FeedCrash
  BY <1>3 DEF NoFirstFloor, FeedCrash, Over, FeedTypeOK, portalRows, progress, Above
<1>4. CASE FetchRows
  BY <1>4 DEF FetchRows, IsPage, FeedTypeOK, portalRows, Above
<1>5. CASE InsertRows
  <2>1. stored' \subseteq shown' /\ answer' = {} /\ answer' \subseteq Above'
    BY <1>5 DEF InsertRows, FeedTypeOK, portalRows, Above
  <2>2. pages' \in 0..(MaxPages - 1)
    BY <1>5 DEF InsertRows, FeedTypeOK, MayGoOn
  <2>3. walk' \in {"fetch", "remember", "succeed"}
    BY <1>5 DEF InsertRows, Ends
  <2> QED
    BY <1>5, <2>1, <2>2, <2>3, InsertBounds DEF InsertRows, FeedTypeOK, portalRows
<1>6. CASE PageFails
  <2>1. saved' \in {NoFloor} \cup 0..newest
    BY <1>6 DEF PageFails, FeedTypeOK
  <2> QED
    BY <1>6, <2>1 DEF PageFails, Over, FeedTypeOK, portalRows, progress, Above
<1>7. CASE RememberFloor
  <2>0. \/ saved' = floor /\ promised' \in {due, promised}
        \/ saved' = saved /\ promised' = promised
    BY <1>7 DEF RememberFloor
  <2>3. cursor \in 0..newest /\ floor \in 0..cursor /\ newest \in Nat
    BY DEF FeedTypeOK
  <2>4. promised' \subseteq shown
    BY <2>0 DEF FeedTypeOK
  <2>1. floor \in 0..newest /\ promised' \subseteq shown
    BY <2>3, <2>4
  <2>2. saved' \in {NoFloor} \cup 0..newest
    BY <2>0, <2>1 DEF FeedTypeOK
  <2> QED
    BY <1>7, <2>1, <2>2 DEF RememberFloor, Over, FeedTypeOK, portalRows, progress, Above
<1> QED
  BY <1>1, <1>2, <1>3, <1>4, <1>5, <1>6, <1>7

-------------------------------------------------------------------------------
(* The invariant. *)

LEMMA FeedInvInit == FeedInit => FeedInv
<1> SUFFICES ASSUME FeedInit PROVE FeedInv
  OBVIOUS
<1>1. FeedTypeOK
  BY FeedTypeInit
<1>2. newest = 0 /\ shown = {} /\ Hidden = {} /\ due = {} /\ promised = {} /\ walk = "idle" /\ saved = NoFloor
  BY DEF FeedInit, Hidden
<1>3. RowsInOrder
  BY <1>2 DEF RowsInOrder
<1> QED
  BY <1>1, <1>2, <1>3 DEF FeedInv, OwesRecent, AskIsSafe, BehindIsStored, Walking, PageIsWhole, SuccessIsWhole,
     FloorIsWhole, WholeUpToHere

\* Handing out a row disturbs no other.
LEMMA HandOutKeeps ==
  ASSUME FeedInv, HandOut
  PROVE  FeedInv'
<1> USE FeedAssumption
<1>1. FeedTypeOK'
  BY PortalTypes DEF FeedInv
<1>2. /\ newest' = newest + 1 /\ newest \in Nat /\ newest' \in Row /\ feedNow' = feedNow /\ shown' = shown
      /\ stamp' = [stamp EXCEPT ![newest'] = feedNow]
      /\ stored' = stored /\ saved' = saved /\ walk' = walk /\ passAt' = passAt
      /\ cursor' = cursor /\ floor' = floor /\ answer' = answer /\ complete' = complete
      /\ due' = due /\ promised' = promised
  BY DEF HandOut, progress, FeedInv, FeedTypeOK, Row
<1>3. /\ stamp \in [Row -> 0..feedNow] /\ feedNow \in Nat /\ shown \subseteq 1..newest
      /\ \A i \in 1..newest : i \in Row /\ stamp[i] \in 0..feedNow
      /\ cursor \in 0..newest /\ floor \in 0..newest /\ (saved # NoFloor => saved \in 0..newest)
      /\ answer \subseteq 1..newest /\ due \subseteq 1..newest /\ passAt \in Nat
  BY DEF FeedInv, FeedTypeOK, Row, Above
<1>4. \A i \in 1..newest : stamp'[i] = stamp[i] /\ i \in 1..newest'
  BY <1>2, <1>3
<1>5. stamp'[newest'] = feedNow
  BY <1>2, <1>3
<1>6. \A i \in 1..newest' : i \in 1..newest \/ i = newest'
  BY <1>2
<1>7. RowsInOrder'
  <2>1. ASSUME NEW i \in 1..newest', NEW j \in 1..newest', i <= j
        PROVE  stamp'[i] <= stamp'[j]
    <3>1. CASE j \in 1..newest
      <4>1. i \in 1..newest
        BY <2>1, <3>1, <1>2
      <4> QED
        BY <2>1, <3>1, <4>1, <1>4 DEF FeedInv, RowsInOrder
    <3>2. CASE j = newest'
      BY <3>2, <1>3, <1>4, <1>5, <1>6
    <3> QED
      BY <3>1, <3>2, <1>6
  <2>2. ASSUME NEW i \in Hidden'
        PROVE  feedNow' <= stamp'[i] + Lag
    <3>1. CASE i \in 1..newest
      <4>1. i \in Hidden
        BY <3>1, <2>2, <1>2 DEF Hidden
      <4> QED
        BY <3>1, <4>1, <1>2, <1>4 DEF FeedInv, RowsInOrder
    <3>2. CASE i = newest'
      BY <3>2, <1>2, <1>3, <1>5
    <3> QED
      BY <3>1, <3>2, <2>2, <1>6 DEF Hidden
  <2> QED
    BY <2>1, <2>2 DEF RowsInOrder
<1>8. \A i \in 1..newest : (i \in Recent' <=> i \in Recent) /\ (IsOld(i)' <=> IsOld(i))
  BY <1>2, <1>4 DEF Recent, IsOld
<1>9. OwesRecent' /\ SuccessIsWhole' /\ WholeUpToHere'
  BY <1>2, <1>3, <1>4 DEF FeedInv, OwesRecent, SuccessIsWhole, WholeUpToHere
<1>10. AskIsSafe'
  <2>1. ASSUME MonthHasBegun PROVE MonthHasBegun'
    <3>1. PICK i \in Recent : stamp[i] + Lag < feedNow
      BY <2>1 DEF MonthHasBegun
    <3>2. i \in 1..newest /\ i \in Recent'
      BY <3>1, <1>8 DEF Recent
    <3> QED
      BY <3>1, <3>2, <1>2, <1>4 DEF MonthHasBegun
  <2> QED
    BY <2>1, <1>2 DEF FeedInv, AskIsSafe
<1>11. \A i \in Recent' : (i <= cursor \/ i <= floor \/ (saved # NoFloor /\ i <= saved)) => i \in Recent
  <2>1. ASSUME NEW i \in Recent', i <= cursor \/ i <= floor \/ (saved # NoFloor /\ i <= saved)
        PROVE  i \in Recent
    <3>1. i \in 1..newest'
      BY <2>1 DEF Recent
    <3>2. i <= newest
      BY <2>1, <3>1, <1>2, <1>3
    <3>3. i \in 1..newest
      BY <3>1, <3>2, <1>2
    <3> QED
      BY <3>3, <2>1, <1>8
  <2> QED
    BY <2>1
<1>12. BehindIsStored'
  <2>1. ASSUME walk \in Walking, NEW i \in Recent', i <= cursor, IsOld(i)'
        PROVE  i \in stored
    <3>1. i \in Recent /\ i \in 1..newest
      BY <2>1, <1>11 DEF Recent
    <3> QED
      BY <2>1, <3>1, <1>8 DEF FeedInv, BehindIsStored
  <2>2. ASSUME walk \in Walking, NEW i \in Recent', i <= floor
        PROVE  i \in stored
    BY <2>2, <1>11 DEF FeedInv, BehindIsStored
  <2> QED
    BY <2>1, <2>2, <1>2 DEF FeedInv, BehindIsStored
<1>13. PageIsWhole'
  <2>1. ASSUME walk = "insert", NEW f \in answer, NEW i \in 1..newest', cursor < i, i < f, IsOld(i)' \/ i \in due
        PROVE  i \in answer
    <3>1. i \in 1..newest
      BY <2>1, <1>2, <1>3
    <3> QED
      BY <2>1, <3>1, <1>8 DEF FeedInv, PageIsWhole
  <2> QED
    BY <2>1, <1>2 DEF FeedInv, PageIsWhole
<1>14. FloorIsWhole'
  BY <1>2, <1>11 DEF FeedInv, FloorIsWhole, NoFloor
<1> QED
  BY <1>1, <1>7, <1>9, <1>10, <1>12, <1>13, <1>14 DEF FeedInv

\* Nor does showing one, or the clock.
LEMMA ShowTickKeeps ==
  ASSUME FeedInv, ShowRow \/ FeedTick
  PROVE  FeedInv'
<1> USE FeedAssumption
<1>1. FeedTypeOK'
  BY PortalTypes DEF FeedInv
<1>2. /\ newest' = newest /\ stamp' = stamp /\ shown \subseteq shown'
      /\ stored' = stored /\ saved' = saved /\ walk' = walk /\ passAt' = passAt
      /\ cursor' = cursor /\ floor' = floor /\ answer' = answer /\ complete' = complete
      /\ due' = due /\ promised' = promised
      /\ feedNow \in Nat /\ feedNow' \in Nat /\ feedNow <= feedNow'
  BY DEF ShowRow, FeedTick, progress, FeedInv, FeedTypeOK
<1>3. Recent' = Recent
  BY <1>2 DEF Recent
<1>4. \A i \in 1..newest : stamp[i] \in Nat
  BY DEF FeedInv, FeedTypeOK, Row
<1>5. RowsInOrder'
  <2>1. ASSUME NEW i \in Hidden'
        PROVE  feedNow' <= stamp[i] + Lag
    <3>1. i \in Hidden /\ i \in 1..newest
      BY <1>2 DEF Hidden
    <3>2. CASE ShowRow
      BY <3>1, <3>2 DEF ShowRow, FeedInv, RowsInOrder
    <3>3. CASE FeedTick
      <4>1. feedNow < stamp[i] + Lag /\ feedNow' = feedNow + 1
        BY <3>1, <3>3 DEF FeedTick
      <4> QED
        BY <4>1, <1>2, <1>4, <3>1
    <3> QED
      BY <3>2, <3>3
  <2> QED
    BY <2>1, <1>2 DEF FeedInv, RowsInOrder
<1>6. MonthHasBegun => MonthHasBegun'
  BY <1>2, <1>3, <1>4 DEF MonthHasBegun, Recent
<1>7. AskIsSafe' /\ OwesRecent' /\ SuccessIsWhole' /\ WholeUpToHere' /\ FloorIsWhole'
  BY <1>2, <1>3, <1>6 DEF FeedInv, AskIsSafe, OwesRecent, SuccessIsWhole, WholeUpToHere, FloorIsWhole
<1>8. BehindIsStored' /\ PageIsWhole'
  BY <1>2, <1>3 DEF FeedInv, BehindIsStored, PageIsWhole, IsOld
<1> QED
  BY <1>1, <1>5, <1>7, <1>8 DEF FeedInv

\* A pass that goes on from its bookmark starts with what the bookmark means.
LEMMA WalkFromKeeps ==
  ASSUME FeedInv, NEW f \in 0..newest, WalkFrom(f), UNCHANGED portalRows, UNCHANGED <<stored, promised>>,
         FeedTypeOK', OwesRecent', FloorIsWhole',
         \A i \in Recent : i <= f => i \in stored,
         due' \subseteq Recent
  PROVE  FeedInv'
<1>1. /\ feedNow' = feedNow /\ newest' = newest /\ stamp' = stamp /\ shown' = shown
      /\ stored' = stored /\ promised' = promised
      /\ walk' = "fetch" /\ cursor' = f /\ floor' = f
  BY DEF portalRows, WalkFrom
<1>2. Recent' = Recent /\ Hidden' = Hidden
  BY <1>1 DEF Recent, Hidden
<1>3. RowsInOrder' /\ AskIsSafe' /\ PageIsWhole' /\ SuccessIsWhole' /\ WholeUpToHere'
  BY <1>1, <1>2 DEF FeedInv, RowsInOrder, AskIsSafe, PageIsWhole, SuccessIsWhole, WholeUpToHere
<1>4. BehindIsStored'
  BY <1>1, <1>2 DEF BehindIsStored
<1> QED
  BY <1>3, <1>4 DEF FeedInv

LEMMA BeginPassKeeps ==
  ASSUME FeedInv, BeginPass
  PROVE  FeedInv'
<1>1. FeedTypeOK'
  BY PassTypes DEF FeedInv
<1>2. /\ UNCHANGED portalRows /\ UNCHANGED <<stored, promised, saved>> /\ due' = shown \cap Recent /\ MonthHasBegun
  BY DEF BeginPass
<1>3. /\ feedNow' = feedNow /\ newest' = newest /\ stamp' = stamp /\ shown' = shown
      /\ stored' = stored /\ saved' = saved /\ promised' = promised
  BY <1>2 DEF portalRows
<1>4. Recent' = Recent /\ Hidden' = Hidden
  BY <1>3 DEF Recent, Hidden
<1>5. OwesRecent' /\ FloorIsWhole'
  BY <1>2, <1>3, <1>4 DEF FeedInv, OwesRecent, FloorIsWhole, Recent
<1>6. CASE saved = NoFloor
  <2>1. walk' = "ask"
    BY <1>6 DEF BeginPass
  <2>2. MonthHasBegun'
    BY <1>2, <1>3, <1>4 DEF MonthHasBegun
  <2>3. RowsInOrder' /\ WholeUpToHere' /\ BehindIsStored' /\ PageIsWhole' /\ SuccessIsWhole' /\ AskIsSafe'
    BY <2>1, <2>2, <1>3, <1>4 DEF FeedInv, RowsInOrder, WholeUpToHere, BehindIsStored, Walking, PageIsWhole,
       SuccessIsWhole, AskIsSafe
  <2> QED
    BY <1>1, <1>5, <2>3 DEF FeedInv
<1>7. CASE saved # NoFloor
  <2>1. WalkFrom(saved)
    BY <1>7 DEF BeginPass
  <2>2. saved \in 0..newest /\ \A i \in Recent : i <= saved => i \in stored
    BY <1>7 DEF FeedInv, FeedTypeOK, FloorIsWhole
  <2> QED
    BY <1>1, <1>2, <1>5, <2>1, <2>2, WalkFromKeeps
<1> QED
  BY <1>6, <1>7

\* Under the first row of the month shown, no row of the month is hidden: one
\* was shown long ago.
LEMMA FirstFloorKeeps ==
  ASSUME FeedInv, FirstFloor
  PROVE  FeedInv'
<1> USE FeedAssumption
<1>1. FeedTypeOK'
  BY PassTypes DEF FeedInv
<1>2. PICK first \in shown \cap Recent :
        /\ \A j \in shown \cap Recent : first <= j
        /\ saved' = first - 1 /\ WalkFrom(first - 1)
  BY DEF FirstFloor
<1>3. /\ UNCHANGED portalRows /\ UNCHANGED <<stored, promised>>
      /\ newest' = newest /\ stamp' = stamp /\ stored' = stored /\ due' = due
  BY DEF FirstFloor, portalRows
<1>4. newest \in Nat /\ feedNow \in Nat /\ \A i \in 1..newest : stamp[i] \in Nat
  BY DEF FeedInv, FeedTypeOK, Row
<1>5. ASSUME NEW i \in Recent, i <= first - 1
      PROVE  FALSE
  <2>1. i \in 1..newest /\ first \in 1..newest /\ i < first
    BY <1>2, <1>4, <1>5 DEF Recent
  <2>2. i \notin shown
    BY <1>2, <1>5, <2>1
  <2>3. feedNow <= stamp[i] + Lag
    BY <2>1, <2>2 DEF FeedInv, RowsInOrder, Hidden
  <2>4. PICK old \in Recent : stamp[old] + Lag < feedNow
    BY DEF FeedInv, AskIsSafe, FirstFloor, MonthHasBegun
  <2>5. old \in 1..newest
    BY DEF Recent
  <2>6. old \in shown
    BY <2>4, <2>5, <1>4 DEF FeedInv, RowsInOrder, Hidden
  <2>7. i <= old
    BY <2>1, <2>5, <2>6, <1>2
  <2>8. stamp[i] <= stamp[old]
    BY <2>1, <2>5, <2>7 DEF FeedInv, RowsInOrder
  <2> QED
    BY <2>1, <2>3, <2>4, <2>5, <2>8, <1>4
<1>6. first - 1 \in 0..newest
  BY <1>2, <1>4 DEF Recent
<1>7. Recent' = Recent
  BY <1>3 DEF Recent
<1>8. OwesRecent' /\ FloorIsWhole'
  BY <1>2, <1>3, <1>5, <1>7 DEF FeedInv, OwesRecent, FloorIsWhole
<1>9. due' \subseteq Recent
  BY <1>3 DEF FeedInv, OwesRecent, FeedTypeOK, Recent
<1> QED
  BY <1>1, <1>2, <1>3, <1>5, <1>6, <1>8, <1>9, WalkFromKeeps

LEMMA FetchKeeps ==
  ASSUME FeedInv, FetchRows
  PROVE  FeedInv'
<1> USE FeedAssumption
<1>1. FeedTypeOK'
  BY PassTypes DEF FeedInv
<1>2. PICK page \in SUBSET Above : IsPage(page) /\ answer' = page /\ complete' = (Cardinality(page) < PageSize)
  BY DEF FetchRows
<1>3. /\ feedNow' = feedNow /\ newest' = newest /\ stamp' = stamp /\ shown' = shown
      /\ stored' = stored /\ saved' = saved /\ promised' = promised /\ due' = due
      /\ walk = "fetch" /\ walk' = "insert" /\ passAt' = passAt /\ cursor' = cursor /\ floor' = floor
  BY DEF FetchRows, portalRows
<1>4. Recent' = Recent /\ Hidden' = Hidden
  BY <1>3 DEF Recent, Hidden
<1>5. RowsInOrder' /\ OwesRecent' /\ AskIsSafe' /\ BehindIsStored' /\ SuccessIsWhole' /\ FloorIsWhole' /\ WholeUpToHere'
  BY <1>3, <1>4 DEF FeedInv, RowsInOrder, OwesRecent, AskIsSafe, BehindIsStored, Walking, IsOld, SuccessIsWhole,
     FloorIsWhole, WholeUpToHere
<1>6. newest \in Nat /\ feedNow \in Nat /\ passAt \in Nat /\ passAt <= feedNow /\ \A i \in 1..newest : stamp[i] \in Nat
  BY DEF FeedInv, FeedTypeOK, Row
\* An old row is not hidden.
<1>7. ASSUME NEW i \in 1..newest, IsOld(i) \/ i \in due, cursor < i
      PROVE  i \in Above
  <2>1. CASE i \in due
    BY <2>1, <1>7 DEF FeedInv, FeedTypeOK, Above
  <2>2. CASE IsOld(i)
    <3>1. i \in shown
      BY <2>2, <1>6, <1>7 DEF IsOld, FeedInv, RowsInOrder, Hidden
    <3> QED
      BY <3>1, <1>7 DEF Above
  <2> QED
    BY <2>1, <2>2, <1>7
<1>8. PageIsWhole'
  <2>1. ASSUME NEW f \in page, NEW i \in 1..newest, cursor < i, i < f, IsOld(i) \/ i \in due
        PROVE  i \in page
    BY <2>1, <1>2, <1>7 DEF IsPage
  <2>2. ASSUME complete', NEW i \in due, cursor < i
        PROVE  i \in page
    <3>1. page = Above
      <4>1. Cardinality(page) < PageSize
        BY <2>2, <1>2, Zenon
      <4>2. Cardinality(page) # PageSize
        BY <4>1
      <4> QED
        BY <1>2, <4>2 DEF IsPage
    <3>2. i \in 1..newest
      BY <2>2 DEF FeedInv, FeedTypeOK
    <3> QED
      BY <3>1, <3>2, <2>2, <1>7
  <2> QED
    BY <2>1, <2>2, <1>2, <1>3 DEF PageIsWhole, IsOld
<1> QED
  BY <1>1, <1>5, <1>8 DEF FeedInv

LEMMA InsertKeeps ==
  ASSUME FeedInv, InsertRows
  PROVE  FeedInv'
<1> USE FeedAssumption
<1>1. FeedTypeOK' /\ FeedTypeOK
  BY PassTypes DEF FeedInv
<1>2. /\ feedNow' = feedNow /\ newest' = newest /\ stamp' = stamp /\ shown' = shown
      /\ stored' = stored \cup answer /\ saved' = saved /\ promised' = promised /\ due' = due
      /\ walk = "insert" /\ passAt' = passAt
  BY DEF InsertRows, portalRows
<1>3. walk' \in {"fetch", "remember", "succeed"} /\ (walk' = "succeed" => complete)
  BY DEF InsertRows, Ends
<1>4. Recent' = Recent /\ Hidden' = Hidden
  BY <1>2 DEF Recent, Hidden
<1>5. RowsInOrder' /\ OwesRecent' /\ AskIsSafe' /\ PageIsWhole' /\ FloorIsWhole' /\ WholeUpToHere'
  BY <1>2, <1>3, <1>4 DEF FeedInv, RowsInOrder, OwesRecent, AskIsSafe, PageIsWhole, FloorIsWhole, WholeUpToHere
<1>6. newest \in Nat /\ passAt \in Nat /\ cursor \in 0..newest /\ \A i \in 1..newest : stamp[i] \in Nat
  BY DEF FeedInv, FeedTypeOK, Row
\* What the page brings is whole up to the new cursor.
<1>7. ASSUME NEW i \in 1..newest, i <= cursor', IsOld(i) \/ i \in due, i \in Recent
      PROVE  i \in stored'
  <2>1. CASE i <= cursor
    BY <2>1, <1>2, <1>7 DEF FeedInv, BehindIsStored, Walking
  <2>2. CASE cursor < i
    <3>1. cursor' \in answer
      BY <2>2, <1>1, <1>6, <1>7, InsertBounds
    <3>2. CASE i = cursor'
      BY <3>1, <3>2, <1>2
    <3>3. CASE i < cursor'
      BY <3>1, <3>3, <2>2, <1>2, <1>7 DEF FeedInv, PageIsWhole
    <3>4. cursor' \in 0..newest
      BY <1>1, InsertBounds
    <3> QED
      BY <3>2, <3>3, <3>4, <1>7
  <2> QED
    BY <2>1, <2>2, <1>6
<1>8. ASSUME NEW i \in Recent, i <= floor'
      PROVE  i \in stored'
  <2>1. i \in 1..newest
    BY DEF Recent
  <2>2. CASE floor' = floor
    BY <2>2, <1>2, <1>8 DEF FeedInv, BehindIsStored, Walking
  <2>3. CASE floor' \in Settled
    <3>1. floor' \in 1..newest /\ stamp[floor'] <= passAt - Overlap /\ floor' <= cursor'
      BY <2>3, <1>1, InsertBounds DEF Settled
    <3>2. stamp[i] <= stamp[floor']
      BY <3>1, <2>1, <1>8 DEF FeedInv, RowsInOrder
    <3>3. IsOld(i)
      BY <3>1, <3>2, <2>1, <1>6 DEF IsOld
    <3>4. i <= cursor'
      BY <3>1, <2>1, <1>1, <1>6, <1>8, InsertBounds
    <3> QED
      BY <3>3, <3>4, <2>1, <1>7
  <2> QED
    BY <2>2, <2>3, <1>1, InsertBounds
<1>9. \A i \in due : i \in 1..newest /\ i \in Recent
  BY DEF FeedInv, OwesRecent, FeedTypeOK, Recent
<1>10. BehindIsStored'
  <2>1. \A i \in Recent' : i <= cursor' /\ IsOld(i)' => i \in stored'
    BY <1>2, <1>4, <1>7 DEF IsOld, Recent
  <2>2. \A i \in Recent' : i <= floor' => i \in stored'
    BY <1>4, <1>8
  <2>3. \A i \in due' : i <= cursor' => i \in stored'
    BY <1>2, <1>7, <1>9
  <2> QED
    BY <2>1, <2>2, <2>3 DEF BehindIsStored
<1>11. SuccessIsWhole'
  <2>1. ASSUME walk' = "succeed", NEW i \in due
        PROVE  i \in stored'
    <3>1. CASE i <= cursor
      BY <3>1, <2>1, <1>2 DEF FeedInv, BehindIsStored, Walking
    <3>2. CASE cursor < i
      BY <3>2, <2>1, <1>2, <1>3 DEF FeedInv, PageIsWhole
    <3> QED
      BY <3>1, <3>2, <1>6, <1>9
  <2> QED
    BY <2>1, <1>2 DEF SuccessIsWhole
<1> QED
  BY <1>1, <1>5, <1>10, <1>11 DEF FeedInv

\* However a pass ends, its bookmark is the old one or its floor.
LEMMA EndKeeps ==
  ASSUME FeedInv, NoFirstFloor \/ PageFails \/ RememberFloor \/ FeedCrash
  PROVE  FeedInv'
<1>1. FeedTypeOK'
  BY PassTypes DEF FeedInv
<1>2. /\ feedNow' = feedNow /\ newest' = newest /\ stamp' = stamp /\ shown' = shown
      /\ stored' = stored /\ due' = due /\ walk' = "idle"
  BY DEF NoFirstFloor, PageFails, RememberFloor, FeedCrash, Over, portalRows
<1>3. Recent' = Recent /\ Hidden' = Hidden
  BY <1>2 DEF Recent, Hidden
<1>4. RowsInOrder' /\ OwesRecent' /\ AskIsSafe' /\ BehindIsStored' /\ PageIsWhole' /\ SuccessIsWhole'
  BY <1>2, <1>3 DEF FeedInv, RowsInOrder, OwesRecent, AskIsSafe, BehindIsStored, Walking, PageIsWhole, SuccessIsWhole
<1>5. saved' = saved \/ (saved' = floor /\ walk \in Walking)
  BY DEF NoFirstFloor, PageFails, RememberFloor, FeedCrash, Walking
<1>6. FloorIsWhole'
  BY <1>2, <1>3, <1>5 DEF FeedInv, FloorIsWhole, BehindIsStored
<1>7. promised' = promised \/ (promised' = due /\ walk = "succeed")
  BY DEF NoFirstFloor, PageFails, RememberFloor, FeedCrash
<1>8. WholeUpToHere'
  BY <1>2, <1>7 DEF FeedInv, WholeUpToHere, SuccessIsWhole
<1> QED
  BY <1>1, <1>4, <1>6, <1>8 DEF FeedInv

LEMMA FeedInvStep == FeedInv /\ [FeedNext]_feedVars => FeedInv'
<1> SUFFICES ASSUME FeedInv, [FeedNext]_feedVars PROVE FeedInv'
  OBVIOUS
<1>1. CASE UNCHANGED feedVars
  BY <1>1 DEF feedVars, portalRows, progress, FeedInv, FeedTypeOK, Above, RowsInOrder, Hidden, OwesRecent, AskIsSafe,
     MonthHasBegun, Recent, BehindIsStored, IsOld, PageIsWhole, SuccessIsWhole, FloorIsWhole, WholeUpToHere
<1>2. CASE HandOut
  BY <1>2, HandOutKeeps
<1>3. CASE ShowRow \/ FeedTick
  BY <1>3, ShowTickKeeps
<1>4. CASE BeginPass
  BY <1>4, BeginPassKeeps
<1>5. CASE FirstFloor
  BY <1>5, FirstFloorKeeps
<1>6. CASE FetchRows
  BY <1>6, FetchKeeps
<1>7. CASE InsertRows
  BY <1>7, InsertKeeps
<1>8. CASE NoFirstFloor \/ PageFails \/ RememberFloor \/ FeedCrash
  BY <1>8, EndKeeps
<1> QED
  BY <1>1, <1>2, <1>3, <1>4, <1>5, <1>6, <1>7, <1>8 DEF FeedNext

\* A feed keeps its types: rows, pages and floors (refreshFormFills).
THEOREM FeedIsWellFormed == FeedSpec => []FeedTypeOK
<1>1. FeedInv => FeedTypeOK
  BY DEF FeedInv
<1> QED
  BY FeedInvInit, FeedInvStep, <1>1, PTL DEF FeedSpec

(***************************************************************************)
(* The bookmark never passes a row the table lacks, for any lag below the  *)
(* overlap, any page size and any cap (FORM_FILL_OVERLAP_MS).              *)
(***************************************************************************)
THEOREM FloorsAreWhole == FeedSpec => []FloorIsWhole
<1>1. FeedInv => FloorIsWhole
  BY DEF FeedInv
<1> QED
  BY FeedInvInit, FeedInvStep, <1>1, PTL DEF FeedSpec

(***************************************************************************)
(* A pass that succeeds has written all the portal showed when it began    *)
(* ("the clock says whole up to here", refreshFormFills).                  *)
(***************************************************************************)
THEOREM SuccessesAreWhole == FeedSpec => []WholeUpToHere
<1>1. FeedInv => WholeUpToHere
  BY DEF FeedInv
<1> QED
  BY FeedInvInit, FeedInvStep, <1>1, PTL DEF FeedSpec

-------------------------------------------------------------------------------
(* The night. *)

\* The row a new process dates the sweep by is as late as the sweep it stands
\* for, when it was written.
RowIsLate ==
  rowSaved =>
    /\ swept # NoTime => sweepRow # NoTime /\ swept <= sweepRow
    /\ sweepStood # NoTime => sweepRow # NoTime /\ sweepStood <= sweepRow

\* A process that knows of the last sweep waits for the next night.
SweepIsKnown ==
  ~unsure /\ sweepStood # NoTime =>
    (swept # NoTime /\ sweepStood <= swept) \/ hour - sweepStood >= NightlyEvery

\* A read was begun by a look that saw no sweep due within the hour.
ReadIsClear ==
  ~unsure /\ readLooked # NoTime /\ Night(readLooked + Retry) =>
    hour >= readLooked + Retry \/ (swept # NoTime /\ readLooked + Retry - swept < NightlyEvery)

\* A read that settled has its row until it has expired.
ServedIsKnown ==
  \A r \in served : hour > Expires \/ (readRow[r] # NoTime /\ (r \in settled \/ unread))

NightInv == NightTypeOK /\ RowIsLate /\ SweepIsKnown /\ ReadIsClear /\ ServedIsKnown

LEMMA Spans == NightlyEvery \in Nat /\ Retry < NightlyEvery /\ NightlyEvery <= 2 * SweepEvery
  BY NightAssumption DEF NightlyEvery

LEMMA NightInvInit == NightInit => NightInv
  BY NightAssumption DEF NightInit, NightInv, NightTypeOK, Time, NoTime, Nothing, RowIsLate, SweepIsKnown, ReadIsClear,
     ServedIsKnown

LEMMA NextHourKeeps ==
  ASSUME NightInv, NextHour
  PROVE  NightInv'
<1>1. /\ hour \in Nat /\ hour' = hour + 1 /\ looked' = NoTime
      /\ UNCHANGED <<running, swept, settled, nightLog, nightWitness>>
  BY DEF NextHour, NightInv, NightTypeOK
<1>2. NightTypeOK'
  BY <1>1 DEF NightInv, NightTypeOK, nightLog, nightWitness, Time, NoTime
<1>3. RowIsLate' /\ ServedIsKnown'
  BY <1>1, NightAssumption DEF NightInv, RowIsLate, ServedIsKnown, nightLog, nightWitness
<1>4. SweepIsKnown'
  BY <1>1, Spans DEF NightInv, NightTypeOK, SweepIsKnown, nightLog, nightWitness, Time, NoTime
<1>5. ReadIsClear'
  <2>1. NightlyEvery' = NightlyEvery
    BY DEF NightlyEvery
  <2>2. (readLooked # NoTime => readLooked + Retry \in Nat) /\ readLooked' = readLooked
    BY <1>1, NightAssumption DEF NightInv, NightTypeOK, Time, nightWitness
  <2> QED
    BY <1>1, <2>1, <2>2 DEF NightInv, ReadIsClear, nightWitness
<1> QED
  BY <1>2, <1>3, <1>4, <1>5 DEF NightInv

LEMMA StartSweepKeeps ==
  ASSUME NightInv, StartSweep \/ SweepFails
  PROVE  NightInv'
<1>1. /\ hour' = hour /\ swept' = swept /\ settled' = settled
      /\ UNCHANGED <<nightLog, nightWitness>>
  BY DEF StartSweep, SweepFails
<1>2. /\ running' \in [what : Reads \cup {"nothing", "sweep"}, since : Nat] /\ running'.since <= hour
      /\ looked' \in Time /\ looked' <= hour
  BY DEF StartSweep, SweepFails, Nothing, NightInv, NightTypeOK, Time, NoTime
<1>3. NightTypeOK'
  BY <1>1, <1>2 DEF NightInv, NightTypeOK, nightLog, nightWitness
<1>4. RowIsLate' /\ ServedIsKnown' /\ SweepIsKnown' /\ ReadIsClear'
  BY <1>1 DEF NightInv, RowIsLate, ServedIsKnown, SweepIsKnown, ReadIsClear, nightLog, nightWitness
<1> QED
  BY <1>3, <1>4 DEF NightInv

LEMMA SweepStandsKeeps ==
  ASSUME NightInv, SweepStands
  PROVE  NightInv'
<1>1. PICK saved_ \in BOOLEAN :
        /\ rowSaved' = saved_ /\ sweepRow' = IF saved_ THEN hour ELSE sweepRow
  BY DEF SweepStands, ReadsAsSweep
<1>2. /\ hour' = hour /\ running' = Nothing /\ swept' = hour /\ sweepStood' = hour /\ unsure' = FALSE
      /\ settled' = settled /\ looked' = looked /\ readRow' = readRow /\ readLooked' = readLooked /\ served' = served /\ unread' = unread
  BY DEF SweepStands
<1>3. /\ hour \in Nat /\ hour # NoTime /\ readLooked \in Time /\ readLooked <= hour
  BY DEF NightInv, NightTypeOK, NoTime
<1>4. NightTypeOK'
  BY <1>1, <1>2, <1>3 DEF NightInv, NightTypeOK, Nothing, Time
<1>5. RowIsLate' /\ SweepIsKnown' /\ ServedIsKnown'
  BY <1>1, <1>2, <1>3 DEF NightInv, RowIsLate, SweepIsKnown, ServedIsKnown
<1>6. ReadIsClear'
  <2>1. ASSUME readLooked # NoTime, hour < readLooked + Retry
        PROVE  readLooked + Retry - hour < NightlyEvery
    <3>1. readLooked \in Nat
      BY <2>1, <1>3 DEF Time
    <3> QED
      BY <3>1, <1>3, NightAssumption, Spans
  <2>2. readLooked # NoTime => readLooked + Retry \in Nat
    BY <1>3, NightAssumption DEF Time
  <2> QED
    BY <1>2, <1>3, <2>1, <2>2 DEF ReadIsClear
<1> QED
  BY <1>4, <1>5, <1>6 DEF NightInv

LEMMA StartReadKeeps ==
  ASSUME NightInv, NEW r \in Reads, StartRead(r)
  PROVE  NightInv'
<1>1. /\ hour' = hour /\ running' = [what |-> r, since |-> hour] /\ swept' = swept /\ settled' = settled
      /\ looked' = NoTime /\ UNCHANGED <<nightLog, sweepStood, rowSaved, unsure, served, unread>>
  BY DEF StartRead
<1>2. hour \in Nat /\ swept \in Time /\ NoTime \in Time /\ NoTime <= hour
  BY DEF NightInv, NightTypeOK, Time, NoTime
<1>a. PICK look \in Looks(r) : ~SweepNear(swept, look) /\ readLooked' = look
  BY DEF StartRead
<1>b. look \in Nat /\ look <= hour
  BY <1>2 DEF NightInv, NightTypeOK, Looks, Time
<1>3. NightTypeOK'
  BY <1>1, <1>2, <1>a, <1>b DEF NightInv, NightTypeOK, nightLog, Time
<1>4. RowIsLate' /\ ServedIsKnown' /\ SweepIsKnown'
  BY <1>1 DEF NightInv, RowIsLate, ServedIsKnown, SweepIsKnown, nightLog
<1>5. ReadIsClear'
  <2>1. ~SweepDue(swept, look + Retry)
    BY <1>a DEF SweepNear
  <2>2. ASSUME Night(look + Retry)
        PROVE  swept # NoTime /\ look + Retry - swept < NightlyEvery
    <3>1. ~PassDue(swept, look + Retry, NightlyEvery)
      BY <2>1, <2>2 DEF SweepDue
    <3>2. ~(swept = NoTime \/ (look + Retry) - swept >= NightlyEvery)
      BY <3>1 DEF PassDue
    <3> QED
      BY <3>2, <1>2, <1>b, Spans, NightAssumption DEF Time
  <2> QED
    BY <1>1, <1>a, <2>2 DEF ReadIsClear
<1> QED
  BY <1>3, <1>4, <1>5 DEF NightInv

LEMMA ReadEndsKeeps ==
  ASSUME NightInv, NEW r \in Reads, ReadSettles(r) \/ ReadFails(r)
  PROVE  NightInv'
<1>1. /\ hour' = hour /\ running' = Nothing /\ swept' = swept
      /\ UNCHANGED <<sweepRow, relinkRow, readLooked, sweepStood, rowSaved, unsure, unread>>
  BY DEF ReadSettles, ReadFails, nightLog, nightWitness
<1>2. \/ settled' = settled /\ readRow' = readRow /\ served' = served
      \/ /\ settled' = settled \cup {r} /\ readRow' = [readRow EXCEPT ![r] = running.since]
         /\ served' = served \cup {r}
  BY DEF ReadSettles, ReadFails, nightLog, nightWitness
<1>3. /\ running.since \in Nat /\ running.since # NoTime /\ running.since <= hour
      /\ readRow \in [Reads -> Time] /\ hour \in Nat
  BY DEF NightInv, NightTypeOK, NoTime
<1>a. looked' \in Time /\ looked' <= hour
  <2>1. looked' = running.since \/ looked' = NoTime
    BY DEF ReadSettles, ReadFails, GoesOn
  <2> QED
    BY <2>1, <1>3 DEF Time, NoTime
<1>4. NightTypeOK'
  BY <1>1, <1>2, <1>3, <1>a DEF NightInv, NightTypeOK, Nothing, Time
<1>5. RowIsLate' /\ SweepIsKnown' /\ ReadIsClear'
  BY <1>1 DEF NightInv, RowIsLate, SweepIsKnown, ReadIsClear
<1>6. ServedIsKnown'
  <2>1. CASE settled' = settled /\ readRow' = readRow /\ served' = served
    BY <1>1, <2>1 DEF NightInv, ServedIsKnown
  <2>2. CASE /\ settled' = settled \cup {r} /\ readRow' = [readRow EXCEPT ![r] = running.since]
             /\ served' = served \cup {r}
    <3>1. ASSUME NEW q \in served'
          PROVE  hour > Expires \/ (readRow'[q] # NoTime /\ (q \in settled' \/ unread))
      <4>1. CASE q = r
        BY <2>2, <4>1, <1>3
      <4>2. CASE q # r
        <5>1. q \in served /\ readRow'[q] = readRow[q]
          BY <2>2, <3>1, <4>2, <1>3
        <5> QED
          BY <5>1, <2>2 DEF NightInv, ServedIsKnown
      <4> QED
        BY <4>1, <4>2
    <3> QED
      BY <3>1, <1>1 DEF ServedIsKnown
  <2> QED
    BY <1>2, <2>1, <2>2
<1> QED
  BY <1>4, <1>5, <1>6 DEF NightInv

LEMMA ResyncKeeps ==
  ASSUME NightInv, ResyncByHand
  PROVE  NightInv'
<1>1. /\ hour' = hour /\ sweepRow' = hour
      /\ UNCHANGED <<nightMemory, relinkRow, readRow, readLooked, sweepStood, rowSaved, unsure, served, unread>>
  BY DEF ResyncByHand
<1>2. hour \in Nat /\ hour # NoTime /\ swept <= hour /\ sweepStood <= hour
  BY DEF NightInv, NightTypeOK, NoTime
<1>3. NightTypeOK'
  BY <1>1, <1>2 DEF NightInv, NightTypeOK, Time, nightMemory
<1>4. RowIsLate' /\ SweepIsKnown' /\ ReadIsClear' /\ ServedIsKnown'
  BY <1>1, <1>2 DEF NightInv, RowIsLate, SweepIsKnown, ReadIsClear, ServedIsKnown, nightMemory
<1> QED
  BY <1>3, <1>4 DEF NightInv

LEMMA DeployKeeps ==
  ASSUME NightInv, Deploy
  PROVE  NightInv'
<1> USE NightAssumption
<1>1. /\ hour' = hour /\ running' = Nothing /\ looked' = NoTime /\ readRow' = Pruned
      /\ sweepRow' = sweepRow /\ readLooked' = readLooked /\ sweepStood' = sweepStood /\ rowSaved' = rowSaved
      /\ served' = served
  BY DEF Deploy
<1>2. PICK found \in BOOLEAN :
        /\ swept' = StartupSweep(found)
        /\ unsure' = (unsure \/ ~found \/ ~relinkRow \/ ~rowSaved)
  BY DEF Deploy
<1>3. PICK readKnown \in BOOLEAN :
        /\ settled' = (IF readKnown THEN {r \in Reads : Pruned[r] # NoTime} ELSE {})
        /\ unread' = (unread \/ ~readKnown)
  BY <1>1 DEF Deploy
<1>4. /\ hour \in Nat /\ sweepRow \in Time /\ swept \in Time /\ sweepStood \in Time /\ readLooked \in Time
      /\ swept <= hour /\ sweepStood <= hour /\ readLooked <= hour /\ readRow \in [Reads -> Time]
  BY DEF NightInv, NightTypeOK
<1>5. swept' = NoTime \/ swept' = sweepRow
  BY <1>2 DEF StartupSweep
<1>6. NightTypeOK'
  <2>1. Pruned \in [Reads -> Time]
    BY <1>4 DEF Pruned, Time
  <2>2. settled' \subseteq Reads
    BY <1>3
  <2>3. NoTime \in Time /\ NoTime <= hour
    BY <1>4 DEF Time, NoTime
  <2> QED
    BY <1>1, <1>4, <1>5, <2>1, <2>2, <2>3 DEF NightInv, NightTypeOK, Nothing
<1>7. RowIsLate'
  BY <1>1, <1>4, <1>5 DEF NightInv, RowIsLate, Time
\* A process that knows dates the sweep by its row, or finds it long ago.
<1>8. ASSUME ~unsure', sweepRow # NoTime
      PROVE  swept' = sweepRow \/ hour - sweepRow >= 2 * SweepEvery
  <2>1. found /\ relinkRow
    BY <1>2, <1>8
  <2>2. CASE hour - sweepRow < 2 * SweepEvery
    BY <2>1, <2>2, <1>2, <1>8 DEF StartupSweep
  <2>3. CASE ~(hour - sweepRow < 2 * SweepEvery)
    BY <2>3, <1>4, <1>8 DEF Time
  <2> QED
    BY <2>2, <2>3
<1>9. ~unsure' => ~unsure /\ rowSaved
  BY <1>2
<1>10. SweepIsKnown'
  <2>1. ASSUME ~unsure', sweepStood # NoTime
        PROVE  (swept' # NoTime /\ sweepStood <= swept') \/ hour - sweepStood >= NightlyEvery
    <3>1. sweepRow # NoTime /\ sweepStood <= sweepRow
      BY <2>1, <1>9 DEF NightInv, RowIsLate
    <3>2. CASE swept' = sweepRow
      BY <3>1, <3>2
    <3>3. CASE hour - sweepRow >= 2 * SweepEvery
      BY <3>1, <3>3, <2>1, <1>4, Spans DEF Time
    <3> QED
      BY <3>1, <3>2, <3>3, <2>1, <1>8
  <2> QED
    BY <2>1, <1>1 DEF SweepIsKnown
<1>11. ReadIsClear'
  <2>1. ASSUME ~unsure', readLooked # NoTime, Night(readLooked + Retry), hour < readLooked + Retry
        PROVE  swept' # NoTime /\ readLooked + Retry - swept' < NightlyEvery
    <3>1. readLooked + Retry \in Nat
      BY <2>1, <1>4 DEF Time
    <3>2. swept # NoTime /\ readLooked + Retry - swept < NightlyEvery
      BY <2>1, <3>1, <1>4, <1>9 DEF NightInv, ReadIsClear
    <3>3. sweepRow # NoTime /\ swept <= sweepRow
      BY <3>2, <2>1, <1>9 DEF NightInv, RowIsLate
    <3>4. swept \in Nat /\ sweepRow \in Nat /\ readLooked \in Nat
      BY <2>1, <3>2, <3>3, <1>4 DEF Time
    <3>5. CASE swept' = sweepRow
      <4>1. readLooked + Retry - sweepRow < NightlyEvery
        BY <3>1, <3>2, <3>3, <3>4, Spans
      <4> QED
        BY <3>3, <3>5, <4>1
    <3>6. CASE hour - sweepRow >= 2 * SweepEvery
      BY <3>1, <3>2, <3>3, <3>4, <3>6, <2>1, <1>4, Spans
    <3> QED
      BY <3>3, <3>5, <3>6, <2>1, <1>8
  <2>2. readLooked # NoTime => readLooked + Retry \in Nat
    BY <1>4 DEF Time
  <2> QED
    BY <2>1, <2>2, <1>1, <1>4 DEF ReadIsClear
<1>12. ServedIsKnown'
  <2>1. ASSUME NEW r \in served, ~(hour > Expires)
        PROVE  Pruned[r] # NoTime /\ (r \in settled' \/ unread')
    <3>1. r \in Reads /\ readRow[r] # NoTime /\ readRow[r] \in Nat
      BY <2>1, <1>4 DEF NightInv, NightTypeOK, ServedIsKnown, Time
    <3>2. ~(readRow[r] < hour - Retention)
      BY <2>1, <3>1, <1>4
    <3>3. Pruned[r] = readRow[r]
      BY <3>1, <3>2 DEF Pruned
    <3> QED
      BY <3>1, <3>3, <1>3
  <2> QED
    BY <2>1, <1>1 DEF ServedIsKnown
<1> QED
  BY <1>6, <1>7, <1>10, <1>11, <1>12 DEF NightInv

LEMMA NightInvStep == NightInv /\ [NightNext]_nightVars => NightInv'
<1> SUFFICES ASSUME NightInv, [NightNext]_nightVars PROVE NightInv'
  OBVIOUS
<1>1. CASE UNCHANGED nightVars
  BY <1>1 DEF nightVars, nightMemory, nightLog, nightWitness, NightInv, NightTypeOK, RowIsLate, SweepIsKnown,
     ReadIsClear, ServedIsKnown
<1>2. CASE NextHour
  BY <1>2, NextHourKeeps
<1>3. CASE StartSweep \/ SweepFails
  BY <1>3, StartSweepKeeps
<1>4. CASE SweepStands
  BY <1>4, SweepStandsKeeps
<1>5. ASSUME NEW r \in Reads, StartRead(r) \/ ReadSettles(r) \/ ReadFails(r)
      PROVE  NightInv'
  BY <1>5, StartReadKeeps, ReadEndsKeeps
<1>6. CASE ResyncByHand
  BY <1>6, ResyncKeeps
<1>7. CASE Deploy
  BY <1>7, DeployKeeps
<1> QED
  BY <1>1, <1>2, <1>3, <1>4, <1>5, <1>6, <1>7 DEF NightNext

(***************************************************************************)
(* The night's clocks, rows and looks are times that have come             *)
(* (schedule.ts, the worker's memory, its rows in the log).                *)
(***************************************************************************)
THEOREM NightsAreWellFormed == NightSpec => []NightTypeOK
<1>1. NightInv => NightTypeOK
  BY DEF NightInv
<1> QED
  BY NightInvInit, NightInvStep, <1>1, PTL DEF NightSpec

\* Only StartSweep starts a sweep, and only StartRead a read.
LEMMA Starters ==
  ASSUME [NightNext]_nightVars, NEW what \in Reads \cup {"sweep"}, Starts(what)
  PROVE  IF what = "sweep" THEN StartSweep ELSE StartRead(what)
<1> USE NightAssumption
<1>1. running.what = "nothing" /\ running' # running
  BY DEF Starts, Nothing
<1>2. CASE StartSweep
  BY <1>2 DEF Starts, StartSweep
<1>3. ASSUME NEW r \in Reads, StartRead(r)
      PROVE  r = what /\ what # "sweep"
  BY <1>3 DEF Starts, StartRead
<1>4. ~(UNCHANGED nightVars \/ NextHour \/ ResyncByHand \/ Deploy \/ SweepStands \/ SweepFails)
  BY <1>1 DEF Starts, nightVars, nightMemory, NextHour, ResyncByHand, Deploy, SweepStands, SweepFails
<1>5. ASSUME NEW r \in Reads, ReadSettles(r) \/ ReadFails(r)
      PROVE  FALSE
  BY <1>1, <1>5 DEF ReadSettles, ReadFails
<1> QED
  BY <1>2, <1>3, <1>4, <1>5 DEF NightNext

(***************************************************************************)
(* A sweep comes once a night across any deploys, unless a process could   *)
(* not know of the last one (isSweepDue, sweepLogRow, the startup's read). *)
(***************************************************************************)
THEOREM NightlySweeps == NightSpec => SweepsAreNightly
<1>1. ASSUME NightInv, [NightNext]_nightVars, Starts("sweep"), sweepStood # NoTime
      PROVE  hour - sweepStood >= NightlyEvery \/ unsure
  <2>1. StartSweep
    BY <1>1, Starters
  <2>2. swept = NoTime \/ hour - swept >= NightlyEvery
    BY <2>1 DEF StartSweep, SweepDue, PassDue
  <2>3. CASE ~unsure /\ swept # NoTime /\ sweepStood <= swept
    BY <1>1, <2>2, <2>3, Spans DEF NightInv, NightTypeOK, Time
  <2> QED
    BY <1>1, <2>3 DEF NightInv, SweepIsKnown
<1>2. NightInv /\ [NightNext]_nightVars
      => [Starts("sweep") /\ sweepStood # NoTime => hour - sweepStood >= NightlyEvery \/ unsure]_nightVars
  BY <1>1
<1> QED
  BY NightInvInit, NightInvStep, <1>2, PTL DEF NightSpec, SweepsAreNightly

(***************************************************************************)
(* A read foresees every sweep of the hour after the look it goes by, but  *)
(* in the night's last hour (isSweepNear), for any calendar and any        *)
(* deploys.                                                                *)
(***************************************************************************)
THEOREM SweepsAreForeseen == NightSpec => ReadsForeseeSweeps
<1>1. ASSUME NightInv, [NightNext]_nightVars, Starts("sweep"), readLooked # NoTime, Night(readLooked + Retry)
      PROVE  hour - readLooked >= Retry \/ unsure
  <2>1. StartSweep
    BY <1>1, Starters
  <2>2. swept = NoTime \/ hour - swept >= NightlyEvery
    BY <2>1 DEF StartSweep, SweepDue, PassDue
  <2>3. /\ readLooked \in Nat /\ hour \in Nat /\ swept \in Time
    BY <1>1 DEF NightInv, NightTypeOK, Time
  <2>4. CASE hour >= readLooked + Retry
    BY <2>3, <2>4, NightAssumption
  <2>5. CASE ~unsure /\ ~(hour >= readLooked + Retry)
    <3>1. swept # NoTime /\ readLooked + Retry - swept < NightlyEvery
      BY <1>1, <2>5 DEF NightInv, ReadIsClear
    <3> QED
      BY <3>1, <2>2, <2>3, <2>5, Spans, NightAssumption DEF Time
  <2> QED
    BY <2>4, <2>5
<1>2. NightInv /\ [NightNext]_nightVars
      => [Starts("sweep") /\ readLooked # NoTime /\ Night(readLooked + Retry)
          => hour - readLooked >= Retry \/ unsure]_nightVars
  BY <1>1
<1> QED
  BY NightInvInit, NightInvStep, <1>2, PTL DEF NightSpec, ReadsForeseeSweeps

(***************************************************************************)
(* No read begins within an hour after a sweep stood, however old the look *)
(* it goes by (isSweepNear, sweepNear in the tick), unless a process could *)
(* not know of the sweep.                                                  *)
(***************************************************************************)
THEOREM ReadsComeAfterSweeps == NightSpec => ReadsFollowSweeps
<1>1. ASSUME NightInv, [NightNext]_nightVars, NEW r \in Reads, Starts(r), sweepStood # NoTime, ~unsure
      PROVE  hour - sweepStood >= Retry
  <2>1. StartRead(r)
    BY <1>1, Starters, NightAssumption
  <2>2. PICK look \in Looks(r) : ~SweepNear(swept, look)
    BY <2>1 DEF StartRead
  <2>3. /\ hour \in Nat /\ swept \in Time /\ sweepStood \in Nat
        /\ look \in Nat /\ look <= hour
    BY <1>1, <2>2 DEF NightInv, NightTypeOK, Looks, Time
  <2>4. swept = NoTime \/ look - swept >= Retry
    BY <2>2, <2>3, NightAssumption DEF SweepNear, Time
  <2>5. CASE swept # NoTime /\ sweepStood <= swept
    <3>1. swept \in Nat
      BY <2>3, <2>5 DEF Time
    <3> QED
      BY <2>3, <2>4, <2>5, <3>1, NightAssumption
  <2>6. CASE hour - sweepStood >= NightlyEvery
    BY <2>3, <2>6, Spans, NightAssumption
  <2> QED
    BY <2>5, <2>6, <1>1 DEF NightInv, SweepIsKnown
<1>2. NightInv /\ [NightNext]_nightVars
      => [\A r \in Reads : Starts(r) /\ sweepStood # NoTime
            => hour - sweepStood >= Retry \/ unsure]_nightVars
  BY <1>1
<1> QED
  BY NightInvInit, NightInvStep, <1>2, PTL DEF NightSpec, ReadsFollowSweeps

(***************************************************************************)
(* A one-off read that settled is not run again, though its row is pruned  *)
(* (BACKFILL_EXPIRES_MS < SYNC_LOG_RETENTION_MS).                          *)
(***************************************************************************)
THEOREM ReadsAreServedOnce == NightSpec => ServedOnce
<1>1. ASSUME NightInv, [NightNext]_nightVars, NEW r \in Reads, Starts(r), ~unread
      PROVE  r \notin served
  <2>1. StartRead(r)
    BY <1>1, Starters, NightAssumption
  <2>2. r \notin settled /\ hour <= Expires
    BY <2>1 DEF StartRead, ReadDue, StillAsked
  <2>3. ~(hour > Expires)
    BY <2>2, <1>1, NightAssumption DEF NightInv, NightTypeOK
  <2> QED
    BY <2>2, <2>3, <1>1 DEF NightInv, ServedIsKnown
<1>2. NightInv /\ [NightNext]_nightVars => [\A r \in Reads : Starts(r) => r \notin served \/ unread]_nightVars
  BY <1>1
<1> QED
  BY NightInvInit, NightInvStep, <1>2, PTL DEF NightSpec, ServedOnce

-------------------------------------------------------------------------------
(* The open chats. *)

States == [floor : Int, dated : BOOLEAN, anchors : SUBSET [id : Int, at : Int], heldAt : {None} \cup Nat]

ChatTypes ==
  /\ instant \in Nat /\ head \in Int /\ passNow \in Nat /\ passNow <= instant
  /\ head <= ChatAt(instant) /\ blindStart \in Int /\ doubtedAt \in {None} \cup Nat
  /\ bookmark \in States /\ state \in States /\ sighted \in BOOLEAN /\ controlled \in BOOLEAN
  /\ datedReads \in Nat /\ talking \subseteq Int

\* The dated read is noted before it is sent, and the note is never lost.
DatedIsNoted ==
  /\ datedReads <= 1 /\ (datedReads > 0 => bookmark.dated)
  /\ stage # "idle" => bookmark.dated = state.dated
  /\ stage = "dated" => bookmark.dated /\ datedReads = 0

\* A hold in a bookmark is one that was made, and no later than the last.
HoldsAreMade ==
  /\ bookmark.heldAt # None => doubtedAt # None /\ bookmark.heldAt <= doubtedAt
  /\ stage \notin {"idle", "write"} => state.heldAt = bookmark.heldAt
  /\ stage = "write" => (state.heldAt # None => doubtedAt # None /\ state.heldAt <= doubtedAt)
  /\ IF stage = "idle" THEN doubtedAt <= instant ELSE doubtedAt <= passNow

\* To who sees no lines the answer is empty, and is believed over no chat.
BlindSeesNone ==
  ~sighted /\ stage \in {"control", "replace"} => live = {} /\ (stage = "replace" => InWindow = {})

ChatInv == ChatTypes /\ DatedIsNoted /\ HoldsAreMade /\ BlindSeesNone

LEMMA ChatInvInit == ChatsInit => ChatInv
<1> SUFFICES ASSUME ChatsInit PROVE ChatInv
  OBVIOUS
<1> USE ChatAssumption DEF ChatsInit
<1>1. NoState \in States
  BY DEF NoState, States, None
<1>2. /\ instant \in Nat /\ instant = ChatWindow + 1 /\ head = 2 * instant
      /\ passNow = 0
  OBVIOUS
<1>7. talking \subseteq Int
  <2>1. {ChatAt(t) : t \in 1..ChatWindow} \subseteq Int
    BY DEF ChatAt
  <2> QED
    BY <2>1
<1>4. head \in Int /\ head <= ChatAt(instant) /\ passNow <= instant
  BY <1>2 DEF ChatAt
<1>5. blindStart \in Int /\ doubtedAt \in {None} \cup Nat /\ datedReads \in Nat
  BY DEF None
<1>6. ChatTypes
  BY <1>1, <1>2, <1>4, <1>5, <1>7 DEF ChatTypes
<1>3. DatedIsNoted /\ HoldsAreMade /\ BlindSeesNone
  BY DEF DatedIsNoted, HoldsAreMade, BlindSeesNone, NoState, None
<1> QED
  BY <1>3, <1>6 DEF ChatInv

LEMMA OutsideKeeps ==
  ASSUME ChatInv, OpenChat \/ CloseChat \/ Permission \/ Instant
  PROVE  ChatInv'
<1> USE ChatAssumption
<1>1. /\ stage' = stage /\ bookmark' = bookmark /\ state' = state /\ live' = live /\ table' = table /\ passNow' = passNow
      /\ datedReads' = datedReads /\ blindStart' = blindStart /\ doubtedAt' = doubtedAt /\ controlled' = controlled
  BY DEF OpenChat, CloseChat, Permission, Instant, memo
<1>0. /\ instant \in Nat /\ head \in Int /\ head <= 2 * instant + 1 /\ sighted \in BOOLEAN /\ talking \subseteq Int
  BY DEF ChatInv, ChatTypes, ChatAt
<1>2. /\ instant' \in Nat /\ instant <= instant' /\ head' \in Int /\ head' <= ChatAt(instant') /\ sighted' \in BOOLEAN
      /\ talking' \subseteq Int
  <2>1. CASE OpenChat
    <3>1. instant' = instant /\ head' = 2 * instant + 1 /\ sighted' = sighted /\ talking' = talking \cup {2 * instant + 1}
      BY <2>1 DEF OpenChat, ChatAt
    <3> QED
      BY <1>0, <3>1 DEF ChatAt
  <2>2. CASE CloseChat
    BY <1>0, <2>2 DEF CloseChat, ChatAt
  <2>3. CASE Permission
    BY <1>0, <2>3 DEF Permission, ChatAt
  <2>4. CASE Instant
    <3>1. instant' = instant + 1 /\ head' = 2 * (instant + 1) /\ sighted' = sighted /\ talking' = talking
      BY <2>4 DEF Instant
    <3> QED
      BY <1>0, <3>1 DEF ChatAt
  <2> QED
    BY <2>1, <2>2, <2>3, <2>4
<1>3. sighted' = sighted \/ stage = "idle"
  BY DEF OpenChat, CloseChat, Permission, Instant
<1>4. ChatTypes'
  BY <1>1, <1>2 DEF ChatInv, ChatTypes
<1>5. DatedIsNoted' /\ BlindSeesNone'
  BY <1>1, <1>3 DEF ChatInv, DatedIsNoted, BlindSeesNone, InWindow
<1>6. HoldsAreMade'
  BY <1>1, <1>2 DEF ChatInv, ChatTypes, HoldsAreMade, None
<1> QED
  BY <1>4, <1>5, <1>6 DEF ChatInv

\* The bookmark moves, and keeps its note and its hold.
LEMMA AdvancedFacts ==
  ASSUME NEW s \in States, NEW anchors \in SUBSET [id : Int, at : Int], NEW t \in Int,
         NEW n \in Advanced(s, anchors, t)
  PROVE  /\ n \in States /\ n.dated = s.dated /\ n.heldAt = s.heldAt
         /\ n.floor = s.floor \/ \E a \in anchors : t - a.at >= ChatWindow /\ n.floor = a.id
         /\ n.anchors \subseteq anchors
<1>1. CASE Aged(anchors, t) = {}
  <2>1. n = [s EXCEPT !.anchors = anchors]
    BY <1>1 DEF Advanced
  <2> QED
    BY <2>1 DEF States
<1>2. CASE Aged(anchors, t) # {}
  <2>1. PICK a \in Reached(anchors, t) :
          n = [s EXCEPT !.anchors = {b \in anchors : b.at >= a.at},
                        !.floor = IF a.id > @ THEN a.id ELSE @]
    BY <1>2 DEF Advanced
  <2>2. a \in anchors /\ a.id \in Int /\ t - a.at >= ChatWindow
    BY <2>1 DEF Reached, Aged
  <2>3. n.anchors = {b \in anchors : b.at >= a.at} /\ n.floor = (IF a.id > s.floor THEN a.id ELSE s.floor)
    BY <2>1 DEF States
  <2>4. n.dated = s.dated /\ n.heldAt = s.heldAt /\ n \in States
    BY <2>1, <2>2, <2>3 DEF States
  <2> QED
    BY <2>2, <2>3, <2>4
<1> QED
  BY <1>1, <1>2

LEMMA FloorKeeps ==
  ASSUME ChatInv, BeginChats \/ SayDated \/ DatedRead \/ HeadFloor \/ Anchor
  PROVE  ChatInv'
<1> USE ChatAssumption
<1>1. /\ instant' = instant /\ head' = head /\ talking' = talking /\ sighted' = sighted /\ table' = table
      /\ doubtedAt' = doubtedAt /\ controlled' = controlled /\ live' = live
  BY DEF BeginChats, SayDated, DatedRead, HeadFloor, Anchor, portal, memo
<1>2. ChatTypes /\ state \in States /\ bookmark \in States
  BY DEF ChatInv, ChatTypes
<1>3. stage' \in {"floor", "anchor", "dated", "head", "fetch"}
  BY DEF BeginChats, SayDated, DatedRead, HeadFloor, Anchor
<1>4. BlindSeesNone'
  BY <1>3 DEF BlindSeesNone
<1>5. CASE BeginChats
  <2>1. /\ stage = "idle" /\ passNow' = instant /\ state' = bookmark /\ bookmark' = bookmark
        /\ datedReads' = datedReads /\ blindStart' = blindStart /\ stage' \in {"floor", "anchor"}
    BY <1>5 DEF BeginChats, memo
  <2>2. ChatTypes' /\ DatedIsNoted' /\ HoldsAreMade'
    BY <1>1, <1>2, <2>1 DEF ChatInv, ChatTypes, DatedIsNoted, HoldsAreMade
  <2> QED
    BY <1>4, <2>2 DEF ChatInv
<1>6. CASE SayDated
  <2>1. /\ stage = "floor" /\ ~state.dated /\ stage' = "dated" /\ state' = [state EXCEPT !.dated = TRUE]
        /\ bookmark' = state' /\ datedReads' = datedReads /\ blindStart' = blindStart /\ passNow' = passNow
    BY <1>6 DEF SayDated, Noted, memo
  <2>2. state' \in States /\ state'.dated /\ state'.heldAt = state.heldAt
    BY <1>2, <2>1 DEF States
  <2>3. datedReads = 0
    BY <1>2, <2>1 DEF ChatInv, ChatTypes, DatedIsNoted
  <2>4. ChatTypes' /\ DatedIsNoted' /\ HoldsAreMade'
    BY <1>1, <1>2, <2>1, <2>2, <2>3 DEF ChatInv, ChatTypes, DatedIsNoted, HoldsAreMade
  <2> QED
    BY <1>4, <2>4 DEF ChatInv
<1>7. CASE DatedRead
  <2>1. /\ stage = "dated" /\ datedReads' = datedReads + 1 /\ passNow' = passNow /\ blindStart' = blindStart
        /\ stage' \in {"anchor", "head"}
        /\ \/ state' = [state EXCEPT !.floor = 2 * (passNow - ChatWindow) - 1] /\ bookmark' = state'
           \/ state' = state /\ bookmark' = bookmark
    BY <1>7 DEF DatedRead
  <2>2. 2 * (passNow - ChatWindow) - 1 \in Int
    BY <1>2 DEF ChatTypes
  <2>3. /\ state' \in States /\ state'.dated = state.dated /\ state'.heldAt = state.heldAt
        /\ bookmark' \in {state', bookmark}
    BY <1>2, <2>1, <2>2 DEF States
  <2>4. bookmark.dated /\ datedReads = 0 /\ state.dated = bookmark.dated
    BY <2>1 DEF ChatInv, DatedIsNoted
  <2>5. ChatTypes'
    BY <1>1, <1>2, <2>1, <2>3, <2>4 DEF ChatTypes
  <2>6. bookmark'.dated /\ state'.dated /\ datedReads' = 1
    <3>1. bookmark'.dated
      BY <2>3, <2>4
    <3>2. state'.dated
      BY <2>3, <2>4
    <3>3. datedReads' = 1
      BY <2>1, <2>4
    <3> QED
      BY <3>1, <3>2, <3>3
  <2>7. DatedIsNoted'
    BY <2>1, <2>6 DEF DatedIsNoted
  <2>8. state.heldAt = bookmark.heldAt /\ doubtedAt <= passNow
        /\ (bookmark.heldAt # None => doubtedAt # None /\ bookmark.heldAt <= doubtedAt)
    BY <2>1 DEF ChatInv, HoldsAreMade
  <2>9. bookmark'.heldAt = bookmark.heldAt /\ state'.heldAt = bookmark.heldAt
    BY <2>3, <2>8
  <2>10. HoldsAreMade'
    BY <1>1, <2>1, <2>8, <2>9 DEF HoldsAreMade
  <2> QED
    BY <1>4, <2>5, <2>7, <2>10 DEF ChatInv
<1>8. CASE HeadFloor
  <2>0. Anchored(state) \in SUBSET [id : Int, at : Int]
    BY <1>2 DEF Anchored, ChatTypes, States
  <2>1. PICK s \in Advanced(state, Anchored(state), passNow) :
          state' = [s EXCEPT !.floor = head] /\ bookmark' = state'
    BY <1>8 DEF HeadFloor
  <2>2. s \in States /\ s.dated = state.dated /\ s.heldAt = state.heldAt
    BY <1>2, <2>0, <2>1, AdvancedFacts DEF ChatTypes
  <2>3. state' \in States /\ state'.dated = state.dated /\ state'.heldAt = state.heldAt
    BY <1>2, <2>1, <2>2 DEF States, ChatTypes
  <2>4. /\ stage \in {"head", "floor"} /\ stage' = "anchor" /\ blindStart' = head /\ passNow' = passNow
        /\ datedReads' = datedReads
    BY <1>8 DEF HeadFloor
  <2>5. ChatTypes' /\ DatedIsNoted' /\ HoldsAreMade'
    BY <1>1, <1>2, <2>1, <2>3, <2>4 DEF ChatInv, ChatTypes, DatedIsNoted, HoldsAreMade
  <2> QED
    BY <1>4, <2>5 DEF ChatInv
<1>9. CASE Anchor
  <2>0. Anchored(state) \in SUBSET [id : Int, at : Int] /\ state.anchors \in SUBSET [id : Int, at : Int]
    BY <1>2 DEF Anchored, ChatTypes, States
  <2>1. state' \in Advanced(state, Anchored(state), passNow) \/ state' \in Advanced(state, state.anchors, passNow)
    BY <1>9 DEF Anchor
  <2>2. state' \in States /\ state'.dated = state.dated /\ state'.heldAt = state.heldAt
    BY <1>2, <2>0, <2>1, AdvancedFacts DEF ChatTypes
  <2>3. /\ stage = "anchor" /\ stage' = "fetch" /\ bookmark' = bookmark /\ passNow' = passNow
        /\ datedReads' = datedReads /\ blindStart' = blindStart
    BY <1>9 DEF Anchor, memo
  <2>4. ChatTypes' /\ DatedIsNoted' /\ HoldsAreMade'
    BY <1>1, <1>2, <2>2, <2>3 DEF ChatInv, ChatTypes, DatedIsNoted, HoldsAreMade
  <2> QED
    BY <1>4, <2>4 DEF ChatInv
<1> QED
  BY <1>5, <1>6, <1>7, <1>8, <1>9

LEMMA AnswerKeeps ==
  ASSUME ChatInv, FetchChats \/ Control \/ Replace \/ WriteChats \/ ChatsFail
  PROVE  ChatInv'
<1> USE ChatAssumption
<1>1. /\ instant' = instant /\ head' = head /\ talking' = talking /\ sighted' = sighted
      /\ datedReads' = datedReads /\ blindStart' = blindStart
  BY DEF FetchChats, Control, Replace, WriteChats, ChatsFail, portal, memo
<1>2. ChatTypes /\ state \in States /\ bookmark \in States /\ doubtedAt \in {None} \cup Nat
  BY DEF ChatInv, ChatTypes
<1>3. CASE FetchChats
  <2>1. /\ stage = "fetch" /\ stage' = (IF live' = {} /\ InWindow # {} THEN "control" ELSE "replace")
        /\ bookmark' = bookmark /\ state' = state /\ passNow' = passNow /\ table' = table
        /\ doubtedAt' = doubtedAt /\ controlled' = controlled
        /\ (~sighted => live' = {})
    BY <1>3 DEF FetchChats, memo
  <2>2. ChatTypes' /\ DatedIsNoted' /\ HoldsAreMade'
    BY <1>1, <1>2, <2>1 DEF ChatInv, ChatTypes, DatedIsNoted, HoldsAreMade
  <2>3. BlindSeesNone'
    BY <1>1, <2>1 DEF BlindSeesNone, InWindow
  <2> QED
    BY <2>2, <2>3 DEF ChatInv
<1>4. CASE Control
  <2>1. /\ stage = "control" /\ stage' = "replace" /\ sighted /\ controlled' = TRUE
        /\ bookmark' = bookmark /\ state' = state /\ passNow' = passNow /\ doubtedAt' = doubtedAt
    BY <1>4 DEF Control, LinesAreSeen
  <2>2. ChatTypes' /\ DatedIsNoted' /\ HoldsAreMade' /\ BlindSeesNone'
    BY <1>1, <1>2, <2>1 DEF ChatInv, ChatTypes, DatedIsNoted, HoldsAreMade, BlindSeesNone
  <2> QED
    BY <2>2 DEF ChatInv
<1>5. CASE Replace
  <2>1. /\ stage = "replace" /\ stage' = "write" /\ bookmark' = bookmark /\ passNow' = passNow
        /\ controlled' = controlled
        /\ state' = [state EXCEPT !.heldAt = IF Holds THEN passNow ELSE None]
        /\ doubtedAt' = (IF Holds THEN passNow ELSE doubtedAt)
    BY <1>5 DEF Replace
  <2>2. passNow \in Nat /\ passNow # None
    BY <1>2 DEF ChatTypes, None
  <2>3. /\ state' \in States /\ state'.dated = state.dated
        /\ state'.heldAt = IF Holds THEN passNow ELSE None
    BY <1>2, <2>1, <2>2 DEF States
  <2>4. ChatTypes' /\ DatedIsNoted' /\ BlindSeesNone'
    BY <1>1, <1>2, <2>1, <2>2, <2>3 DEF ChatInv, ChatTypes, DatedIsNoted, BlindSeesNone
  <2>5. HoldsAreMade'
    BY <1>2, <2>1, <2>2, <2>3 DEF ChatInv, HoldsAreMade, States
  <2> QED
    BY <2>4, <2>5 DEF ChatInv
<1>6. CASE WriteChats \/ ChatsFail
  <2>1. /\ stage' = "idle" /\ passNow' = 0 /\ state' = NoState /\ controlled' = FALSE
        /\ stage # "idle" /\ doubtedAt' = doubtedAt
        /\ bookmark' = bookmark \/ (stage = "write" /\ bookmark' = state)
    BY <1>6 DEF WriteChats, ChatsFail, EndChats
  <2>2. NoState \in States
    BY DEF NoState, States, None
  <2>6. bookmark' \in {bookmark, state} /\ bookmark' \in States
    BY <1>2, <2>1
  <2>7. bookmark'.dated = bookmark.dated
    BY <2>1, <2>6 DEF ChatInv, DatedIsNoted
  <2>12. instant \in Nat /\ 0 <= instant /\ head \in Int /\ head <= ChatAt(instant)
    BY <1>2 DEF ChatTypes
  <2>13. passNow' \in Nat /\ passNow' <= instant' /\ instant' \in Nat /\ head' \in Int /\ head' <= ChatAt(instant')
    BY <1>1, <2>1, <2>12
  <2>14. blindStart' \in Int /\ doubtedAt' \in {None} \cup Nat /\ datedReads' \in Nat /\ talking' \subseteq Int
         /\ sighted' \in BOOLEAN
    BY <1>1, <1>2, <2>1 DEF ChatTypes
  <2>9. ChatTypes'
    BY <2>1, <2>2, <2>6, <2>13, <2>14 DEF ChatTypes
  <2>10. DatedIsNoted'
    BY <1>1, <2>1, <2>7 DEF ChatInv, DatedIsNoted
  <2>11. BlindSeesNone'
    BY <2>1 DEF BlindSeesNone
  <2>4. doubtedAt <= instant
    BY <1>2, <2>1 DEF ChatInv, ChatTypes, HoldsAreMade, None
  <2>5. HoldsAreMade'
    BY <1>1, <1>2, <2>1, <2>4 DEF ChatInv, HoldsAreMade
  <2> QED
    BY <2>5, <2>9, <2>10, <2>11 DEF ChatInv
<1> QED
  BY <1>3, <1>4, <1>5, <1>6

LEMMA ChatInvStep == ChatInv /\ [ChatsNext]_chatVars => ChatInv'
<1> SUFFICES ASSUME ChatInv, [ChatsNext]_chatVars PROVE ChatInv'
  OBVIOUS
<1>1. CASE UNCHANGED chatVars
  BY <1>1 DEF chatVars, portal, memo, ChatInv, ChatTypes, DatedIsNoted, HoldsAreMade, BlindSeesNone, InWindow
<1> QED
  BY <1>1, OutsideKeeps, FloorKeeps, AnswerKeeps DEF ChatsNext

(***************************************************************************)
(* The dated read is sent once in a database's life (refreshOpenLineChats, *)
(* "dated").                                                               *)
(***************************************************************************)
THEOREM TheDatedReadIsOne == ChatsSpec => []DatedReadOnce
<1>1. ChatInv => DatedReadOnce
  BY DEF ChatInv, DatedIsNoted, DatedReadOnce
<1> QED
  BY ChatInvInit, ChatInvStep, <1>1, PTL DEF ChatsSpec

\* An instant the floor may have moved up to, seen at t.
IsBehind(s, t) == s.floor <= blindStart \/ s.floor <= ChatAt(t - ChatWindow + PassTime)

\* An anchor is the newest activity of a pass, read PassTime after its "now"
\* at most, and the floor stands on one a window old.
FloorsFollow ==
  /\ None <= blindStart /\ blindStart <= head /\ 2 * instant <= head
  /\ stage # "idle" => instant <= passNow + PassTime /\ IsBehind(state, passNow) /\ IsBehind(bookmark, passNow)
  /\ IsBehind(bookmark, instant)
  /\ \A a \in bookmark.anchors \cup state.anchors : a.id <= ChatAt(a.at + PassTime)

WatchInv == ChatInv /\ FloorsFollow

LEMMA FloorsFollowInit == ChatsInit => FloorsFollow
<1> SUFFICES ASSUME ChatsInit PROVE FloorsFollow
  OBVIOUS
<1>1. /\ instant \in Nat /\ head = 2 * instant /\ blindStart = None /\ stage = "idle"
      /\ bookmark.floor = None /\ bookmark.anchors = {} /\ state.anchors = {}
  BY ChatAssumption DEF ChatsInit, NoState
<1> QED
  BY <1>1 DEF FloorsFollow, IsBehind, None

\* The later seen, the less a floor is ahead.
LEMMA BehindStays ==
  ASSUME NEW s \in States, NEW t \in Int, NEW u \in Int, t <= u, IsBehind(s, t), blindStart \in Int
  PROVE  IsBehind(s, u)
BY ChatAssumption DEF IsBehind, ChatAt, States

\* A floor that moves up to an anchor a window old.
LEMMA AdvancedIsBehind ==
  ASSUME NEW s \in States, NEW anchors \in SUBSET [id : Int, at : Int], NEW t \in Int,
         NEW n \in Advanced(s, anchors, t), IsBehind(s, t), blindStart \in Int,
         \A a \in anchors : a.id <= ChatAt(a.at + PassTime)
  PROVE  n \in States /\ IsBehind(n, t) /\ \A a \in n.anchors : a.id <= ChatAt(a.at + PassTime)
<1>1. /\ n \in States /\ n.anchors \subseteq anchors
      /\ n.floor = s.floor \/ \E a \in anchors : t - a.at >= ChatWindow /\ n.floor = a.id
  BY AdvancedFacts
<1>2. CASE n.floor = s.floor
  BY <1>1, <1>2 DEF IsBehind
<1>3. ASSUME NEW a \in anchors, t - a.at >= ChatWindow, n.floor = a.id
      PROVE  IsBehind(n, t)
  <2>1. a.at \in Int /\ a.id \in Int /\ a.id <= 2 * (a.at + PassTime) + 1
    BY <1>3 DEF ChatAt
  <2>2. a.id <= 2 * (t - ChatWindow + PassTime) + 1
    BY <1>3, <2>1, ChatAssumption
  <2> QED
    BY <1>3, <2>2 DEF IsBehind, ChatAt
<1> QED
  BY <1>1, <1>2, <1>3

LEMMA OutsideFollows ==
  ASSUME WatchInv, OpenChat \/ CloseChat \/ Permission \/ Instant
  PROVE  FloorsFollow'
<1> USE ChatAssumption
<1>1. /\ stage' = stage /\ bookmark' = bookmark /\ state' = state /\ passNow' = passNow /\ blindStart' = blindStart
  BY DEF OpenChat, CloseChat, Permission, Instant, memo
<1>2. /\ instant \in Nat /\ head \in Int /\ head <= 2 * instant + 1 /\ blindStart \in Int /\ passNow \in Nat
      /\ bookmark \in States /\ FloorsFollow
  BY DEF WatchInv, ChatInv, ChatTypes, ChatAt
<1>3. /\ instant' \in Nat /\ instant <= instant' /\ head' \in Int /\ head <= head' /\ 2 * instant' <= head'
      /\ stage # "idle" => instant' <= passNow + PassTime
  <2>1. CASE OpenChat
    BY <1>2, <2>1 DEF OpenChat, ChatAt, FloorsFollow
  <2>2. CASE CloseChat \/ Permission
    BY <1>2, <2>2 DEF CloseChat, Permission, FloorsFollow
  <2>3. CASE Instant
    BY <1>2, <2>3 DEF Instant, FloorsFollow
  <2> QED
    BY <2>1, <2>2, <2>3
<1>4. IsBehind(bookmark, instant')
  BY <1>2, <1>3, BehindStays DEF FloorsFollow
<1>5. bookmark.floor <= blindStart \/ bookmark.floor <= ChatAt(instant' - ChatWindow + PassTime)
  BY <1>4 DEF IsBehind
<1>6. IsBehind(bookmark, instant)'
  BY <1>1, <1>5 DEF IsBehind
<1>7. stage' # "idle" => IsBehind(state, passNow)' /\ IsBehind(bookmark, passNow)'
  BY <1>1, <1>2 DEF FloorsFollow, IsBehind
<1>8. \A x \in bookmark'.anchors \cup state'.anchors : x.id <= ChatAt(x.at + PassTime)
  BY <1>1, <1>2 DEF FloorsFollow
<1>9. (None <= blindStart /\ blindStart <= head /\ 2 * instant <= head)'
  <2>1. None <= blindStart /\ blindStart <= head
    BY <1>2 DEF FloorsFollow
  <2>2. blindStart' = blindStart /\ None <= blindStart'
    BY <1>1, <2>1 DEF None
  <2>3. blindStart <= head'
    BY <1>2, <1>3, <2>1
  <2> QED
    BY <1>3, <2>2, <2>3 DEF None
<1>10. (stage # "idle" => instant <= passNow + PassTime /\ IsBehind(state, passNow) /\ IsBehind(bookmark, passNow))'
  BY <1>1, <1>3, <1>7
<1>11. (\A a \in bookmark.anchors \cup state.anchors : a.id <= ChatAt(a.at + PassTime))'
  BY <1>1, <1>8 DEF ChatAt
<1> QED
  BY <1>6, <1>9, <1>10, <1>11 DEF FloorsFollow

LEMMA FloorFollows ==
  ASSUME WatchInv, BeginChats \/ SayDated \/ DatedRead \/ HeadFloor \/ Anchor
  PROVE  FloorsFollow'
<1> USE ChatAssumption
<1>1. instant' = instant /\ head' = head
  BY DEF BeginChats, SayDated, DatedRead, HeadFloor, Anchor, portal
<1>2. /\ instant \in Nat /\ head \in Int /\ head <= 2 * instant + 1 /\ blindStart \in Int /\ passNow \in Nat
      /\ bookmark \in States /\ state \in States /\ FloorsFollow /\ passNow <= instant
  BY DEF WatchInv, ChatInv, ChatTypes, ChatAt
<1>3. CASE BeginChats
  BY <1>1, <1>2, <1>3 DEF BeginChats, FloorsFollow, IsBehind, memo
<1>4. CASE SayDated
  <2>1. /\ stage = "floor" /\ stage' = "dated" /\ passNow' = passNow /\ blindStart' = blindStart /\ bookmark' = state'
        /\ state' = [state EXCEPT !.dated = TRUE]
    BY <1>4 DEF SayDated, Noted, memo
  <2>2. state'.floor = state.floor /\ state'.anchors = state.anchors
    BY <1>2, <2>1 DEF States
  <2>3. IsBehind(state, instant)
    BY <1>2, <2>1, BehindStays DEF FloorsFollow
  <2> QED
    BY <1>1, <1>2, <2>1, <2>2, <2>3 DEF FloorsFollow, IsBehind
<1>5. CASE DatedRead
  <2>1. /\ stage = "dated" /\ stage' \in {"anchor", "head"} /\ passNow' = passNow /\ blindStart' = blindStart
        /\ \/ state' = [state EXCEPT !.floor = 2 * (passNow - ChatWindow) - 1] /\ bookmark' = state'
           \/ state' = state /\ bookmark' = bookmark
    BY <1>5 DEF DatedRead
  <2>2. CASE state' = state /\ bookmark' = bookmark
    BY <1>1, <1>2, <2>1, <2>2 DEF FloorsFollow, IsBehind
  <2>3. CASE state' = [state EXCEPT !.floor = 2 * (passNow - ChatWindow) - 1] /\ bookmark' = state'
    <3>1. state'.floor = 2 * (passNow - ChatWindow) - 1 /\ state'.anchors = state.anchors
      BY <1>2, <2>3 DEF States
    <3>2. state'.floor <= ChatAt(passNow - ChatWindow + PassTime) /\ state'.floor <= ChatAt(instant - ChatWindow + PassTime)
      BY <1>2, <3>1 DEF ChatAt
    <3> QED
      BY <1>1, <1>2, <2>1, <2>3, <3>1, <3>2 DEF FloorsFollow, IsBehind
  <2> QED
    BY <2>1, <2>2, <2>3
<1>6. stage # "idle" => /\ Anchored(state) \in SUBSET [id : Int, at : Int]
                        /\ state.anchors \in SUBSET [id : Int, at : Int]
                        /\ \A a \in Anchored(state) : a.id <= ChatAt(a.at + PassTime)
  <2>1. state.anchors \in SUBSET [id : Int, at : Int] /\ [id |-> head, at |-> passNow] \in [id : Int, at : Int]
    BY <1>2 DEF States
  <2>2. stage # "idle" => head <= ChatAt(passNow + PassTime)
    BY <1>2 DEF FloorsFollow, ChatAt
  <2> QED
    BY <1>2, <2>1, <2>2 DEF Anchored, FloorsFollow
<1>7. CASE HeadFloor
  <2>1. PICK s \in Advanced(state, Anchored(state), passNow) : state' = [s EXCEPT !.floor = head] /\ bookmark' = state'
    BY <1>7 DEF HeadFloor
  <2>2. /\ stage # "idle" /\ stage' = "anchor" /\ passNow' = passNow /\ blindStart' = head
    BY <1>7 DEF HeadFloor
  <2>3. IsBehind(state, passNow)
    BY <1>2, <2>2 DEF FloorsFollow
  <2>6. /\ passNow \in Int /\ Anchored(state) \in SUBSET [id : Int, at : Int]
        /\ \A a \in Anchored(state) : a.id <= ChatAt(a.at + PassTime)
    BY <1>2, <1>6, <2>2
  <2>4. s \in States /\ \A a \in s.anchors : a.id <= ChatAt(a.at + PassTime)
    <3> HIDE DEF Advanced, Anchored, ChatAt, IsBehind
    <3>1. state \in States /\ blindStart \in Int /\ s \in Advanced(state, Anchored(state), passNow)
      BY <1>2, <2>1
    <3> QED
      BY <2>3, <2>6, <3>1, AdvancedIsBehind
  <2>5. state'.floor = head /\ state'.anchors = s.anchors
    BY <2>1, <2>4 DEF States
  <2> QED
    BY <1>1, <1>2, <2>1, <2>2, <2>4, <2>5 DEF FloorsFollow, IsBehind, None
<1>8. CASE Anchor
  <2>1. \/ state' \in Advanced(state, Anchored(state), passNow)
        \/ state' \in Advanced(state, state.anchors, passNow)
    BY <1>8 DEF Anchor
  <2>2. /\ stage # "idle" /\ stage' = "fetch" /\ passNow' = passNow /\ blindStart' = blindStart /\ bookmark' = bookmark
    BY <1>8 DEF Anchor, memo
  <2>3. IsBehind(state, passNow) /\ \A a \in state.anchors : a.id <= ChatAt(a.at + PassTime)
    BY <1>2, <2>2 DEF FloorsFollow
  <2>5. /\ passNow \in Int /\ state \in States /\ blindStart \in Int
        /\ Anchored(state) \in SUBSET [id : Int, at : Int] /\ state.anchors \in SUBSET [id : Int, at : Int]
        /\ \A a \in Anchored(state) : a.id <= ChatAt(a.at + PassTime)
    BY <1>2, <1>6, <2>2
  <2>4. IsBehind(state', passNow) /\ \A a \in state'.anchors : a.id <= ChatAt(a.at + PassTime)
    <3>1. CASE state' \in Advanced(state, Anchored(state), passNow)
      BY <2>3, <2>5, <3>1, AdvancedIsBehind
    <3>2. CASE state' \in Advanced(state, state.anchors, passNow)
      BY <2>3, <2>5, <3>2, AdvancedIsBehind
    <3> QED
      BY <2>1, <3>1, <3>2
  <2> QED
    BY <1>1, <1>2, <2>2, <2>4 DEF FloorsFollow, IsBehind
<1> QED
  BY <1>3, <1>4, <1>5, <1>7, <1>8

LEMMA AnswerFollows ==
  ASSUME WatchInv, FetchChats \/ Control \/ Replace \/ WriteChats \/ ChatsFail
  PROVE  FloorsFollow'
<1> USE ChatAssumption
<1>1. instant' = instant /\ head' = head /\ blindStart' = blindStart
  BY DEF FetchChats, Control, Replace, WriteChats, ChatsFail, portal, memo
<1>2. /\ instant \in Nat /\ head \in Int /\ blindStart \in Int /\ passNow \in Nat /\ passNow <= instant
      /\ bookmark \in States /\ state \in States /\ FloorsFollow
  BY DEF WatchInv, ChatInv, ChatTypes
<1>3. CASE FetchChats \/ Control \/ Replace
  <2>1. /\ stage # "idle" /\ stage' # "idle" /\ passNow' = passNow /\ bookmark' = bookmark
        /\ state'.floor = state.floor /\ state'.anchors = state.anchors
    BY <1>2, <1>3 DEF FetchChats, Control, Replace, States
  <2> QED
    BY <1>1, <1>2, <2>1 DEF FloorsFollow, IsBehind
<1>4. CASE WriteChats \/ ChatsFail
  <2>1. /\ stage # "idle" /\ stage' = "idle" /\ bookmark' \in {bookmark, state} /\ state'.anchors = {}
    BY <1>4 DEF WriteChats, ChatsFail, EndChats, NoState
  <2>2. IsBehind(state, instant) /\ IsBehind(bookmark, instant)
    BY <1>2, <2>1, BehindStays DEF FloorsFollow
  <2> QED
    BY <1>1, <1>2, <2>1, <2>2 DEF FloorsFollow, IsBehind
<1> QED
  BY <1>3, <1>4

LEMMA WatchInvStep == WatchInv /\ [ChatsNext]_chatVars => WatchInv'
<1> SUFFICES ASSUME WatchInv, [ChatsNext]_chatVars PROVE WatchInv'
  OBVIOUS
<1>1. ChatInv'
  BY ChatInvStep DEF WatchInv
<1>2. CASE UNCHANGED chatVars
  BY <1>1, <1>2 DEF WatchInv, FloorsFollow, IsBehind, chatVars, portal, memo
<1> QED
  BY <1>1, <1>2, OutsideFollows, FloorFollows, AnswerFollows DEF WatchInv, ChatsNext

(***************************************************************************)
(* The floor never passes a chat opened within the window, less a pass's   *)
(* time, while it is open, and the dated read is sent once (anchors of     *)
(* advanceChatWindow), for any window, spacing of the anchors and pass.    *)
(***************************************************************************)
THEOREM TheDayIsWatched == ChatsSpec => []WatchIsKept
<1>1. WatchInv => DayIsWatched
  <2> SUFFICES ASSUME WatchInv, stage = "fetch", NEW c \in talking,
                      OpenedAt(c) > passNow - ChatWindow + PassTime, c > blindStart
               PROVE  c > state.floor
    BY DEF DayIsWatched, OpenAbove
  <2>1. c \in Int /\ passNow \in Nat /\ blindStart \in Int /\ state.floor \in Int
    BY DEF WatchInv, ChatInv, ChatTypes, States
  <2>2. state.floor <= blindStart \/ state.floor <= 2 * (passNow - ChatWindow + PassTime) + 1
    BY DEF WatchInv, FloorsFollow, IsBehind, ChatAt
  <2>3. c \div 2 > passNow - ChatWindow + PassTime
    BY DEF OpenedAt
  <2>4. c >= 2 * (passNow - ChatWindow + PassTime) + 2
    BY <2>1, <2>3, ChatAssumption
  <2> QED
    BY <2>1, <2>2, <2>4, ChatAssumption
<1>2. ChatsInit => WatchInv
  BY ChatInvInit, FloorsFollowInit DEF WatchInv
<1>3. ChatsSpec => []DayIsWatched
  BY <1>1, <1>2, WatchInvStep, PTL DEF ChatsSpec
<1> QED
  BY <1>3, TheDatedReadIsOne, PTL DEF WatchIsKept

LEMMA OnlyReplaceDeletes ==
  ASSUME [ChatsNext]_chatVars, stage = "replace", table' # table
  PROVE  Replace
  BY DEF ChatsNext, chatVars, portal, OpenChat, CloseChat, Permission, Instant, BeginChats, SayDated, DatedRead,
     HeadFloor, Anchor, FetchChats, Control, WriteChats, ChatsFail

(***************************************************************************)
(* A deletion of more chats than close by themselves follows a control     *)
(* read that saw the lines, or another doubted answer within CHAT_HOLD_MS  *)
(* (chatsGone), for any limits.                                            *)
(***************************************************************************)
THEOREM DoubtComesFirst == ChatsSpec => OneAnswerIsDoubted
<1>1. ASSUME ChatInv, [ChatsNext]_chatVars, Deletes, Cardinality(Gone) > GoneLimit(Cardinality(InWindow))
      PROVE  controlled \/ (doubtedAt # None /\ passNow - doubtedAt <= HoldFor)
  <2>1. Replace
    BY <1>1, OnlyReplaceDeletes DEF Deletes
  <2>2. ~Holds
    BY <1>1, <2>1 DEF Replace, Deletes
  <2>3. Confirming
    BY <1>1, <2>2 DEF Holds
  <2>4. CASE state.heldAt # None /\ passNow - state.heldAt <= HoldFor
    <3>1. doubtedAt # None /\ state.heldAt <= doubtedAt
      BY <1>1, <2>1, <2>4 DEF ChatInv, HoldsAreMade, Replace
    <3>2. doubtedAt \in Nat /\ state.heldAt \in Nat /\ passNow \in Nat
      BY <1>1, <2>4, <3>1 DEF ChatInv, ChatTypes, States
    <3> QED
      BY <2>4, <3>1, <3>2, ChatAssumption
  <2> QED
    BY <2>3, <2>4 DEF Confirming
<1>2. ChatInv /\ [ChatsNext]_chatVars
      => [Deletes /\ Cardinality(Gone) > GoneLimit(Cardinality(InWindow))
          => controlled \/ (doubtedAt # None /\ passNow - doubtedAt <= HoldFor)]_chatVars
  BY <1>1
<1> QED
  BY ChatInvInit, ChatInvStep, <1>2, PTL DEF ChatsSpec, OneAnswerIsDoubted

(***************************************************************************)
(* No pass that cannot see the open lines closes a chat (anyOpenLineChat). *)
(***************************************************************************)
THEOREM BlindnessClosesNone == ChatsSpec => BlindnessKeepsChats
<1>1. ASSUME ChatInv, ~sighted, stage = "replace"
      PROVE  InWindow \subseteq table'
  BY <1>1 DEF ChatInv, BlindSeesNone
<1>2. ChatInv => [~sighted /\ stage = "replace" => InWindow \subseteq table']_chatVars
  BY <1>1
<1> QED
  BY ChatInvInit, ChatInvStep, <1>2, PTL DEF ChatsSpec, BlindnessKeepsChats

(***************************************************************************)
(* A feed has no hole, for any number of rows, page and cap                *)
(* (formFillFeed.ts).                                                      *)
(***************************************************************************)
THEOREM FeedsAreWhole == FeedSpec => []FeedIsWhole
BY FloorsAreWhole, SuccessesAreWhole, PTL DEF FeedIsWhole

(***************************************************************************)
(* The one-off reads keep their place: by the look they go by clear of the *)
(* sweeps, either side, and never again once served, for any calendar and  *)
(* any length of a read (isSweepNear, isBackfillDue).                      *)
(***************************************************************************)
THEOREM ReadsKeepTheirPlaceAlways == NightSpec => ReadsKeepTheirPlace
BY SweepsAreForeseen, ReadsComeAfterSweeps, ReadsAreServedOnce, PTL DEF ReadsKeepTheirPlace

(***************************************************************************)
(* The open chats are closed on evidence only, for any limits (chatsGone,  *)
(* anyOpenLineChat).                                                       *)
(***************************************************************************)
THEOREM ChatsCloseOnEvidenceAlways == ChatsSpec => ChatsCloseOnEvidence
BY DoubtComesFirst, BlindnessClosesNone, PTL DEF ChatsCloseOnEvidence

-------------------------------------------------------------------------------
(* The slow passes. *)

\* Owed is what the gap already lets run, and a full pass is never younger in
\* memory than in the log by more than its tick takes.
SparedInv ==
  /\ TypeOK
  /\ resolveOwed => lastReference >= Gap /\ lastResolve >= Gap
  /\ referenceOwed => lastReference >= ReferenceEvery
  /\ calm + quiet >= CalmTicks
  /\ pc = "slow" /\ plan = "reference" => lastReference <= took
  /\ blind \/ lastReference <= logged + Slack

\* The age of the deal when the last tick began, or less.
TickAge == rowAge - took

\* A tick and the one before it, again for each restart.
Late(n) == Gap - 1 + 2 * (Slack * n)

\* Away from outages a deal that waits was last looked for less than a gap ago,
\* or the pass it needs is owed, or runs.
WaitsBriefly ==
  row["deal"] = "waiting" /\ ~known =>
    /\ pc = "slow" => TickAge <= Late(restarts) + 2 * Slack
    /\ pc = "hot" => TickAge <= Late(restarts) + Slack
    /\ pc \in {"end", "wait"} => TickAge <= Late(restarts) + (IF resolveOwed THEN Slack ELSE 0)

\* No pass has read the employee's data since the deal arrived.
UnreadSince ==
  ~known => /\ logged >= rowAge
            /\ pc # "slow" => lastReference >= rowAge /\ lastResolve >= rowAge

SkipInv ==
  /\ TypeOK
  /\ ~outage =>
       /\ ~shut /\ calm = 0 /\ NothingFallsOut
       /\ row["arrival"] = "waiting" => row["deal"] = "waiting"
       /\ UnreadSince /\ WaitsBriefly

\* The windows reach past the gap, a tick and the one before it, and as much
\* again for each restart.
WindowsReach == \A r \in Rows : Late(MaxRestarts + 1) <= Lookback[r]

LEMMA NeverFacts ==
  /\ Never \in Nat /\ Never > ReferenceEvery /\ Never > Gap
  /\ \A r \in Rows : Lookback[r] \in Nat /\ Never > Lookback[r]
<1>1. \A a, b \in Nat : Larger(a, b) \in Nat /\ Larger(a, b) >= a /\ Larger(a, b) >= b
  BY DEF Larger
<1>2. /\ ReferenceEvery \in Nat /\ Gap \in Nat
      /\ Lookback["deal"] \in Nat /\ Lookback["arrival"] \in Nat
  BY PassAssumption DEF Rows
<1> DEFINE x == Larger(ReferenceEvery, Gap)
           y == Larger(Lookback["deal"], Lookback["arrival"])
<1>3. x \in Nat /\ x >= ReferenceEvery /\ x >= Gap
  BY <1>1, <1>2
<1>4. y \in Nat /\ y >= Lookback["deal"] /\ y >= Lookback["arrival"]
  BY <1>1, <1>2
<1>5. Never = Larger(x, y) + 1
  BY DEF Never
<1> HIDE DEF x, y
<1>6. Larger(x, y) \in Nat /\ Larger(x, y) >= x /\ Larger(x, y) >= y
  BY <1>1, <1>3, <1>4
<1> QED
  BY <1>2, <1>3, <1>4, <1>5, <1>6 DEF Rows

LEMMA OlderFacts ==
  ASSUME NEW a \in Ages
  PROVE  /\ Older(a) \in Ages /\ Older(a) >= a /\ Older(a) <= a + 1
         /\ \A b \in Ages : a <= b => Older(a) <= Older(b)
BY NeverFacts DEF Ages, Older

LEMMA AgesAreNumbers ==
  ASSUME TypeOK
  PROVE  /\ lastReference \in Ages /\ lastResolve \in Ages /\ logged \in Ages /\ rowAge \in Ages
         /\ lastReference \in Nat /\ lastResolve \in Nat /\ logged \in Nat /\ rowAge \in Nat
         /\ took \in Nat /\ took <= Slack /\ calm \in Nat /\ quiet \in Nat
         /\ Slack \in Nat \ {0} /\ CalmTicks \in Nat /\ Gap \in Nat \ {0}
         /\ ReferenceEvery \in Nat \ {0} /\ restarts \in Nat /\ MaxRestarts \in Nat
BY NeverFacts, PassAssumption DEF TypeOK, Ages

LEMMA PassTypeInit == Init => TypeOK
<1> SUFFICES ASSUME Init PROVE TypeOK
  OBVIOUS
<1>1. Never \in Ages /\ 0 \in Ages
  BY NeverFacts DEF Ages
<1>2. /\ 0 \in 0..CalmTicks /\ CalmTicks \in 0..CalmTicks /\ 0 \in 0..Slack /\ 0 \in 0..MaxRestarts
  BY PassAssumption
<1> QED
  BY <1>1, <1>2 DEF Init, TypeOK

LEMMA PassTypeStep ==
  ASSUME TypeOK, [Next]_vars
  PROVE  TypeOK'
<1> USE DEF TypeOK, memory, rows
<1>1. /\ Never \in Ages /\ 0 \in Ages /\ Slack \in Nat /\ CalmTicks \in Nat /\ MaxRestarts \in Nat
      /\ 0 \in 0..CalmTicks /\ CalmTicks \in 0..CalmTicks
  BY NeverFacts, PassAssumption DEF Ages
<1>2. CASE UNCHANGED vars
  BY <1>2 DEF vars
<1>3. CASE Arrive
  BY <1>1, <1>3 DEF Arrive
<1>4. CASE Pass
  BY <1>1, <1>4, OlderFacts DEF Pass
<1>5. CASE Recover
  BY <1>1, <1>5 DEF Recover
<1>6. CASE Plan
  <2>1. lastReference' \in Ages /\ lastResolve' \in Ages /\ logged' = logged /\ rowAge' = rowAge
    BY <1>1, <1>6 DEF Plan, Planned
  <2>2. plan' \in {"reference", "resolve", "hot"} /\ pc' \in {"hot", "slow"} /\ took' = 0
    BY <1>6 DEF Plan, Planned
  <2>3. referenceOwed' \in BOOLEAN /\ resolveOwed' \in BOOLEAN /\ blind' \in BOOLEAN
    BY <1>6 DEF Plan, Planned
  <2> QED
    BY <1>1, <1>6, <2>1, <2>2, <2>3 DEF Plan, Planned
<1>7. CASE SlowPass
  BY <1>1, <1>7 DEF SlowPass
<1>8. CASE \E pending \in BOOLEAN : Hot(pending)
  <2>1. row["deal"] \in {"none", "waiting", "written", "lost"}
        /\ row["arrival"] \in {"none", "waiting", "written", "lost"}
    BY DEF Rows
  <2>2. DealNow \in {"none", "waiting", "written", "lost"}
    BY <2>1 DEF DealNow, Persisted
  <2>3. ArrivalNow \in {"none", "waiting", "written", "lost"}
    BY <2>1 DEF ArrivalNow, Persisted
  <2>4. row' \in [Rows -> {"none", "waiting", "written", "lost"}]
    BY <1>8, <2>2, <2>3 DEF Hot, Rows
  <2>5. resolveOwed' \in BOOLEAN
    BY <1>8 DEF Hot
  <2> QED
    BY <1>8, <2>4, <2>5 DEF Hot
<1>9. CASE HotFails
  BY <1>9 DEF HotFails
<1>10. CASE EndTick
  BY <1>1, <1>10 DEF EndTick
<1>11. CASE Restart
  <2>1. PICK reference \in {logged, Never} : Restarts(reference) /\ blind' \in BOOLEAN
    BY <1>11 DEF Restart
  <2>2. restarts' \in 0..MaxRestarts
    BY <1>1, <2>1 DEF Restarts
  <2>3. lastReference' \in Ages /\ lastResolve' \in Ages
    BY <1>1, <2>1 DEF Restarts
  <2>4. shut' \in BOOLEAN
    BY <2>1 DEF Restarts
  <2> QED
    BY <1>1, <2>1, <2>2, <2>3, <2>4 DEF Restarts
<1> QED
  BY <1>2, <1>3, <1>4, <1>5, <1>6, <1>7, <1>8, <1>9, <1>10, <1>11 DEF Next

LEMMA SparedInit == Init => SparedInv
BY PassTypeInit, NeverFacts, PassAssumption DEF Init, SparedInv

LEMMA SparedStep ==
  ASSUME SparedInv, [Next]_vars
  PROVE  SparedInv'
<1> USE DEF SparedInv, memory, rows
<1>1. TypeOK'
  BY PassTypeStep
<1>2. /\ Never \in Nat /\ Never > ReferenceEvery /\ Never > Gap
      /\ lastReference \in Ages /\ lastResolve \in Ages /\ logged \in Ages
      /\ lastReference \in Nat /\ lastResolve \in Nat /\ logged \in Nat
      /\ took \in Nat /\ took <= Slack /\ calm \in Nat /\ quiet \in Nat
      /\ Slack \in Nat /\ CalmTicks \in Nat /\ Gap \in Nat /\ ReferenceEvery \in Nat
  BY NeverFacts, AgesAreNumbers
<1>3. CASE UNCHANGED vars
  BY <1>1, <1>3 DEF vars
<1>4. CASE Arrive
  BY <1>1, <1>4 DEF Arrive
<1>5. CASE Pass
  <2>1. /\ lastReference' >= lastReference /\ lastResolve' >= lastResolve
        /\ lastReference' <= lastReference + 1
        /\ lastReference' \in Nat /\ lastResolve' \in Nat /\ logged' \in Nat
    BY <1>2, <1>5, OlderFacts, NeverFacts DEF Pass, Ages
  <2>2. lastReference <= logged + Slack => lastReference' <= logged' + Slack
    BY <1>2, <1>5 DEF Pass, Older, Ages
  <2>3. pc = "slow" => took' = took + 1
    BY <1>5 DEF Pass
  <2>4. UNCHANGED <<resolveOwed, referenceOwed, calm, quiet, pc, plan, blind>>
    BY <1>5 DEF Pass
  <2>5. (resolveOwed => lastReference >= Gap /\ lastResolve >= Gap)'
    BY <1>2, <2>1, <2>4
  <2>6. (referenceOwed => lastReference >= ReferenceEvery)'
    BY <1>2, <2>1, <2>4
  <2>7. (pc = "slow" /\ plan = "reference" => lastReference <= took)'
    BY <1>2, <2>1, <2>3, <2>4
  <2> QED
    BY <1>1, <2>2, <2>4, <2>5, <2>6, <2>7
<1>6. CASE Recover
  BY <1>1, <1>2, <1>6 DEF Recover
<1>7. CASE Plan
  <2>1. /\ UNCHANGED <<calm, quiet, logged>> /\ took' = 0
        /\ referenceOwed' = (ReferenceDue /\ calm > 0) /\ resolveOwed' = (resolveOwed /\ calm > 0)
        /\ lastReference' = IF ReferenceNow THEN 0 ELSE lastReference
        /\ lastResolve' = IF ~ReferenceNow /\ ResolveNow THEN 0 ELSE lastResolve
        /\ blind' = (blind /\ ~ReferenceNow)
        /\ plan' = "reference" <=> ReferenceNow
    BY <1>7 DEF Plan, Planned
  <2>2. ReferenceDue => lastReference >= ReferenceEvery
    BY DEF ReferenceDue, Due
  <2>3. ReferenceNow => calm = 0
    BY DEF ReferenceNow
  <2>4. ResolveNow => calm = 0
    BY DEF ResolveNow
  <2>5. (resolveOwed => lastReference >= Gap /\ lastResolve >= Gap)'
    <3>1. CASE resolveOwed'
      <4>1. resolveOwed /\ calm > 0
        BY <2>1, <3>1
      <4>2. ~(calm = 0)
        BY <1>2, <4>1
      <4>3. lastReference' = lastReference /\ lastResolve' = lastResolve
        BY <2>1, <2>3, <2>4, <4>2
      <4> QED
        BY <4>1, <4>3
    <3> QED
      BY <3>1
  <2>6. (referenceOwed => lastReference >= ReferenceEvery)'
    <3>1. CASE referenceOwed'
      <4>1. ReferenceDue /\ calm > 0
        BY <2>1, <3>1
      <4>2. ~(calm = 0)
        BY <1>2, <4>1
      <4>3. lastReference' = lastReference
        BY <2>1, <2>3, <4>2
      <4> QED
        BY <2>2, <4>1, <4>3
    <3> QED
      BY <3>1
  <2>7. (pc = "slow" /\ plan = "reference" => lastReference <= took)'
    BY <2>1
  <2>8. (blind \/ lastReference <= logged + Slack)'
    <3>1. CASE ReferenceNow
      BY <1>2, <2>1, <3>1
    <3>2. CASE ~ReferenceNow
      BY <2>1, <3>2
    <3> QED
      BY <3>1, <3>2
  <2>9. (calm + quiet >= CalmTicks)'
    BY <2>1
  <2> QED
    BY <1>1, <2>5, <2>6, <2>7, <2>8, <2>9
<1>8. CASE SlowPass
  BY <1>1, <1>2, <1>8 DEF SlowPass
<1>9. CASE \E pending \in BOOLEAN : Hot(pending)
  <2>1. ResolveDue => lastReference >= Gap /\ lastResolve >= Gap
    BY <1>2 DEF ResolveDue, Due
  <2>2. /\ resolveOwed' => resolveOwed \/ ResolveDue
        /\ UNCHANGED <<lastReference, lastResolve, referenceOwed, calm, quiet, logged, took, blind, plan>>
        /\ pc' = "end"
    BY <1>9 DEF Hot
  <2> QED
    BY <1>1, <1>2, <2>1, <2>2
<1>10. CASE HotFails
  BY <1>1, <1>10 DEF HotFails
<1>11. CASE EndTick
  BY <1>1, <1>2, <1>11 DEF EndTick
<1>12. CASE Restart
  <2>1. /\ resolveOwed' = FALSE /\ referenceOwed' = FALSE /\ calm' = 0 /\ quiet' = CalmTicks
        /\ pc' = "wait" /\ logged' = logged
        /\ lastReference' = logged \/ blind' = TRUE
    BY <1>12 DEF Restart, Restarts
  <2>2. (blind \/ lastReference <= logged + Slack)' /\ (calm + quiet >= CalmTicks)'
    BY <1>2, <2>1
  <2> QED
    BY <1>1, <2>1, <2>2
<1> QED
  BY <1>3, <1>4, <1>5, <1>6, <1>7, <1>8, <1>9, <1>10, <1>11, <1>12 DEF Next

(***************************************************************************)
(* Forced passes are a gap apart, none runs in the calm after an outage,   *)
(* and a full pass that succeeded does not run again before its time,      *)
(* however often the process restarts, for any periods (planTick).         *)
(***************************************************************************)
THEOREM SlowPassesAreSparedAlways == Spec => SlowPassesAreSpared
<1>1. ASSUME SparedInv, [Next]_vars, SlowPassBegins
      PROVE  /\ plan' = "resolve" => lastReference >= Gap /\ lastResolve >= Gap
             /\ quiet = CalmTicks
             /\ plan' = "reference" => blind \/ logged + Slack >= ReferenceEvery
  <2>1. Plan
    BY <1>1 DEF Next, vars, memory, rows, SlowPassBegins, Arrive, Pass, Recover, SlowPass, Hot, HotFails,
                EndTick, Restart, Restarts
  <2>2. /\ calm \in Nat /\ quiet \in 0..CalmTicks /\ CalmTicks \in Nat
        /\ lastReference \in Nat /\ logged \in Nat /\ Slack \in Nat /\ ReferenceEvery \in Nat
    BY <1>1, AgesAreNumbers DEF SparedInv, TypeOK
  <2>3. plan' = "resolve" => resolveOwed
    BY <2>1 DEF Plan, Planned, ResolveNow
  <2>4. calm = 0
    BY <1>1, <2>1 DEF SlowPassBegins, Plan, Planned, ReferenceNow, ResolveNow
  <2>5. plan' = "reference" => lastReference >= ReferenceEvery
    BY <1>1, <2>1 DEF Plan, Planned, ReferenceNow, ReferenceDue, Due, SparedInv
  <2> QED
    BY <1>1, <2>2, <2>3, <2>4, <2>5 DEF SparedInv
<1>2. SparedInv /\ [Next]_vars
      => /\ [SlowPassBegins /\ plan' = "resolve" => lastReference >= Gap /\ lastResolve >= Gap]_vars
         /\ [SlowPassBegins => quiet = CalmTicks]_vars
         /\ [SlowPassBegins /\ plan' = "reference" => blind \/ logged + Slack >= ReferenceEvery]_vars
  BY <1>1
<1> QED
  BY <1>2, SparedInit, SparedStep, PTL
     DEF Spec, SlowPassesAreSpared, ResolvesAreSpaced, CalmIsKept, DeploysAreFree

LEMMA LateFacts ==
  /\ \A n \in Nat : Late(n) \in Int /\ Late(n) >= Gap - 1 /\ Late(n + 1) = Late(n) + 2 * Slack
  /\ \A m, n \in Nat : m <= n => Late(m) <= Late(n)
<1>1. Gap \in Nat /\ Slack \in Nat
  BY PassAssumption
<1>2. ASSUME NEW m \in Nat, NEW n \in Nat, m <= n PROVE Slack * m <= Slack * n
  <2>1. n - m \in Nat /\ Slack * (n - m) \in Nat
    BY <1>1, <1>2
  <2>2. Slack * n = Slack * m + Slack * (n - m)
    BY <1>1
  <2>3. Slack * m \in Nat /\ Slack * n \in Nat
    BY <1>1
  <2> QED
    BY <2>1, <2>2, <2>3
<1>3. ASSUME NEW n \in Nat PROVE Slack * n \in Nat /\ Slack * (n + 1) = Slack * n + Slack
  BY <1>1
<1>4. ASSUME NEW n \in Nat
      PROVE  Late(n) \in Int /\ Late(n) >= Gap - 1 /\ Late(n + 1) = Late(n) + 2 * Slack
  BY <1>1, <1>3 DEF Late
<1>5. ASSUME NEW m \in Nat, NEW n \in Nat, m <= n PROVE Late(m) <= Late(n)
  BY <1>1, <1>2, <1>3, <1>5 DEF Late
<1> QED
  BY <1>4, <1>5

LEMMA SkipInit == Init => SkipInv
BY PassTypeInit DEF Init, SkipInv, NothingFallsOut, UnreadSince, WaitsBriefly, Rows

\* Time passes for the deal and for the tick alike.
LEMMA PassSkips ==
  ASSUME SkipInv, Pass
  PROVE  SkipInv'
<1> USE DEF SkipInv
<1>1. TypeOK'
  BY PassTypeStep DEF Next
<1>2. UNCHANGED <<resolveOwed, calm, pc, shut, known, row, outage, restarts>>
  BY DEF Pass
<1> SUFFICES ASSUME ~outage PROVE UnreadSince' /\ WaitsBriefly'
  BY <1>1, <1>2 DEF NothingFallsOut
<1>3. took' = took + 1 /\ took \in Nat /\ rowAge \in Nat
  BY AgesAreNumbers DEF Pass
<1>4. rowAge' \in Nat /\ rowAge' <= rowAge + 1
  BY OlderFacts, AgesAreNumbers, NeverFacts DEF Pass, Ages
<1>5. UnreadSince'
  <2>1. /\ logged' = Older(logged) /\ rowAge' = Older(rowAge)
        /\ lastReference' = Older(lastReference) /\ lastResolve' = Older(lastResolve)
    BY DEF Pass
  <2>2. \A a \in {logged, lastReference, lastResolve} : a >= rowAge => Older(a) >= Older(rowAge)
    BY AgesAreNumbers, OlderFacts, NeverFacts DEF Ages
  <2> QED
    BY <1>2, <2>1, <2>2 DEF UnreadSince
<1>6. TickAge' <= TickAge /\ TickAge \in Int /\ TickAge' \in Int
  <2>1. TickAge = rowAge - took /\ TickAge' = rowAge' - took'
    BY DEF TickAge
  <2>2. took' \in Nat
    BY <1>3
  <2>3. \A a, b, t \in Nat : b <= a + 1 => b - (t + 1) <= a - t
    OBVIOUS
  <2>4. rowAge' - took' <= rowAge - took
    BY <1>3, <1>4, <2>3
  <2>5. rowAge - took \in Int
    BY <1>3
  <2>6. rowAge' - took' \in Int
    BY <1>4, <2>2
  <2> QED
    BY <2>1, <2>4, <2>5, <2>6
<1>7. /\ Late(restarts) \in Int /\ Slack \in Nat
  BY AgesAreNumbers, LateFacts
<1>8. WaitsBriefly'
  <2> SUFFICES ASSUME row["deal"] = "waiting", ~known
               PROVE  /\ pc = "slow" => TickAge' <= Late(restarts) + 2 * Slack
                      /\ pc = "hot" => TickAge' <= Late(restarts) + Slack
                      /\ pc \in {"end", "wait"} =>
                           TickAge' <= Late(restarts) + (IF resolveOwed THEN Slack ELSE 0)
    BY <1>2 DEF WaitsBriefly, Late
  <2> QED
    BY <1>6, <1>7 DEF WaitsBriefly
<1> QED
  BY <1>5, <1>8

\* What is owed runs in the tick that comes, and nothing holds it back.
LEMMA PlanSkips ==
  ASSUME SkipInv, Plan
  PROVE  SkipInv'
<1> USE DEF SkipInv
<1>1. TypeOK'
  BY PassTypeStep DEF Next
<1>2. /\ UNCHANGED <<calm, shut, logged, known, row, rowAge, outage, restarts>>
      /\ pc = "wait" /\ took' = 0
  BY DEF Plan, Planned, rows
<1> SUFFICES ASSUME ~outage PROVE UnreadSince' /\ WaitsBriefly'
  BY <1>1, <1>2 DEF NothingFallsOut
<1>3. /\ calm = 0 /\ pc' \in {"hot", "slow"}
      /\ pc' = "hot" => lastReference' = lastReference /\ lastResolve' = lastResolve /\ ~resolveOwed
  BY DEF Plan, Planned, ResolveNow
<1>4. UnreadSince'
  BY <1>2, <1>3 DEF UnreadSince
<1>5. WaitsBriefly'
  <2> SUFFICES ASSUME row["deal"] = "waiting", ~known
               PROVE  /\ pc' = "slow" => TickAge' <= Late(restarts) + 2 * Slack
                      /\ pc' = "hot" => TickAge' <= Late(restarts) + Slack
    BY <1>2, <1>3 DEF WaitsBriefly, Late
  <2>1. rowAge \in Nat /\ took \in Nat /\ took <= Slack /\ Slack \in Nat /\ Late(restarts) \in Int
    BY AgesAreNumbers, LateFacts
  <2>2. TickAge' = rowAge /\ TickAge = rowAge - took
    BY <1>2, <2>1 DEF TickAge
  <2>3. TickAge <= Late(restarts) + (IF resolveOwed THEN Slack ELSE 0)
    BY <1>2 DEF WaitsBriefly
  <2> QED
    BY <1>3, <2>1, <2>2, <2>3
<1> QED
  BY <1>4, <1>5

\* A deal that waits when it is looked for is inside its window, and once it has
\* waited for a gap the pass is owed.
LEMMA HotSkips ==
  ASSUME WindowsReach, SkipInv, NEW pending \in BOOLEAN, Hot(pending)
  PROVE  SkipInv'
<1> USE DEF SkipInv
<1>1. TypeOK'
  BY PassTypeStep DEF Next
<1>2. /\ UNCHANGED <<lastReference, lastResolve, calm, shut, logged, known, rowAge, took, outage, restarts>>
      /\ pc = "hot" /\ pc' = "end"
      /\ row' = [deal |-> DealNow, arrival |-> ArrivalNow]
      /\ resolveOwed' = (resolveOwed \/ ((Skipped \/ pending) /\ ResolveDue))
  BY DEF Hot
<1> SUFFICES ASSUME ~outage
             PROVE  /\ NothingFallsOut'
                    /\ row'["arrival"] = "waiting" => row'["deal"] = "waiting"
                    /\ UnreadSince' /\ WaitsBriefly'
  BY <1>1, <1>2
<1>3. /\ rowAge \in Nat /\ took \in Nat /\ took <= Slack /\ Slack \in Nat /\ restarts \in Nat
      /\ Late(restarts) \in Int /\ Late(restarts) >= Gap - 1 /\ Gap \in Nat
      /\ lastReference \in Nat /\ lastResolve \in Nat
  BY AgesAreNumbers, LateFacts
<1>4. UnreadSince'
  BY <1>2 DEF UnreadSince
<1>5. row'["deal"] = DealNow /\ row'["arrival"] = ArrivalNow
  BY <1>2
<1>6. CASE row["deal"] # "waiting"
  <2>1. DealNow = row["deal"]
    BY <1>6 DEF DealNow, Persisted
  <2>2. row["arrival"] # "waiting"
    BY <1>6
  <2>3. ArrivalNow = row["arrival"]
    BY <2>2 DEF ArrivalNow, Persisted
  <2> QED
    BY <1>4, <1>5, <1>6, <2>1, <2>2, <2>3 DEF NothingFallsOut, Rows, WaitsBriefly
<1>7. CASE row["deal"] = "waiting" /\ known
  <2>1. DealNow = "written" /\ ArrivalNow # "lost" /\ ArrivalNow # "waiting"
    BY <1>7 DEF DealNow, ArrivalNow, Persisted, NothingFallsOut, Rows
  <2> QED
    BY <1>4, <1>5, <2>1 DEF NothingFallsOut, Rows, WaitsBriefly
<1>8. CASE row["deal"] = "waiting" /\ ~known
  <2>1. TickAge <= Late(restarts) + Slack /\ TickAge = rowAge - took
    BY <1>2, <1>8 DEF WaitsBriefly, TickAge
  <2>2. rowAge <= Late(restarts) + 2 * Slack
    BY <1>3, <2>1
  <2>3. \A r \in Rows : rowAge <= Lookback[r]
    <3>1. Late(restarts + 1) = Late(restarts) + 2 * Slack /\ Late(restarts + 1) <= Late(MaxRestarts + 1)
      <4>1. restarts <= MaxRestarts /\ restarts + 1 \in Nat /\ MaxRestarts + 1 \in Nat /\ MaxRestarts \in Nat
        BY <1>3, PassAssumption DEF TypeOK
      <4>2. restarts + 1 <= MaxRestarts + 1
        BY <1>3, <4>1
      <4> QED
        BY <1>3, <4>1, <4>2, LateFacts
    <3>2. \A r \in Rows : Lookback[r] \in Nat /\ Late(MaxRestarts + 1) <= Lookback[r]
      BY NeverFacts DEF WindowsReach
    <3>3. Late(MaxRestarts + 1) \in Int /\ Late(restarts + 1) \in Int
      <4>1. MaxRestarts + 1 \in Nat /\ restarts + 1 \in Nat
        BY <1>3, PassAssumption
      <4> QED
        BY <4>1, LateFacts
    <3> QED
      BY <1>3, <2>2, <3>1, <3>2, <3>3
  <2>4. ~(rowAge > Lookback["deal"]) /\ ~(rowAge > Lookback["arrival"])
    <3>1. Lookback["deal"] \in Nat /\ Lookback["arrival"] \in Nat
          /\ rowAge <= Lookback["deal"] /\ rowAge <= Lookback["arrival"]
      BY <2>3, NeverFacts DEF Rows
    <3> QED
      BY <1>3, <3>1
  <2>5. DealNow = "waiting" /\ ArrivalNow # "lost"
    BY <1>8, <2>4 DEF DealNow, ArrivalNow, Persisted, NothingFallsOut, Rows
  <2>6. NothingFallsOut' /\ row'["deal"] = "waiting"
    BY <1>5, <2>5 DEF NothingFallsOut, Rows
  <2>7. rowAge >= Gap => resolveOwed'
    <3>1. lastReference >= rowAge /\ lastResolve >= rowAge
      BY <1>2, <1>8 DEF UnreadSince
    <3>2. rowAge >= Gap => ResolveDue
      BY <1>3, <3>1 DEF ResolveDue, Due
    <3> QED
      BY <1>2, <1>8, <3>2 DEF Skipped
  <2>8. TickAge <= Late(restarts) + (IF resolveOwed' THEN Slack ELSE 0)
    <3>1. CASE resolveOwed'
      BY <2>1, <3>1
    <3>2. CASE ~resolveOwed'
      <4>1. ~(rowAge >= Gap)
        BY <2>7, <3>2
      <4> QED
        BY <1>3, <2>1, <3>2, <4>1
    <3> QED
      BY <3>1, <3>2
  <2>9. WaitsBriefly'
    BY <1>2, <2>8 DEF WaitsBriefly, TickAge, Late
  <2> QED
    BY <1>4, <2>6, <2>9
<1> QED
  BY <1>6, <1>7, <1>8

\* A restart loses what was owed, and costs a tick and the one before it.
LEMMA RestartSkips ==
  ASSUME SkipInv, Restart
  PROVE  SkipInv'
<1> USE DEF SkipInv
<1>1. TypeOK'
  BY PassTypeStep DEF Next
<1>2. /\ UNCHANGED <<logged, known, row, rowAge, took, outage>>
      /\ pc' = "wait" /\ calm' = 0 /\ resolveOwed' = FALSE
      /\ lastReference' \in {logged, Never} /\ lastResolve' = Never
      /\ restarts' = restarts + 1 /\ shut' \in {shut, FALSE}
  BY DEF Restart, Restarts, rows
<1> SUFFICES ASSUME ~outage PROVE UnreadSince' /\ WaitsBriefly'
  <2>1. ~outage => ~shut'
    BY <1>2
  <2> QED
    BY <1>1, <1>2, <2>1 DEF NothingFallsOut
<1>3. UnreadSince'
  <2>1. Never >= rowAge
    BY AgesAreNumbers, NeverFacts DEF Ages
  <2> QED
    BY <1>2, <2>1 DEF UnreadSince
<1>4. WaitsBriefly'
  <2> SUFFICES ASSUME row["deal"] = "waiting", ~known
               PROVE  TickAge <= Late(restarts + 1)
    <3>1. TickAge <= Late(restarts + 1) => TickAge <= Late(restarts + 1) + 0
      <4>1. restarts + 1 \in Nat
        BY AgesAreNumbers
      <4>2. Late(restarts + 1) \in Int
        BY <4>1, LateFacts
      <4> QED
        BY <4>2
    <3> QED
      BY <1>2, <3>1 DEF WaitsBriefly, TickAge, Late
  <2>1. /\ restarts \in Nat /\ Slack \in Nat /\ Late(restarts) \in Int
        /\ Late(restarts + 1) = Late(restarts) + 2 * Slack
        /\ TickAge \in Int
    BY AgesAreNumbers, LateFacts DEF TickAge
  <2>2. pc \in {"wait", "slow", "hot", "end"}
    BY DEF TypeOK
  <2>3. TickAge <= Late(restarts) + 2 * Slack
    BY <2>1, <2>2 DEF WaitsBriefly
  <2> QED
    BY <2>1, <2>3
<1> QED
  BY <1>3, <1>4

\* An arrival starts the wait, an outage excuses it, and the rest leaves it.
LEMMA OtherSkips ==
  ASSUME SkipInv, Arrive \/ Recover \/ SlowPass \/ HotFails \/ EndTick
  PROVE  SkipInv'
<1> USE DEF SkipInv
<1>1. TypeOK'
  BY PassTypeStep DEF Next
<1>2. CASE Arrive
  <2>1. /\ UNCHANGED <<lastReference, lastResolve, logged, resolveOwed, calm, pc, shut, took, restarts>>
        /\ row' = [r \in Rows |-> "waiting"] /\ rowAge' = 0
        /\ outage' = (shut \/ calm > 0)
    BY <1>2 DEF Arrive, memory
  <2>2. /\ took \in Nat /\ calm \in Nat /\ Late(restarts) \in Int /\ Late(restarts) >= 0 /\ Slack \in Nat
        /\ lastReference \in Nat /\ lastResolve \in Nat /\ logged \in Nat
    BY AgesAreNumbers, LateFacts
  <2>3. NothingFallsOut' /\ row'["deal"] = "waiting" /\ (~outage' => ~shut /\ calm = 0)
    <3>1. \A r \in Rows : row'[r] = "waiting"
      BY <2>1
    <3>2. NothingFallsOut'
      BY <3>1 DEF NothingFallsOut
    <3>3. ~(calm > 0) => calm = 0
      BY <2>2
    <3> QED
      BY <2>1, <3>1, <3>2, <3>3 DEF Rows
  <2>4. UnreadSince'
    BY <2>1, <2>2 DEF UnreadSince
  <2>5. WaitsBriefly'
    <3>1. TickAge' <= 0 /\ TickAge' \in Int
      BY <2>1, <2>2 DEF TickAge
    <3>2. Late(restarts)' = Late(restarts)
      BY <2>1 DEF Late
    <3> QED
      BY <2>2, <3>1, <3>2 DEF WaitsBriefly
  <2> QED
    BY <1>1, <2>1, <2>3, <2>4, <2>5
<1>3. CASE Recover
  BY <1>1, <1>3 DEF Recover, memory, rows
<1>4. CASE SlowPass
  <2>1. CASE known' = TRUE /\ UNCHANGED <<shut, outage>>
    BY <1>1, <1>4, <2>1 DEF SlowPass, memory, rows, NothingFallsOut, UnreadSince, WaitsBriefly
  <2>2. CASE outage' = TRUE
    BY <1>1, <2>2
  <2> QED
    BY <1>4, <2>1, <2>2 DEF SlowPass
<1>5. CASE HotFails
  BY <1>1, <1>5 DEF HotFails
<1>6. CASE EndTick
  <2>1. /\ UNCHANGED <<lastReference, lastResolve, resolveOwed, shut, logged, known, row, rowAge, took,
                       outage, restarts>>
        /\ pc = "end" /\ pc' = "wait" /\ (calm = 0 => calm' = 0)
    BY <1>6 DEF EndTick, rows
  <2> QED
    BY <1>1, <2>1 DEF NothingFallsOut, UnreadSince, WaitsBriefly, TickAge, Late
<1> QED
  BY <1>2, <1>3, <1>4, <1>5, <1>6

LEMMA SkipStep ==
  ASSUME WindowsReach, SkipInv, [Next]_vars
  PROVE  SkipInv'
<1>1. CASE UNCHANGED vars
  <2>1. TypeOK'
    BY PassTypeStep DEF SkipInv
  <2> QED
    BY <1>1, <2>1
       DEF vars, memory, rows, SkipInv, NothingFallsOut, UnreadSince, WaitsBriefly, TickAge, Late
<1> QED
  BY <1>1, PassSkips, PlanSkips, HotSkips, RestartSkips, OtherSkips DEF Next

\* Ages, calm and restarts stay within their bounds, for any periods.
THEOREM SlowPassesAreWellFormed == Spec => []TypeOK
BY PassTypeInit, PassTypeStep, PTL DEF Spec

(***************************************************************************)
(* A skip that meets no outage is resolved before its row falls out of the *)
(* window, whatever pass ran just before it and whenever the process       *)
(* restarts, for any periods whose windows reach past the gap, a tick and  *)
(* the one before it, and as much again for each restart (planTick).       *)
(***************************************************************************)
THEOREM OnlyOutagesLoseAlways == ASSUME WindowsReach PROVE Spec => []OnlyOutagesLose
<1>1. SkipInv /\ [Next]_vars => SkipInv'
  BY SkipStep
<1>2. SkipInv => OnlyOutagesLose
  BY DEF SkipInv, OnlyOutagesLose
<1> QED
  BY SkipInit, <1>1, <1>2, PTL DEF Spec

-------------------------------------------------------------------------------
(* The warehouse's orders. *)

OrderRow == [place : {"none", "live", "bin"}, updated : Nat, content : Nat, paid : Nat]
KeptRow == [updated : Int, content : Int, paid : Int]

\* A row was an order as it was, then or before.
IsEarlier(entry, o) ==
  /\ 0 <= entry.updated /\ entry.updated <= order[o].updated /\ entry.paid <= order[o].paid
  /\ order[o].place # "none"

MoyShapes ==
  /\ second \in Nat /\ order \in [Orders -> OrderRow]
  /\ \A o \in Orders : order[o].updated <= second
  /\ kept \in [Orders -> KeptRow] /\ \A o \in Stored : IsEarlier(kept[o], o)
  /\ doing \in {"idle", "read", "write", "list", "ask", "pay", "paying"}
  /\ offset \in Nat /\ began \in Int /\ since \in Int
  /\ doing \in {"idle", "ask", "pay"} => offset = 0
  /\ DOMAIN inHand \subseteq Orders /\ (doing # "write" => DOMAIN inHand = {})
  /\ \A o \in DOMAIN inHand : /\ inHand[o] \in KeptRow /\ IsEarlier(inHand[o], o)
                              /\ since <= inHand[o].updated

\* While it reads orders a run is young, and asks from no later than the newest
\* row it holds lets it.
RunIsYoung ==
  doing \in {"read", "write"} =>
    /\ began <= second /\ second <= began + ReadTime
    /\ \A q \in Stored : kept[q].updated <= since + Settle

AsIs(o) == kept[o].content = order[o].content
EditedSince(o) == order[o].updated >= began - ShownLate

\* The orders of the second a run stands in, before o.
InSecond(o) == {p \in Live : order[p].updated = since /\ (order[o].updated > since \/ p < o)}

Ahead(o) == order[o].updated >= since /\ Cardinality(InSecond(o)) >= offset

AfterPage(o) ==
  /\ IsFull /\ LastRead <= order[o].updated
  /\ LastRead = since => Cardinality(InSecond(o)) >= offset + RowPage

\* What a run has not stored it comes to, or the next one does.
ReadIsWhole ==
  doing = "read" => \A o \in Live \ slid : AsIs(o) \/ EditedSince(o) \/ Ahead(o)
WriteIsWhole ==
  doing = "write" =>
    \A o \in Live \ slid :
      \/ EditedSince(o)
      \/ IF o \in DOMAIN inHand THEN inHand[o].content = order[o].content
                                ELSE AsIs(o) \/ AfterPage(o)
NextIsWhole ==
  doing \notin {"read", "write"} =>
    \A o \in Live \ slid, q \in Stored : AsIs(o) \/ kept[q].updated <= order[o].updated + Settle

\* A payment owed is behind, and the pages to come reach its order.
Priced == {o \in Live : IsPriced(o)}
PricedBefore(o) == {p \in Priced : p < o}

OwedAreAhead ==
  /\ doing # "paying" => owed = {}
  /\ \A o \in owed : /\ o \in Priced \cap Stored /\ kept[o].paid < order[o].paid
                     /\ Cardinality(PricedBefore(o)) >= offset

MoyInv == MoyShapes /\ RunIsYoung /\ ReadIsWhole /\ WriteIsWhole /\ NextIsWhole /\ OwedAreAhead

LEMMA LeastMember ==
  ASSUME NEW T \in SUBSET Nat, T # {}
  PROVE  \E x \in T : \A y \in T : x <= y
<1> DEFINE R == OpToRel(<, Nat)
<1>1. IsWellFoundedOn(R, Nat)
  BY NatLessThanWellFounded
<1>2. \A x, y \in Nat : x < y => <<x, y>> \in R
  BY DEF OpToRel
<1> HIDE DEF R
<1>3. PICK x \in T : \A y \in T : ~ (<<y, x>> \in R)
  BY <1>1, WFMin
<1>4. ASSUME NEW y \in T PROVE x <= y
  <2>1. x \in Nat /\ y \in Nat /\ ~ (y < x)
    BY <1>2, <1>3
  <2> QED
    BY <2>1
<1> QED
  BY <1>4

\* A list, as each member's set of those before it.
IsOrdered(list, S) ==
  /\ DOMAIN list = S
  /\ \A o \in S : list[o] \subseteq S /\ o \notin list[o]
  /\ \A o \in S : \A p \in list[o] : list[p] \subseteq list[o]
  /\ \A o, p \in S : o = p \/ p \in list[o] \/ o \in list[p]

\* Each member has its own place, and below a member every place is taken.
LEMMA PlacesFacts ==
  ASSUME NEW S, IsFiniteSet(S), NEW list, IsOrdered(list, S)
  PROVE  /\ \A o \in S : IsFiniteSet(list[o]) /\ Cardinality(list[o]) \in Nat
         /\ \A o \in S : \A p \in list[o] : Cardinality(list[p]) < Cardinality(list[o])
         /\ \A o, p \in S : Cardinality(list[o]) = Cardinality(list[p]) => o = p
         /\ \A o \in S : \A k \in 0..(Cardinality(list[o]) - 1) :
              \E p \in list[o] : Cardinality(list[p]) = k
<1> USE DEF IsOrdered
<1>1. \A o \in S : IsFiniteSet(list[o]) /\ Cardinality(list[o]) \in Nat
  <2>1. \A o \in S : list[o] \in SUBSET S
    OBVIOUS
  <2> QED
    BY <2>1, FS_Subset, FS_CardinalityType
<1>2. ASSUME NEW o \in S, NEW p \in list[o] PROVE Cardinality(list[p]) < Cardinality(list[o])
  <2>1. p \in S /\ list[p] \in SUBSET (list[o] \ {p})
    OBVIOUS
  <2>2. IsFiniteSet(list[o] \ {p}) /\ Cardinality(list[o] \ {p}) = Cardinality(list[o]) - 1
    BY <1>1, FS_RemoveElement
  <2>3. Cardinality(list[p]) <= Cardinality(list[o] \ {p})
    BY <2>1, <2>2, FS_Subset
  <2> QED
    BY <1>1, <2>1, <2>2, <2>3
<1>3. ASSUME NEW o \in S, NEW p \in S, o # p PROVE Cardinality(list[o]) # Cardinality(list[p])
  <2>1. CASE p \in list[o]
    BY <1>1, <1>2, <2>1
  <2>2. CASE o \in list[p]
    BY <1>1, <1>2, <2>2
  <2> QED
    BY <1>3, <2>1, <2>2
<1>4. ASSUME NEW o \in S, NEW k \in 0..(Cardinality(list[o]) - 1)
      PROVE  \E p \in list[o] : Cardinality(list[p]) = k
  <2> SUFFICES ASSUME \A p \in list[o] : Cardinality(list[p]) # k PROVE FALSE
    OBVIOUS
  <2>0. k \in Nat /\ k < Cardinality(list[o]) /\ Cardinality(list[o]) \in Nat
    BY <1>1
  <2> DEFINE Above0 == {n \in Nat : n > k /\ \E q \in list[o] \cup {o} : Cardinality(list[q]) = n}
  <2>1. Above0 # {} /\ Above0 \in SUBSET Nat
    BY <2>0
  <2>2. PICK n \in Above0 : \A m \in Above0 : n <= m
    BY <2>1, LeastMember
  <2>3. PICK q \in list[o] \cup {o} : Cardinality(list[q]) = n
    BY <2>2
  <2>4. q \in S /\ list[q] \subseteq list[o] /\ n \in Nat /\ n > k
    BY <2>2
  <2>5. \A p \in list[q] : Cardinality(list[p]) \in 0..(k - 1)
    <3> SUFFICES ASSUME NEW p \in list[q] PROVE Cardinality(list[p]) \in 0..(k - 1)
      OBVIOUS
    <3>1. p \in list[o] /\ p \in S /\ Cardinality(list[p]) \in Nat /\ Cardinality(list[p]) < n
      BY <1>1, <1>2, <2>3, <2>4
    <3>2. ~(Cardinality(list[p]) > k)
      <4>1. Cardinality(list[p]) > k => Cardinality(list[p]) \in Above0
        BY <3>1
      <4> QED
        BY <2>2, <2>4, <3>1, <4>1
    <3>3. Cardinality(list[p]) # k
      BY <3>1
    <3> QED
      BY <2>0, <3>1, <3>2, <3>3
  <2> HIDE DEF Above0
  <2> DEFINE place == [p \in list[q] |-> Cardinality(list[p])]
  <2>6. place \in [list[q] -> 0..(k - 1)]
    BY <2>5
  <2>7. IsFiniteSet(0..(k - 1)) /\ Cardinality(0..(k - 1)) = k
    <3>1. 0 \in Int /\ k - 1 \in Int
      BY <2>0
    <3>2. IsFiniteSet(0..(k - 1)) /\ Cardinality(0..(k - 1)) = IF 0 > k - 1 THEN 0 ELSE k - 1 - 0 + 1
      BY <3>1, FS_Interval
    <3> QED
      BY <2>0, <3>2
  <2>8. Cardinality(0..(k - 1)) < Cardinality(list[q]) /\ IsFiniteSet(list[q])
    BY <1>1, <2>0, <2>3, <2>4, <2>7
  <2> HIDE DEF place
  <2>9. \E x, y \in list[q] : x # y /\ place[x] = place[y]
    BY <2>6, <2>7, <2>8, FS_PigeonHole
  <2> QED
    BY <1>3, <2>4, <2>9 DEF place
<1> QED
  BY <1>1, <1>2, <1>3, <1>4

\* A page that does not reach a member of the list is full of those before it.
LEMMA FullPage ==
  ASSUME NEW S, IsFiniteSet(S), NEW list, IsOrdered(list, S),
         NEW from \in Nat, NEW size \in Nat \ {0},
         NEW o \in S, Cardinality(list[o]) >= from, o \notin Page(list, from, size)
  PROVE  /\ Cardinality(Page(list, from, size)) = size
         /\ Page(list, from, size) \subseteq list[o]
         /\ \E m \in Page(list, from, size) : Cardinality(list[m]) = from + size - 1
<1> DEFINE page == Page(list, from, size)
           places == from..(from + size - 1)
<1>1. page = {p \in S : Cardinality(list[p]) \in places}
  BY DEF Page, IsOrdered
<1>2. Cardinality(list[o]) \in Nat /\ Cardinality(list[o]) >= from + size
  <2>1. Cardinality(list[o]) \in Nat /\ Cardinality(list[o]) \notin places
    BY <1>1, PlacesFacts
  <2> QED
    BY <2>1
<1>3. ASSUME NEW k \in places PROVE \E p \in list[o] : p \in page /\ Cardinality(list[p]) = k
  <2>1. k \in 0..(Cardinality(list[o]) - 1)
    BY <1>2
  <2>2. PICK p \in list[o] : Cardinality(list[p]) = k
    BY <2>1, PlacesFacts
  <2>3. p \in S
    BY DEF IsOrdered
  <2> QED
    BY <1>1, <2>2, <2>3
<1>4. page \subseteq list[o]
  <2> SUFFICES ASSUME NEW p \in page PROVE p \in list[o]
    OBVIOUS
  <2>1. p \in S /\ Cardinality(list[p]) \in places
    BY <1>1
  <2>2. PICK q \in list[o] : Cardinality(list[q]) = Cardinality(list[p])
    BY <1>3, <2>1
  <2>3. q \in S
    BY DEF IsOrdered
  <2> QED
    BY <2>1, <2>2, <2>3, PlacesFacts
<1>5. IsFiniteSet(places) /\ Cardinality(places) = size
  <2>1. from \in Int /\ from + size - 1 \in Int
    OBVIOUS
  <2>2. IsFiniteSet(places)
        /\ Cardinality(places) = IF from > from + size - 1 THEN 0 ELSE from + size - 1 - from + 1
    BY <2>1, FS_Interval
  <2> QED
    BY <2>2
<1>6. IsFiniteSet(page) /\ Cardinality(page) \in Nat
  BY <1>1, FS_Subset, FS_CardinalityType
<1>7. ~(Cardinality(places) < Cardinality(page))
  <2> SUFFICES ASSUME Cardinality(places) < Cardinality(page) PROVE FALSE
    OBVIOUS
  <2> DEFINE f == [p \in page |-> Cardinality(list[p])]
  <2>1. f \in [page -> places]
    BY <1>1
  <2> HIDE DEF f, page, places
  <2>2. PICK x, y \in page : x # y /\ f[x] = f[y]
    BY <1>5, <1>6, <2>1, FS_PigeonHole
  <2> QED
    BY <1>1, <2>2, PlacesFacts DEF f
<1>8. ~(Cardinality(page) < Cardinality(places))
  <2> SUFFICES ASSUME Cardinality(page) < Cardinality(places) PROVE FALSE
    OBVIOUS
  <2> DEFINE g == [k \in places |-> CHOOSE p \in page : Cardinality(list[p]) = k]
  <2>1. \A k \in places : g[k] \in page /\ Cardinality(list[g[k]]) = k
    BY <1>3
  <2>2. g \in [places -> page]
    BY <2>1
  <2> HIDE DEF g, page, places
  <2>3. PICK x, y \in places : x # y /\ g[x] = g[y]
    BY <1>5, <1>6, <2>2, FS_PigeonHole
  <2> QED
    BY <2>1, <2>3
<1>9. from + size - 1 \in places
  OBVIOUS
<1> HIDE DEF page, places
<1>10. Cardinality(page) = size
  BY <1>5, <1>6, <1>7, <1>8
<1> QED
  BY <1>3, <1>4, <1>9, <1>10 DEF page

\* The date of the last row of a page.
LastOf(h) == CHOOSE u \in {h[o].updated : o \in DOMAIN h} : \A o \in DOMAIN h : h[o].updated <= u

LEMMA LastOfFacts ==
  ASSUME NEW h, NEW bound \in Nat, DOMAIN h # {}, \A o \in DOMAIN h : h[o].updated \in 0..bound
  PROVE  /\ LastOf(h) \in {h[o].updated : o \in DOMAIN h} /\ LastOf(h) \in Nat
         /\ \A o \in DOMAIN h : h[o].updated <= LastOf(h)
<1> DEFINE U == {h[o].updated : o \in DOMAIN h}
           T == {bound - u : u \in U}
<1>1. T # {} /\ T \in SUBSET Nat /\ \A u \in U : u \in Nat /\ u <= bound
  OBVIOUS
<1>2. PICK t \in T : \A y \in T : t <= y
  BY <1>1, LeastMember
<1>3. PICK u \in U : t = bound - u
  BY <1>2
<1>4. ASSUME NEW o \in DOMAIN h PROVE h[o].updated <= u
  <2>1. h[o].updated \in Nat /\ t <= bound - h[o].updated /\ u \in Nat
    BY <1>1, <1>2
  <2> QED
    BY <1>3, <2>1
<1>5. \E v \in U : \A o \in DOMAIN h : h[o].updated <= v
  BY <1>4
<1>6. LastOf(h) \in U /\ \A o \in DOMAIN h : h[o].updated <= LastOf(h)
  BY <1>5 DEF LastOf
<1> QED
  BY <1>1, <1>6

LEMMA LastReadFacts ==
  ASSUME MoyShapes, IsFull
  PROVE  /\ LastRead \in Nat /\ LastRead >= since /\ LastRead <= second
         /\ \A o \in DOMAIN inHand : inHand[o].updated <= LastRead
<1> USE OrdersAssumption
<1>1. DOMAIN inHand # {}
  BY FS_EmptySet DEF IsFull
<1>2. ASSUME NEW o \in DOMAIN inHand
      PROVE  inHand[o].updated \in 0..second /\ inHand[o].updated >= since
  <2>1. o \in Orders /\ inHand[o] \in KeptRow /\ IsEarlier(inHand[o], o) /\ since <= inHand[o].updated
    BY DEF MoyShapes
  <2>2. inHand[o].updated \in Int
    BY <2>1 DEF KeptRow
  <2>3. order[o] \in OrderRow /\ order[o].updated <= second /\ second \in Nat /\ since \in Int
    BY <2>1 DEF MoyShapes
  <2>4. order[o].updated \in Nat
    BY <2>3 DEF OrderRow
  <2> QED
    BY <2>1, <2>2, <2>3, <2>4 DEF IsEarlier
<1>3. LastRead = LastOf(inHand)
  BY DEF LastRead, LastOf
<1>4. second \in Nat
  BY DEF MoyShapes
<1>5. /\ LastOf(inHand) \in {inHand[o].updated : o \in DOMAIN inHand} /\ LastOf(inHand) \in Nat
      /\ \A o \in DOMAIN inHand : inHand[o].updated <= LastOf(inHand)
  BY <1>1, <1>2, <1>4, LastOfFacts
<1> QED
  BY <1>2, <1>3, <1>4, <1>5

LEMMA OrderTypes ==
  ASSUME MoyShapes, NEW o \in Orders
  PROVE  /\ order[o] \in OrderRow /\ order[o].updated \in Nat /\ order[o].content \in Nat /\ order[o].paid \in Nat
         /\ second \in Nat /\ order[o].updated <= second
         /\ kept[o] \in KeptRow /\ kept[o].updated \in Int /\ kept[o].content \in Int /\ kept[o].paid \in Int
         /\ o \in Stored => /\ kept[o].updated <= order[o].updated /\ kept[o].paid <= order[o].paid
                            /\ order[o].place # "none"
         /\ since \in Int /\ began \in Int /\ offset \in Nat
<1>1. /\ order[o] \in OrderRow /\ kept[o] \in KeptRow /\ second \in Nat /\ order[o].updated <= second
      /\ since \in Int /\ began \in Int /\ offset \in Nat /\ (o \in Stored => IsEarlier(kept[o], o))
  BY DEF MoyShapes
<1>2. order[o].updated \in Nat /\ order[o].content \in Nat /\ order[o].paid \in Nat
  BY <1>1 DEF OrderRow
<1>3. kept[o].updated \in Int /\ kept[o].content \in Int /\ kept[o].paid \in Int
  BY <1>1 DEF KeptRow
<1> QED
  BY <1>1, <1>2, <1>3 DEF IsEarlier

LEMMA MoyBounds ==
  /\ ShownLate \in Nat /\ ReadTime \in Nat /\ Settle \in Nat /\ ShownLate + ReadTime <= Settle
  /\ RowPage \in Nat \ {0} /\ IdPage \in Nat \ {0} /\ SweepRuns \in Nat \ {0}
  /\ IsFiniteSet(Orders) /\ Orders \subseteq Nat
BY OrdersAssumption

LEMMA FewOrders ==
  ASSUME NEW S, S \subseteq Orders
  PROVE  IsFiniteSet(S) /\ Cardinality(S) \in Nat
BY MoyBounds, FS_Subset, FS_CardinalityType

LEMMA MoreOrders ==
  ASSUME NEW S, NEW T, S \subseteq T, T \subseteq Orders
  PROVE  Cardinality(S) <= Cardinality(T) /\ Cardinality(S) \in Nat /\ Cardinality(T) \in Nat
<1>1. IsFiniteSet(T)
  BY FewOrders
<1> QED
  BY <1>1, FewOrders, FS_Subset

\* Whenever a run ends, the next one asks for what this one has not stored.
LEMMA AnytimeWhole ==
  ASSUME MoyInv
  PROVE  \A o \in Live \ slid, q \in Stored : AsIs(o) \/ kept[q].updated <= order[o].updated + Settle
<1> SUFFICES ASSUME NEW o \in Live \ slid, NEW q \in Stored, ~AsIs(o)
             PROVE  kept[q].updated <= order[o].updated + Settle
  OBVIOUS
<1>0. MoyShapes /\ o \in Orders /\ q \in Orders /\ q \in Stored
  BY DEF MoyInv, Live, Stored
<1>1. /\ order[o].updated \in Nat /\ order[q].updated \in Nat /\ kept[q].updated \in Int
      /\ kept[q].updated <= order[q].updated /\ order[q].updated <= second /\ second \in Nat
      /\ since \in Int /\ began \in Int
  BY <1>0, OrderTypes
<1>2. ShownLate \in Nat /\ ReadTime \in Nat /\ Settle \in Nat /\ ShownLate + ReadTime <= Settle
  BY MoyBounds
<1>3. CASE doing \notin {"read", "write"}
  BY <1>3 DEF MoyInv, NextIsWhole
<1>4. ASSUME doing \in {"read", "write"}
      PROVE  second <= began + ReadTime /\ kept[q].updated <= since + Settle
  BY <1>4 DEF MoyInv, RunIsYoung
<1>5. doing \in {"read", "write"} /\ EditedSince(o) => kept[q].updated <= order[o].updated + Settle
  BY <1>1, <1>2, <1>4 DEF EditedSince
<1>6. doing \in {"read", "write"} /\ order[o].updated >= since => kept[q].updated <= order[o].updated + Settle
  BY <1>1, <1>2, <1>4
<1>7. CASE doing = "read"
  <2>1. EditedSince(o) \/ Ahead(o)
    BY <1>7 DEF MoyInv, ReadIsWhole
  <2> QED
    BY <1>5, <1>6, <1>7, <2>1 DEF Ahead
<1>8. CASE doing = "write"
  <2>1. EditedSince(o) \/ (o \in DOMAIN inHand) \/ AfterPage(o)
    BY <1>8 DEF MoyInv, WriteIsWhole
  <2>2. CASE o \in DOMAIN inHand
    <3>1. inHand[o] \in KeptRow /\ inHand[o].updated <= order[o].updated /\ since <= inHand[o].updated
      BY <1>0, <2>2 DEF MoyShapes, IsEarlier
    <3>2. inHand[o].updated \in Int
      BY <3>1 DEF KeptRow
    <3> QED
      BY <1>1, <1>6, <1>8, <3>1, <3>2
  <2>3. CASE AfterPage(o)
    <3>1. IsFull /\ LastRead <= order[o].updated
      BY <2>3 DEF AfterPage
    <3>2. LastRead \in Nat /\ LastRead >= since
      BY <1>0, <3>1, LastReadFacts
    <3> QED
      BY <1>1, <1>6, <1>8, <3>1, <3>2
  <2> QED
    BY <1>5, <1>8, <2>1, <2>2, <2>3
<1> QED
  BY <1>3, <1>7, <1>8

LEMMA MoyInvInit == MoyInit => MoyInv
<1> SUFFICES ASSUME MoyInit PROVE MoyInv
  OBVIOUS
<1> USE DEF MoyInit
<1>1. \A o \in Orders : kept[o] = NoRow
  OBVIOUS
<1>2. Stored = {}
  BY <1>1 DEF Stored
<1>3. MoyShapes
  <2>1. \A o \in Orders : order[o].updated = 0 /\ order[o] \in OrderRow
    BY DEF OrderRow
  <2>2. order \in [Orders -> OrderRow]
    BY DEF OrderRow
  <2>3. NoRow \in KeptRow
    BY DEF NoRow, KeptRow
  <2>4. kept \in [Orders -> KeptRow]
    BY <2>3
  <2>5. DOMAIN inHand = {}
    OBVIOUS
  <2>6. since \in Int
    BY MoyBounds DEF Ever
  <2> QED
    BY <1>2, <2>1, <2>2, <2>4, <2>5, <2>6 DEF MoyShapes
<1> QED
  BY <1>2, <1>3 DEF MoyInv, RunIsYoung, ReadIsWhole, WriteIsWhole, NextIsWhole, OwedAreAhead

\* What the warehouse does to one order, x: the rest stand where they stood.
Moves(x, new) ==
  /\ x \in Orders /\ new \in OrderRow /\ order' = [order EXCEPT ![x] = new]
  /\ order[x].updated <= new.updated /\ new.updated <= second /\ order[x].paid <= new.paid /\ new.place # "none"
  /\ UNCHANGED <<second, kept, runs, doing, run>>
  \* It was just edited, or keeps its date and its content.
  /\ \/ new.place # "live" \/ second - ShownLate <= new.updated
     \/ new.content = order[x].content /\ new.updated = order[x].updated /\ x \in Live /\ slid' = slid
  \* One it leaves behind in the second of the run has slid, unless it is stored as it is.
  /\ \A o \in Live \ {x} : o \notin slid' =>
       /\ o \notin slid
       /\ Steps /\ order[o].updated >= since /\ x \in InSecond(o) /\ x \notin InSecond(o)' => kept[o] = RowOf(o)

LEMMA MoveShapes ==
  ASSUME MoyShapes, NEW x, NEW new, Moves(x, new)
  PROVE  /\ MoyShapes' /\ Stored' = Stored
         /\ \A o \in Orders : order'[o] = IF o = x THEN new ELSE order[o]
<1> USE DEF Moves
<1>1. \A o \in Orders : order'[o] = IF o = x THEN new ELSE order[o]
  BY DEF MoyShapes
<1>2. Stored' = Stored
  BY DEF Stored
<1>3. order' \in [Orders -> OrderRow]
  BY DEF MoyShapes
<1>4. new.updated \in Nat /\ new.paid \in Nat
  BY DEF OrderRow
<1>5. ASSUME NEW o \in Orders PROVE order'[o].updated <= second /\ order[o].updated <= order'[o].updated
                                    /\ order[o].paid <= order'[o].paid
                                    /\ (order[o].place # "none" => order'[o].place # "none")
  <2>1. /\ order[o].updated \in Nat /\ order[o].paid \in Nat /\ order[o].updated <= second
    BY OrderTypes
  <2> QED
    BY <1>1, <2>1
<1>6. ASSUME NEW o \in Orders, NEW entry \in KeptRow, IsEarlier(entry, o) PROVE IsEarlier(entry, o)'
  <2>1. entry.updated \in Int /\ entry.paid \in Int
    BY DEF KeptRow
  <2>2. order[o].updated \in Nat /\ order[o].paid \in Nat /\ order'[o].updated \in Nat /\ order'[o].paid \in Nat
    BY <1>1, <1>4, OrderTypes
  <2>3. /\ 0 <= entry.updated /\ entry.updated <= order[o].updated /\ entry.paid <= order[o].paid
        /\ order[o].place # "none"
    BY <1>6 DEF IsEarlier
  <2>4. entry.updated <= order'[o].updated /\ entry.paid <= order'[o].paid /\ order'[o].place # "none"
    BY <1>5, <2>1, <2>2, <2>3
  <2> QED
    BY <2>3, <2>4 DEF IsEarlier
<1>7. \A o \in Stored : IsEarlier(kept[o], o)'
  <2> SUFFICES ASSUME NEW o \in Stored PROVE IsEarlier(kept[o], o)'
    OBVIOUS
  <2>1. o \in Orders /\ kept[o] \in KeptRow /\ IsEarlier(kept[o], o) /\ kept' = kept
    BY DEF MoyShapes, Stored
  <2> QED
    BY <1>6, <2>1 DEF IsEarlier
<1>8. \A o \in DOMAIN inHand : IsEarlier(inHand[o], o)'
  <2> SUFFICES ASSUME NEW o \in DOMAIN inHand PROVE IsEarlier(inHand[o], o)'
    OBVIOUS
  <2>1. o \in Orders /\ inHand[o] \in KeptRow /\ IsEarlier(inHand[o], o) /\ inHand' = inHand
    BY DEF MoyShapes, run
  <2> QED
    BY <1>6, <2>1 DEF IsEarlier
<1>9. MoyShapes'
  BY <1>2, <1>3, <1>5, <1>7, <1>8 DEF MoyShapes, run
<1> QED
  BY <1>1, <1>2, <1>9

LEMMA MoveKeeps ==
  ASSUME MoyInv, NEW x, NEW new, Moves(x, new)
  PROVE  RunIsYoung' /\ ReadIsWhole' /\ WriteIsWhole' /\ NextIsWhole'
<1>0. MoyShapes /\ RunIsYoung
  BY DEF MoyInv
<1>1. /\ x \in Orders /\ second' = second /\ kept' = kept /\ doing' = doing /\ began' = began /\ since' = since
      /\ offset' = offset /\ inHand' = inHand
  BY DEF Moves, run
<1>2. Stored' = Stored /\ \A o \in Orders : order'[o] = IF o = x THEN new ELSE order[o]
  BY <1>0, MoveShapes
<1>3. RunIsYoung'
  BY <1>0, <1>1, <1>2 DEF RunIsYoung
<1>4. \A o \in Live' : o # x => o \in Live /\ order'[o] = order[o]
  BY <1>2 DEF Live
<1>5. ASSUME NEW o \in Live', o \notin slid', o # x
      PROVE  /\ o \in Live \ slid /\ order'[o] = order[o]
             /\ Steps /\ order[o].updated >= since /\ x \in InSecond(o) /\ x \notin InSecond(o)' => AsIs(o)
  <2>1. o \in Live \ {x} /\ order'[o] = order[o]
    BY <1>4, <1>5
  <2>2. /\ o \notin slid
        /\ Steps /\ order[o].updated >= since /\ x \in InSecond(o) /\ x \notin InSecond(o)' => kept[o] = RowOf(o)
    BY <1>5, <2>1 DEF Moves
  <2> QED
    BY <2>1, <2>2 DEF AsIs, RowOf
\* The second of the run may only have lost x.
<1>6. ASSUME NEW o \in Live', o # x, x \in InSecond(o) => x \in InSecond(o)'
      PROVE  Cardinality(InSecond(o)) <= Cardinality(InSecond(o)')
             /\ Cardinality(InSecond(o)) \in Nat /\ Cardinality(InSecond(o)') \in Nat
  <2>1. o \in Orders /\ order'[o] = order[o]
    BY <1>4, <1>6 DEF Live
  <2>2. InSecond(o)' \subseteq Orders
    BY DEF InSecond, Live
  <2>3. ASSUME NEW p \in InSecond(o), p # x PROVE p \in InSecond(o)'
    <3>1. p \in Orders /\ order'[p] = order[p] /\ order[p].place = "live"
      BY <1>2, <2>3 DEF InSecond, Live
    <3> QED
      BY <1>1, <2>1, <2>3, <3>1 DEF InSecond, Live
  <2>4. InSecond(o) \subseteq InSecond(o)'
    BY <1>6, <2>3
  <2> QED
    BY <2>2, <2>4, MoreOrders
\* What was just edited is asked for by the next run.
<1>7. ASSUME x \in Live', second - ShownLate <= new.updated
      PROVE  /\ doing \in {"read", "write"} => EditedSince(x)'
             /\ \A q \in Stored : kept[q].updated <= order'[x].updated + Settle
  <2>1. order'[x] = new /\ new.updated \in Nat
    BY <1>1, <1>2 DEF Moves, OrderRow
  <2>2. second \in Nat /\ began \in Int /\ ShownLate \in Nat /\ Settle \in Nat /\ ReadTime \in Nat
        /\ ShownLate + ReadTime <= Settle
    BY <1>0, MoyBounds DEF MoyShapes
  <2>3. doing \in {"read", "write"} => EditedSince(x)'
    BY <1>0, <1>1, <1>7, <2>1, <2>2 DEF EditedSince, RunIsYoung
  <2>4. ASSUME NEW q \in Stored PROVE kept[q].updated <= order'[x].updated + Settle
    <3>1. q \in Orders
      BY DEF Stored
    <3>2. kept[q].updated \in Int /\ order[q].updated \in Nat /\ kept[q].updated <= order[q].updated
          /\ order[q].updated <= second
      BY <1>0, <3>1, OrderTypes
    <3> QED
      BY <1>7, <2>1, <2>2, <3>2
  <2> QED
    BY <2>3, <2>4
\* What keeps its date and content is where it was.
<1>8. ASSUME x \in Live', x \notin slid', ~(second - ShownLate <= new.updated)
      PROVE  /\ x \in Live \ slid /\ order'[x].updated = order[x].updated /\ order'[x].content = order[x].content
             /\ InSecond(x)' = InSecond(x)
  <2>1. order'[x] = new
    BY <1>1, <1>2
  <2>2. new.content = order[x].content /\ new.updated = order[x].updated /\ x \in Live /\ slid' = slid
    BY <1>8, <2>1 DEF Moves, Live
  <2>3. new.place = "live" /\ order[x].place = "live"
    BY <1>8, <2>1, <2>2 DEF Live
  <2>4. Live' = Live
    BY <1>1, <1>2, <2>3 DEF Live
  <2>5. \A o \in Orders : order'[o].updated = order[o].updated
    BY <1>2, <2>2
  <2>6. InSecond(x)' = InSecond(x)
    BY <1>1, <2>4, <2>5 DEF InSecond, Live
  <2> QED
    BY <1>8, <2>1, <2>2, <2>6
<1>9. ReadIsWhole'
  <2> SUFFICES ASSUME doing = "read", NEW o \in Live', o \notin slid'
               PROVE  AsIs(o)' \/ EditedSince(o)' \/ Ahead(o)'
    BY <1>1 DEF ReadIsWhole
  <2>1. CASE o = x
    <3>1. CASE second - ShownLate <= new.updated
      BY <1>7, <2>1, <3>1
    <3>2. CASE ~(second - ShownLate <= new.updated)
      <4>1. AsIs(x) \/ EditedSince(x) \/ Ahead(x)
        BY <1>8, <2>1, <3>2 DEF MoyInv, ReadIsWhole
      <4> QED
        BY <1>1, <1>8, <2>1, <3>2, <4>1 DEF AsIs, EditedSince, Ahead
    <3> QED
      BY <3>1, <3>2
  <2>2. CASE o # x
    <3>1. o \in Live \ slid /\ order'[o] = order[o]
      BY <1>5, <2>2
    <3>2. AsIs(o) \/ EditedSince(o) \/ Ahead(o)
      BY <3>1 DEF MoyInv, ReadIsWhole
    <3>3. CASE AsIs(o) \/ EditedSince(o)
      BY <1>1, <3>1, <3>3 DEF AsIs, EditedSince
    <3>4. CASE Ahead(o)
      <4>1. order[o].updated >= since /\ Cardinality(InSecond(o)) >= offset /\ offset \in Nat
        BY <1>0, <3>4 DEF Ahead, MoyShapes
      <4>2. CASE x \in InSecond(o) => x \in InSecond(o)'
        <5>1. Cardinality(InSecond(o)') >= offset
          BY <1>6, <2>2, <4>1, <4>2
        <5> QED
          BY <1>1, <3>1, <4>1, <5>1 DEF Ahead
      <4>3. CASE x \in InSecond(o) /\ x \notin InSecond(o)' /\ offset > 0
        <5>1. AsIs(o)
          BY <1>5, <2>2, <4>1, <4>3 DEF Steps
        <5> QED
          BY <1>1, <3>1, <5>1 DEF AsIs
      <4>4. CASE offset = 0
        <5>1. Cardinality(InSecond(o)') \in Nat
          <6>1. InSecond(o)' \subseteq Orders
            BY DEF InSecond, Live
          <6> QED
            BY <6>1, FewOrders
        <5> QED
          BY <1>1, <3>1, <4>1, <4>4, <5>1 DEF Ahead
      <4> QED
        BY <4>1, <4>2, <4>3, <4>4
    <3> QED
      BY <3>2, <3>3, <3>4
  <2> QED
    BY <2>1, <2>2
<1>10. WriteIsWhole'
  <2> SUFFICES ASSUME doing = "write", NEW o \in Live', o \notin slid'
               PROVE  \/ EditedSince(o)'
                      \/ IF o \in DOMAIN inHand THEN inHand[o].content = order'[o].content
                                                ELSE AsIs(o)' \/ AfterPage(o)'
    BY <1>1 DEF WriteIsWhole
  <2>0. IsFull' = IsFull /\ LastRead' = LastRead
    BY <1>1 DEF IsFull, LastRead
  <2>1. CASE o = x
    <3>1. CASE second - ShownLate <= new.updated
      BY <1>7, <2>1, <3>1
    <3>2. CASE ~(second - ShownLate <= new.updated)
      <4>1. \/ EditedSince(x)
            \/ IF x \in DOMAIN inHand THEN inHand[x].content = order[x].content
                                      ELSE AsIs(x) \/ AfterPage(x)
        BY <1>8, <2>1, <3>2 DEF MoyInv, WriteIsWhole
      <4> QED
        BY <1>1, <1>8, <2>0, <2>1, <3>2, <4>1 DEF AsIs, EditedSince, AfterPage
    <3> QED
      BY <3>1, <3>2
  <2>2. CASE o # x
    <3>1. o \in Live \ slid /\ order'[o] = order[o]
      BY <1>5, <2>2
    <3>2. \/ EditedSince(o)
          \/ IF o \in DOMAIN inHand THEN inHand[o].content = order[o].content
                                    ELSE AsIs(o) \/ AfterPage(o)
      BY <3>1 DEF MoyInv, WriteIsWhole
    <3>3. CASE EditedSince(o)
      BY <1>1, <3>1, <3>3 DEF EditedSince
    <3>4. CASE o \in DOMAIN inHand
      BY <1>1, <3>1, <3>2, <3>4 DEF EditedSince
    <3>5. CASE o \notin DOMAIN inHand /\ AsIs(o)
      BY <1>1, <3>1, <3>5 DEF AsIs
    <3>6. CASE o \notin DOMAIN inHand /\ AfterPage(o)
      <4>1. IsFull /\ LastRead <= order[o].updated
            /\ (LastRead = since => Cardinality(InSecond(o)) >= offset + RowPage)
        BY <3>6 DEF AfterPage
      <4>2. CASE LastRead # since
        BY <1>1, <2>0, <3>1, <3>6, <4>1, <4>2 DEF AfterPage
      <4>3. CASE LastRead = since /\ (x \in InSecond(o) => x \in InSecond(o)')
        <5>1. Cardinality(InSecond(o)') >= offset + RowPage
          <6>1. offset + RowPage \in Nat
            BY <1>0, MoyBounds DEF MoyShapes
          <6> QED
            BY <1>6, <2>2, <4>1, <4>3, <6>1
        <5> QED
          BY <1>1, <2>0, <3>1, <3>6, <4>1, <5>1 DEF AfterPage
      <4>4. CASE LastRead = since /\ x \in InSecond(o) /\ x \notin InSecond(o)'
        <5>1. Steps /\ order[o].updated >= since
          <6>1. order[o].updated \in Nat /\ since \in Int
            BY <1>0, <3>1, OrderTypes DEF Live
          <6> QED
            BY <4>1, <4>4, <6>1 DEF Steps
        <5>2. AsIs(o)
          BY <1>5, <2>2, <4>4, <5>1
        <5> QED
          BY <1>1, <3>1, <3>6, <5>2 DEF AsIs
      <4> QED
        BY <4>2, <4>3, <4>4
    <3> QED
      BY <3>2, <3>3, <3>4, <3>5, <3>6
  <2> QED
    BY <2>1, <2>2
<1>11. NextIsWhole'
  <2> SUFFICES ASSUME doing \notin {"read", "write"}, NEW o \in Live', o \notin slid', NEW q \in Stored
               PROVE  AsIs(o)' \/ kept[q].updated <= order'[o].updated + Settle
    BY <1>1, <1>2 DEF NextIsWhole
  <2>1. CASE o = x /\ second - ShownLate <= new.updated
    BY <1>7, <2>1
  <2>2. CASE o = x /\ ~(second - ShownLate <= new.updated)
    <3>1. AsIs(x) \/ kept[q].updated <= order[x].updated + Settle
      BY <1>8, <2>2 DEF MoyInv, NextIsWhole
    <3> QED
      BY <1>1, <1>8, <2>2, <3>1 DEF AsIs
  <2>3. CASE o # x
    <3>1. o \in Live \ slid /\ order'[o] = order[o]
      BY <1>5, <2>3
    <3>2. AsIs(o) \/ kept[q].updated <= order[o].updated + Settle
      BY <3>1 DEF MoyInv, NextIsWhole
    <3> QED
      BY <1>1, <3>1, <3>2 DEF AsIs
  <2> QED
    BY <2>1, <2>2, <2>3
<1> QED
  BY <1>3, <1>9, <1>10, <1>11

LEMMA OwedOrders ==
  ASSUME MoyShapes, OwedAreAhead, NEW o \in owed
  PROVE  /\ o \in Orders /\ o \in Live /\ o \in Stored /\ o \in Priced /\ IsPriced(o) /\ doing = "paying"
         /\ kept[o].paid < order[o].paid /\ kept[o].paid \in Int /\ order[o].paid \in Nat
         /\ Cardinality(PricedBefore(o)) >= offset /\ Cardinality(PricedBefore(o)) \in Nat /\ offset \in Nat
         /\ PricedBefore(o) \subseteq Orders
<1>1. o \in Priced /\ o \in Stored /\ kept[o].paid < order[o].paid /\ Cardinality(PricedBefore(o)) >= offset
      /\ doing = "paying"
  BY DEF OwedAreAhead
<1>2. o \in Orders /\ o \in Live /\ IsPriced(o)
  BY <1>1 DEF Priced, Live
<1>3. PricedBefore(o) \subseteq Orders
  BY DEF PricedBefore, Priced, Live
<1> QED
  BY <1>1, <1>2, <1>3, OrderTypes, FewOrders

\* An order that stays keeps what is owed for it, and for the others.
LEMMA MoveOwes ==
  ASSUME MoyInv, NEW x, NEW new, Moves(x, new), new.place = "live", owed' = owed
  PROVE  OwedAreAhead'
<1>0. MoyShapes /\ OwedAreAhead
  BY DEF MoyInv
<1>1. /\ x \in Orders /\ kept' = kept /\ doing' = doing /\ offset' = offset /\ runs' = runs
  BY DEF Moves, run
<1>2. Stored' = Stored /\ \A o \in Orders : order'[o] = IF o = x THEN new ELSE order[o]
  BY <1>0, MoveShapes
<1>3. Live \subseteq Live' /\ Live' \subseteq Orders
  BY <1>2 DEF Live
<1>4. \A o : IsPriced(o)' = IsPriced(o)
  BY <1>1 DEF IsPriced, IsSweep
<1>5. Priced \subseteq Priced' /\ Priced' \subseteq Orders
  BY <1>3, <1>4 DEF Priced
<1>6. ASSUME NEW o \in owed
      PROVE  /\ o \in Priced' \cap Stored' /\ kept[o].paid < order'[o].paid
             /\ Cardinality(PricedBefore(o)') >= offset
  <2>1. /\ o \in Orders /\ o \in Live /\ o \in Stored /\ o \in Priced
        /\ kept[o].paid < order[o].paid /\ kept[o].paid \in Int /\ order[o].paid \in Nat
        /\ Cardinality(PricedBefore(o)) >= offset /\ Cardinality(PricedBefore(o)) \in Nat /\ offset \in Nat
    BY <1>0, OwedOrders
  <2>2. new.paid \in Nat /\ order[x].paid <= new.paid
    BY DEF Moves, OrderRow
  <2>3. kept[o].paid < order'[o].paid
    BY <1>2, <2>1, <2>2
  <2>4. PricedBefore(o) \subseteq PricedBefore(o)' /\ PricedBefore(o)' \subseteq Orders
    BY <1>5 DEF PricedBefore
  <2>5. Cardinality(PricedBefore(o)) <= Cardinality(PricedBefore(o)') /\ Cardinality(PricedBefore(o)') \in Nat
    BY <2>4, MoreOrders
  <2>6. Cardinality(PricedBefore(o)') >= offset
    BY <2>1, <2>5
  <2> QED
    BY <1>2, <1>5, <2>1, <2>3, <2>6
<1> QED
  BY <1>0, <1>1, <1>6 DEF OwedAreAhead

LEMMA MoyPlaceOrder == MoyInv /\ PlaceOrder => MoyInv'
<1> SUFFICES ASSUME MoyInv, PlaceOrder PROVE MoyInv'
  OBVIOUS
<1>0. MoyShapes
  BY DEF MoyInv
<1>1. PICK x \in Orders : order[x].place = "none" /\ Updates(x)
  BY DEF PlaceOrder
<1>2. PICK u \in (second - ShownLate)..second :
        /\ u >= order[x].updated
        /\ order' = [order EXCEPT ![x] = [place |-> "live", updated |-> u, content |-> @.content + 1,
                                          paid |-> @.paid]]
  BY <1>1 DEF Updates
<1> DEFINE new == [place |-> "live", updated |-> u, content |-> order[x].content + 1, paid |-> order[x].paid]
<1>3. second \in Nat /\ ShownLate \in Nat /\ order[x] \in OrderRow /\ order[x].updated \in Nat
      /\ order[x].content \in Nat /\ order[x].paid \in Nat
  BY <1>0, <1>1, MoyBounds, OrderTypes
<1>4. u \in Nat /\ u <= second /\ second - ShownLate <= u /\ order[x].updated <= u
  BY <1>2, <1>3
<1>5. new \in OrderRow /\ new.place = "live" /\ new.updated = u /\ new.paid = order[x].paid
  <2>1. order[x].content + 1 \in Nat
    BY <1>3
  <2> QED
    BY <1>3, <1>4, <2>1 DEF OrderRow
<1>6. order' = [order EXCEPT ![x] = new]
  BY <1>2
<1>7. x \notin Live /\ slid' = slid /\ owed' = owed /\ UNCHANGED <<second, kept, runs, doing, run>>
  BY <1>1 DEF PlaceOrder, Live
<1> HIDE DEF new
<1>8. \A o : x \notin InSecond(o)
  BY <1>7 DEF InSecond
<1>9. order[x].paid <= new.paid
  BY <1>3, <1>5
<1>10. Moves(x, new)
  BY <1>1, <1>4, <1>5, <1>6, <1>7, <1>8, <1>9 DEF Moves
<1> QED
  BY <1>0, <1>5, <1>7, <1>10, MoveShapes, MoveKeeps, MoveOwes DEF MoyInv

LEMMA LeavesFacts ==
  ASSUME MoyShapes, NEW x \in Live, Leaves(x)
  PROVE  \A o \in Live \ {x} : o \notin slid' =>
           /\ o \notin slid
           /\ Steps /\ order[o].updated >= since /\ x \in InSecond(o) => kept[o] = RowOf(o)
<1> SUFFICES ASSUME NEW o \in Live \ {x}, o \notin slid'
             PROVE  /\ o \notin slid
                    /\ Steps /\ order[o].updated >= since /\ x \in InSecond(o) => kept[o] = RowOf(o)
  OBVIOUS
<1>1. o \notin slid
  BY DEF Leaves
<1>2. ASSUME Steps, order[o].updated >= since, x \in InSecond(o) PROVE kept[o] = RowOf(o)
  <2>1. order[x].updated = since /\ (order[o].updated > since \/ x < o)
    BY <1>2 DEF InSecond
  <2>2. order[o].updated \in Nat /\ since \in Int
    BY OrderTypes DEF Live
  <2>3. ByUpdate(x, o)
    <3>1. CASE order[o].updated > since
      BY <2>1, <2>2, <3>1 DEF ByUpdate
    <3>2. CASE ~(order[o].updated > since)
      <4>1. order[o].updated = since /\ x < o
        BY <1>2, <2>1, <2>2, <3>2
      <4> QED
        BY <2>1, <4>1 DEF ByUpdate
    <3> QED
      BY <3>1, <3>2
  <2> QED
    BY <1>2, <2>1, <2>3 DEF Leaves
<1> QED
  BY <1>1, <1>2

LEMMA MoyEditOrder == MoyInv /\ EditOrder => MoyInv'
<1> SUFFICES ASSUME MoyInv, EditOrder PROVE MoyInv'
  OBVIOUS
<1>0. MoyShapes
  BY DEF MoyInv
<1>1. PICK x \in Live : Updates(x) /\ Leaves(x)
  BY DEF EditOrder
<1>2. PICK u \in (second - ShownLate)..second :
        /\ u >= order[x].updated
        /\ order' = [order EXCEPT ![x] = [place |-> "live", updated |-> u, content |-> @.content + 1,
                                          paid |-> @.paid]]
  BY <1>1 DEF Updates
<1> DEFINE new == [place |-> "live", updated |-> u, content |-> order[x].content + 1, paid |-> order[x].paid]
<1>3. x \in Orders /\ second \in Nat /\ ShownLate \in Nat /\ order[x] \in OrderRow /\ order[x].updated \in Nat
      /\ order[x].content \in Nat /\ order[x].paid \in Nat
  BY <1>0, <1>1, MoyBounds, OrderTypes DEF Live
<1>4. u \in Nat /\ u <= second /\ second - ShownLate <= u /\ order[x].updated <= u
  <2>1. u \in (second - ShownLate)..second /\ u >= order[x].updated
    BY <1>2
  <2> QED
    BY <1>3, <2>1
<1>5. new \in OrderRow /\ new.place = "live" /\ new.updated = u /\ new.paid = order[x].paid
  <2>1. order[x].content + 1 \in Nat
    BY <1>3
  <2> QED
    BY <1>3, <1>4, <2>1 DEF OrderRow
<1>6. order' = [order EXCEPT ![x] = new]
  BY <1>2
<1>7. owed' = owed /\ UNCHANGED <<second, kept, runs, doing, run>>
  BY DEF EditOrder
<1> HIDE DEF new
<1>8. \A o \in Live \ {x} : o \notin slid' =>
           /\ o \notin slid
           /\ Steps /\ order[o].updated >= since /\ x \in InSecond(o) => kept[o] = RowOf(o)
  BY <1>0, <1>1, LeavesFacts
<1>9. order[x].paid <= new.paid
  BY <1>3, <1>5
<1>10. Moves(x, new)
  BY <1>3, <1>4, <1>5, <1>6, <1>7, <1>8, <1>9 DEF Moves
<1> QED
  BY <1>0, <1>5, <1>7, <1>10, MoveShapes, MoveKeeps, MoveOwes DEF MoyInv

LEMMA MoyBookPayment == MoyInv /\ BookPayment => MoyInv'
<1> SUFFICES ASSUME MoyInv, BookPayment PROVE MoyInv'
  OBVIOUS
<1>0. MoyShapes
  BY DEF MoyInv
<1>1. PICK x \in Live : order' = [order EXCEPT ![x].paid = @ + 1]
  BY DEF BookPayment
<1> DEFINE new == [order[x] EXCEPT !.paid = order[x].paid + 1]
<1>3. x \in Orders /\ order[x].place = "live" /\ order[x] \in OrderRow /\ order[x].updated \in Nat
      /\ order[x].content \in Nat /\ order[x].paid \in Nat /\ order[x].updated <= second
  BY <1>0, <1>1, OrderTypes DEF Live
<1>5. /\ new \in OrderRow /\ new.place = "live" /\ new.updated = order[x].updated
      /\ new.paid = order[x].paid + 1 /\ new.content = order[x].content
  BY <1>3 DEF OrderRow
<1>6. order' = [order EXCEPT ![x] = new]
  BY <1>1, <1>3 DEF MoyShapes, OrderRow
<1>7. owed' = owed /\ slid' = slid /\ UNCHANGED <<second, kept, runs, doing, run>>
  BY DEF BookPayment
<1> HIDE DEF new
<1>8. \A o \in Live \ {x} : x \in InSecond(o) => x \in InSecond(o)'
  <2> SUFFICES ASSUME NEW o \in Live \ {x}, x \in InSecond(o) PROVE x \in InSecond(o)'
    OBVIOUS
  <2>1. order'[o] = order[o] /\ order'[x] = new /\ o \in Orders
    BY <1>0, <1>3, <1>6 DEF MoyShapes, Live
  <2>2. since' = since
    BY <1>7 DEF run
  <2> QED
    BY <1>3, <1>5, <2>1, <2>2 DEF InSecond, Live
<1>9. order[x].paid <= new.paid /\ order[x].updated <= new.updated /\ new.updated <= second
  BY <1>3, <1>5
<1>10. Moves(x, new)
  BY <1>1, <1>3, <1>5, <1>6, <1>7, <1>8, <1>9 DEF Moves
<1> QED
  BY <1>0, <1>5, <1>7, <1>10, MoveShapes, MoveKeeps, MoveOwes DEF MoyInv

LEMMA MoyBinOrder == MoyInv /\ BinOrder => MoyInv'
<1> SUFFICES ASSUME MoyInv, BinOrder PROVE MoyInv'
  OBVIOUS
<1>0. MoyShapes /\ OwedAreAhead
  BY DEF MoyInv
<1>1. PICK x \in Live : /\ order' = [order EXCEPT ![x].place = "bin"] /\ Leaves(x)
                        /\ owed' = {p \in owed \ {x} : p < x \/ ~Passed(x)}
  BY DEF BinOrder
<1> DEFINE new == [order[x] EXCEPT !.place = "bin"]
<1>3. x \in Orders /\ order[x].place = "live" /\ order[x] \in OrderRow /\ order[x].updated \in Nat
      /\ order[x].content \in Nat /\ order[x].paid \in Nat /\ order[x].updated <= second /\ offset \in Nat
  BY <1>0, <1>1, OrderTypes DEF Live
<1>5. /\ new \in OrderRow /\ new.place = "bin" /\ new.updated = order[x].updated /\ new.paid = order[x].paid
  BY <1>3 DEF OrderRow
<1>6. order' = [order EXCEPT ![x] = new]
  BY <1>1, <1>3 DEF MoyShapes, OrderRow
<1>7. UNCHANGED <<second, kept, runs, doing, run>>
  BY DEF BinOrder
<1> HIDE DEF new
<1>8. \A o \in Live \ {x} : o \notin slid' =>
           /\ o \notin slid
           /\ Steps /\ order[o].updated >= since /\ x \in InSecond(o) => kept[o] = RowOf(o)
  BY <1>0, <1>1, LeavesFacts
<1>9. order[x].paid <= new.paid /\ order[x].updated <= new.updated /\ new.updated <= second
  BY <1>3, <1>5
<1>10. Moves(x, new)
  BY <1>3, <1>5, <1>6, <1>7, <1>8, <1>9 DEF Moves
<1>11. Stored' = Stored /\ \A o \in Orders : order'[o] = IF o = x THEN new ELSE order[o]
  BY <1>0, <1>10, MoveShapes
<1>12. \A o : IsPriced(o)' = IsPriced(o)
  BY <1>7 DEF IsPriced, IsSweep
<1>13. Priced' = Priced \ {x}
  BY <1>3, <1>5, <1>11, <1>12 DEF Priced, Live
<1>14. ASSUME NEW o \in owed'
       PROVE  /\ o \in Priced' \cap Stored' /\ kept[o].paid < order'[o].paid
              /\ Cardinality(PricedBefore(o)') >= offset
  <2>1. o \in owed /\ o # x /\ (o < x \/ ~Passed(x))
    BY <1>1
  <2>2. /\ o \in Orders /\ o \in Live /\ o \in Stored /\ o \in Priced /\ kept[o].paid < order[o].paid
        /\ Cardinality(PricedBefore(o)) >= offset /\ PricedBefore(o) \subseteq Orders
    BY <1>0, <2>1, OwedOrders
  <2>3. PricedBefore(o)' = PricedBefore(o) \ {x}
    BY <1>13 DEF PricedBefore
  <2>4. CASE o < x
    <3>1. x \in Nat /\ o \in Nat
      BY <1>3, <2>2, MoyBounds
    <3>2. PricedBefore(o)' = PricedBefore(o)
      BY <2>3, <2>4, <3>1 DEF PricedBefore
    <3> QED
      BY <1>11, <1>13, <2>1, <2>2, <3>2
  <2>5. CASE ~(o < x)
    <3>0. x \in Nat /\ o \in Nat
      BY <1>3, <2>2, MoyBounds
    <3>1. x \in Nat /\ o \in Nat /\ x < o
      BY <2>1, <2>5, <3>0
    <3>2. PricedBefore(x) \subseteq PricedBefore(o)' /\ PricedBefore(o)' \subseteq Orders
      <4>1. \A p \in PricedBefore(x) : p \in Nat /\ p < x /\ p \in Priced
        BY MoyBounds DEF PricedBefore, Priced, Live
      <4>2. \A p \in PricedBefore(x) : p < o /\ p # x
        BY <3>1, <4>1
      <4>3. PricedBefore(x) \subseteq PricedBefore(o)'
        BY <2>3, <4>1, <4>2 DEF PricedBefore
      <4> QED
        BY <2>2, <2>3, <4>3
    <3>3. Cardinality(PricedBefore(x)) >= offset
      <4>1. PricedBefore(x) = {p \in Live : IsPriced(p) /\ p < x}
        BY DEF PricedBefore, Priced
      <4>2. ~(Cardinality(PricedBefore(x)) < offset)
        BY <2>1, <2>5, <4>1 DEF Passed
      <4>3. PricedBefore(x) \subseteq Orders
        BY DEF PricedBefore, Priced, Live
      <4> QED
        BY <1>3, <4>2, <4>3, FewOrders
    <3>4. Cardinality(PricedBefore(o)') >= offset
      BY <1>3, <3>2, <3>3, MoreOrders
    <3> QED
      BY <1>11, <1>13, <2>1, <2>2, <3>4
  <2> QED
    BY <2>4, <2>5
<1>15. OwedAreAhead'
  <2>1. doing # "paying" => owed' = {}
    BY <1>0, <1>1 DEF OwedAreAhead
  <2> QED
    BY <1>7, <1>14, <2>1 DEF OwedAreAhead, run
<1> QED
  BY <1>0, <1>10, <1>15, MoveShapes, MoveKeeps DEF MoyInv

LEMMA MoyNextSecond == MoyInv /\ NextSecond => MoyInv'
<1> SUFFICES ASSUME MoyInv, NextSecond PROVE MoyInv'
  OBVIOUS
<1>0. MoyShapes /\ RunIsYoung /\ second \in Nat
  BY DEF MoyInv, MoyShapes
<1>1. /\ second' = second + 1 /\ (doing \in {"read", "write"} => second < began + ReadTime)
      /\ order' = order /\ kept' = kept /\ runs' = runs /\ doing' = doing /\ slid' = slid /\ owed' = owed
      /\ began' = began /\ since' = since /\ offset' = offset /\ inHand' = inHand
  BY DEF NextSecond, run
<1>2. Stored' = Stored /\ Live' = Live /\ IsFull' = IsFull /\ LastRead' = LastRead /\ Priced' = Priced
  BY <1>1 DEF Stored, Live, IsFull, LastRead, Priced, IsPriced, IsSweep
<1>3. \A o : InSecond(o)' = InSecond(o) /\ PricedBefore(o)' = PricedBefore(o)
  BY <1>1, <1>2 DEF InSecond, PricedBefore
<1>4. MoyShapes'
  <2>1. \A o \in Orders : order[o].updated <= second + 1
    <3>1. \A o \in Orders : order[o].updated \in Nat /\ order[o].updated <= second
      BY <1>0, OrderTypes
    <3> QED
      BY <1>0, <3>1
  <2> QED
    BY <1>0, <1>1, <1>2, <2>1 DEF MoyShapes, IsEarlier
<1>5. RunIsYoung'
  <2>1. began \in Int /\ ReadTime \in Nat
    BY <1>0, MoyBounds DEF MoyShapes
  <2> QED
    BY <1>0, <1>1, <1>2, <2>1 DEF RunIsYoung
<1>6. ReadIsWhole'
  BY <1>1, <1>2, <1>3 DEF MoyInv, ReadIsWhole, AsIs, EditedSince, Ahead
<1>7. WriteIsWhole'
  BY <1>1, <1>2, <1>3 DEF MoyInv, WriteIsWhole, AsIs, EditedSince, AfterPage
<1>8. NextIsWhole'
  BY <1>1, <1>2 DEF MoyInv, NextIsWhole, AsIs
<1>9. OwedAreAhead'
  BY <1>1, <1>2, <1>3 DEF MoyInv, OwedAreAhead
<1> QED
  BY <1>4, <1>5, <1>6, <1>7, <1>8, <1>9 DEF MoyInv

LEMMA MoyBeginRun == MoyInv /\ BeginRun => MoyInv'
<1> SUFFICES ASSUME MoyInv, BeginRun PROVE MoyInv'
  OBVIOUS
<1>0. MoyShapes /\ second \in Nat
  BY DEF MoyInv, MoyShapes
<1>1. /\ doing = "idle" /\ doing' = "read" /\ began' = second /\ second' = second /\ order' = order /\ kept' = kept
      /\ offset' = offset /\ inHand' = inHand /\ slid' = slid /\ owed' = owed
      /\ since' \in IF Stored = {} THEN {Ever} ELSE {n - Settle : n \in Newest}
  BY DEF BeginRun, warehouse
<1>2. offset = 0 /\ DOMAIN inHand = {} /\ owed = {}
  BY <1>0, <1>1 DEF MoyInv, MoyShapes, OwedAreAhead
<1>3. Stored' = Stored /\ Live' = Live
  BY <1>1 DEF Stored, Live
<1>4. Settle \in Nat /\ ReadTime \in Nat
  BY MoyBounds
<1>5. ASSUME Stored = {}
      PROVE  /\ since' \in Int /\ \A q \in Stored : kept[q].updated <= since' + Settle
             /\ \A o \in Live \ slid : AsIs(o) \/ order[o].updated >= since'
  <2>1. since' = -Settle - 1
    BY <1>1, <1>5 DEF Ever
  <2>2. ASSUME NEW o \in Live PROVE order[o].updated >= since'
    <3>1. order[o].updated \in Nat
      BY <1>0, OrderTypes DEF Live
    <3> QED
      BY <1>4, <2>1, <3>1
  <2>3. since' \in Int
    BY <1>4, <2>1
  <2> QED
    BY <1>5, <2>2, <2>3
<1>6. ASSUME Stored # {}
      PROVE  /\ since' \in Int /\ \A q \in Stored : kept[q].updated <= since' + Settle
             /\ \A o \in Live \ slid : AsIs(o) \/ order[o].updated >= since'
  <2>1. PICK n \in Newest : since' = n - Settle
    BY <1>1, <1>6
  <2>2. PICK p \in Stored : n = kept[p].updated /\ \A q \in Stored : kept[q].updated <= kept[p].updated
    BY DEF Newest
  <2>3. p \in Orders /\ n \in Int
    BY <1>0, <2>2, OrderTypes DEF Stored
  <2>4. \A q \in Stored : kept[q].updated <= since' + Settle
    <3> SUFFICES ASSUME NEW q \in Stored PROVE kept[q].updated <= since' + Settle
      OBVIOUS
    <3>1. kept[q].updated \in Int /\ kept[q].updated <= n
      BY <1>0, <2>2, OrderTypes DEF Stored
    <3> QED
      BY <1>4, <2>1, <2>3, <3>1
  <2>5. ASSUME NEW o \in Live \ slid PROVE AsIs(o) \/ order[o].updated >= since'
    <3>1. order[o].updated \in Nat
      BY <1>0, OrderTypes DEF Live
    <3>2. AsIs(o) \/ n <= order[o].updated + Settle
      BY <1>1, <2>2 DEF MoyInv, NextIsWhole
    <3> QED
      BY <1>4, <2>1, <2>3, <3>1, <3>2
  <2>6. since' \in Int
    BY <1>4, <2>1, <2>3
  <2> QED
    BY <2>4, <2>5, <2>6
<1>7. /\ since' \in Int /\ \A q \in Stored : kept[q].updated <= since' + Settle
      /\ \A o \in Live \ slid : AsIs(o) \/ order[o].updated >= since'
  BY <1>5, <1>6
<1>8. MoyShapes'
  BY <1>0, <1>1, <1>2, <1>3, <1>7 DEF MoyShapes, IsEarlier
<1>9. RunIsYoung'
  BY <1>0, <1>1, <1>3, <1>4, <1>7 DEF RunIsYoung
<1>10. ReadIsWhole'
  <2> SUFFICES ASSUME NEW o \in Live \ slid PROVE AsIs(o)' \/ Ahead(o)'
    BY <1>1, <1>3 DEF ReadIsWhole
  <2>1. Cardinality(InSecond(o)') \in Nat
    <3>1. InSecond(o)' \subseteq Orders
      BY DEF InSecond, Live
    <3> QED
      BY <3>1, FewOrders
  <2> QED
    BY <1>1, <1>2, <1>7, <2>1 DEF AsIs, Ahead
<1> QED
  BY <1>1, <1>2, <1>8, <1>9, <1>10 DEF MoyInv, WriteIsWhole, NextIsWhole, OwedAreAhead

\* The orders asked for stand in the order of their dates.
LEMMA ChangedIsOrdered ==
  ASSUME MoyShapes, NEW C, C \subseteq Orders
  PROVE  IsOrdered(Changed(C), C)
<1> DEFINE list == Changed(C)
<1>1. \A o \in C : o \in Nat /\ order[o].updated \in Nat
  BY MoyBounds, OrderTypes
<1>2. DOMAIN list = C /\ \A o \in C : list[o] = {p \in C : ByUpdate(p, o)}
  BY DEF Changed
<1>3. \A o \in C : ~ByUpdate(o, o)
  BY <1>1 DEF ByUpdate
<1>4. \A o, p, q \in C : ByUpdate(q, p) /\ ByUpdate(p, o) => ByUpdate(q, o)
  BY <1>1 DEF ByUpdate
<1>5. \A o, p \in C : o = p \/ ByUpdate(p, o) \/ ByUpdate(o, p)
  BY <1>1 DEF ByUpdate
<1> HIDE DEF list
<1>6. IsOrdered(list, C)
  BY <1>2, <1>3, <1>4, <1>5 DEF IsOrdered
<1> QED
  BY <1>6 DEF list

LEMMA ListingIsOrdered ==
  ASSUME NEW C, C \subseteq Orders
  PROVE  IsOrdered(Listing(C), C)
<1> DEFINE list == Listing(C)
<1>1. \A o \in C : o \in Nat
  BY MoyBounds
<1>2. DOMAIN list = C /\ \A o \in C : list[o] = {p \in C : p < o}
  BY DEF Listing
<1> HIDE DEF list
<1>3. IsOrdered(list, C)
  BY <1>1, <1>2 DEF IsOrdered
<1> QED
  BY <1>3 DEF list

LEMMA MoyReadPage == MoyInv /\ ReadPage => MoyInv'
<1> SUFFICES ASSUME MoyInv, ReadPage PROVE MoyInv'
  OBVIOUS
<1> DEFINE C == {p \in Live : order[p].updated >= since}
           list == Changed(C)
           page == Page(list, offset, RowPage)
<1>0. /\ MoyShapes /\ second \in Nat /\ since \in Int /\ offset \in Nat /\ began \in Int
      /\ RowPage \in Nat \ {0} /\ C \subseteq Orders
  BY MoyBounds DEF MoyInv, MoyShapes, Live
<1>1. /\ doing = "read" /\ doing' = "write" /\ second' = second /\ order' = order /\ kept' = kept
      /\ began' = began /\ since' = since /\ offset' = offset /\ slid' = slid /\ owed' = owed
      /\ inHand' = [o \in page |-> RowOf(o)]
  BY DEF ReadPage, warehouse
<1>2. Stored' = Stored /\ Live' = Live
  BY <1>1 DEF Stored, Live
<1>3. IsOrdered(list, C) /\ IsFiniteSet(C)
  BY <1>0, ChangedIsOrdered, FewOrders
<1>4. DOMAIN list = C /\ \A o \in C : list[o] = {p \in C : ByUpdate(p, o)}
  BY DEF Changed
<1>5. page \subseteq C
  BY <1>4 DEF Page
<1>6. \A o \in C : /\ o \in Live /\ o \in Orders /\ o \in Nat /\ order[o].updated \in Nat
                   /\ order[o].updated <= second /\ order[o].updated >= since
                   /\ order[o].content \in Nat /\ order[o].paid \in Nat /\ order[o].place = "live"
  BY <1>0, MoyBounds, OrderTypes DEF Live
<1> HIDE DEF C, list, page
<1>7. DOMAIN inHand' = page /\ \A o \in page : inHand'[o] = RowOf(o)
  BY <1>1
<1>8. MoyShapes'
  <2>1. ASSUME NEW o \in page
        PROVE  /\ RowOf(o) \in KeptRow /\ since <= RowOf(o).updated /\ 0 <= RowOf(o).updated
               /\ RowOf(o).updated <= order'[o].updated /\ RowOf(o).paid <= order'[o].paid
               /\ order'[o].place # "none"
    BY <1>1, <1>5, <1>6 DEF RowOf, KeptRow, IsEarlier
  <2>2. \A o \in DOMAIN inHand' : inHand'[o] \in KeptRow /\ IsEarlier(inHand[o], o)' /\ since <= inHand'[o].updated
    BY <1>7, <2>1 DEF IsEarlier
  <2>3. DOMAIN inHand' \subseteq Orders
    BY <1>0, <1>5, <1>7
  <2> QED
    BY <1>0, <1>1, <1>2, <2>2, <2>3 DEF MoyShapes, IsEarlier
<1>9. RunIsYoung'
  BY <1>1, <1>2 DEF MoyInv, RunIsYoung
<1>10. ASSUME NEW o \in Live, Ahead(o), o \notin page
       PROVE  AfterPage(o)'
  <2>1. order[o].updated >= since /\ Cardinality(InSecond(o)) >= offset /\ o \in C
    BY <1>10 DEF Ahead, C
  <2>2. ASSUME NEW p \in InSecond(o) PROVE p \in list[o]
    <3>1. p \in Live /\ order[p].updated = since /\ (order[o].updated > since \/ p < o)
      BY DEF InSecond
    <3>2. p \in C
      BY <1>0, <3>1 DEF C
    <3>3. ByUpdate(p, o)
      BY <1>0, <1>6, <2>1, <3>1 DEF ByUpdate
    <3> QED
      BY <1>4, <2>1, <3>2, <3>3
  <2>3. Cardinality(list[o]) >= offset
    <3>1. InSecond(o) \subseteq list[o] /\ list[o] \subseteq Orders
      BY <1>0, <1>4, <2>1, <2>2
    <3> QED
      BY <1>0, <2>1, <3>1, MoreOrders
  <2>4. /\ Cardinality(page) = RowPage /\ page \subseteq list[o]
        /\ \E m \in page : Cardinality(list[m]) = offset + RowPage - 1
    BY <1>0, <1>3, <1>10, <2>1, <2>3, FullPage DEF page
  <2>5. PICK m \in page : Cardinality(list[m]) = offset + RowPage - 1
    BY <2>4
  <2>6. IsFull'
    BY <1>7, <2>4 DEF IsFull
  <2>7. LastRead' = LastOf(inHand')
    BY DEF LastRead, LastOf
  <2>8. \A p \in DOMAIN inHand' : inHand'[p].updated \in 0..second
    BY <1>5, <1>6, <1>7 DEF RowOf
  <2>9. DOMAIN inHand' # {}
    BY <1>7, <2>5
  <2>10. /\ LastRead' \in {inHand'[p].updated : p \in DOMAIN inHand'} /\ LastRead' \in Nat
         /\ \A p \in DOMAIN inHand' : inHand'[p].updated <= LastRead'
    BY <1>0, <2>7, <2>8, <2>9, LastOfFacts
  <2>11. LastRead' <= order[o].updated
    <3>1. PICK p \in page : LastRead' = order[p].updated
      BY <1>7, <2>10 DEF RowOf
    <3>2. p \in C /\ ByUpdate(p, o)
      BY <1>4, <2>1, <2>4
    <3> QED
      BY <1>6, <2>1, <3>1, <3>2 DEF ByUpdate
  <2>12. ASSUME LastRead' = since PROVE Cardinality(InSecond(o)) >= offset + RowPage
    <3>1. m \in C /\ m \in list[o] /\ order[m].updated <= since
      BY <1>5, <1>7, <2>4, <2>10, <2>12 DEF RowOf
    <3>2. order[m].updated = since
      BY <1>0, <1>6, <3>1
    <3>3. ASSUME NEW p \in list[m] PROVE p \in C /\ order[p].updated = since /\ p < m
      <4>1. p \in C /\ ByUpdate(p, m)
        BY <1>4, <3>1
      <4> QED
        BY <1>0, <1>6, <3>2, <4>1 DEF ByUpdate
    <3>4. order[o].updated > since \/ m < o
      <4>1. ByUpdate(m, o)
        BY <1>4, <2>1, <3>1
      <4> QED
        BY <3>2, <4>1 DEF ByUpdate
    <3>5. m \in InSecond(o)
      BY <1>6, <3>1, <3>2, <3>4 DEF InSecond
    <3>6. ASSUME NEW p \in list[m] PROVE p \in InSecond(o)
      <4>1. p \in Live /\ p \in Nat /\ m \in Nat /\ o \in Nat
        BY <1>6, <2>1, <3>1, <3>3
      <4>2. order[o].updated > since \/ p < o
        BY <3>3, <3>4, <4>1
      <4> QED
        BY <3>3, <4>1, <4>2 DEF InSecond
    <3>7. m \notin list[m] /\ list[m] \subseteq Orders
      BY <1>0, <1>3, <3>1 DEF IsOrdered
    <3>8. IsFiniteSet(list[m])
      BY <3>7, FewOrders
    <3>9. Cardinality(list[m] \cup {m}) = offset + RowPage
      <4>1. Cardinality(list[m] \cup {m}) = Cardinality(list[m]) + 1
        BY <3>7, <3>8, FS_AddElement
      <4> QED
        BY <1>0, <2>5, <4>1
    <3>10. list[m] \cup {m} \subseteq InSecond(o) /\ InSecond(o) \subseteq Orders
      BY <3>5, <3>6 DEF InSecond, Live
    <3> QED
      BY <1>0, <3>9, <3>10, MoreOrders
  <2>13. InSecond(o)' = InSecond(o)
    BY <1>1, <1>2 DEF InSecond
  <2> QED
    BY <1>1, <2>6, <2>11, <2>12, <2>13 DEF AfterPage
<1>11. WriteIsWhole'
  <2> SUFFICES ASSUME NEW o \in Live \ slid
               PROVE  \/ EditedSince(o)'
                      \/ IF o \in page THEN inHand'[o].content = order[o].content ELSE AsIs(o)' \/ AfterPage(o)'
    BY <1>1, <1>2, <1>7 DEF WriteIsWhole
  <2>1. AsIs(o) \/ EditedSince(o) \/ Ahead(o)
    BY <1>1 DEF MoyInv, ReadIsWhole
  <2>2. CASE o \in page
    BY <1>7, <2>2 DEF RowOf
  <2>3. CASE o \notin page /\ Ahead(o)
    BY <1>10, <2>3
  <2>4. CASE o \notin page /\ (AsIs(o) \/ EditedSince(o))
    BY <1>1, <2>4 DEF AsIs, EditedSince
  <2> QED
    BY <2>1, <2>2, <2>3, <2>4
<1>12. owed = {}
  BY <1>1 DEF MoyInv, OwedAreAhead
<1> QED
  BY <1>1, <1>8, <1>9, <1>11, <1>12 DEF MoyInv, ReadIsWhole, NextIsWhole, OwedAreAhead

\* What a written page leaves unstored was edited since the run began, or comes after it.
LEMMA WrittenFacts ==
  ASSUME MoyInv, WritePage
  PROVE  /\ kept' \in [Orders -> KeptRow] /\ Live' = Live
         /\ \A q \in Stored' : /\ q \in Orders /\ IsEarlier(kept'[q], q)
                               /\ q \in DOMAIN inHand \/ (q \in Stored /\ kept'[q] = kept[q])
                               /\ q \in DOMAIN inHand => kept'[q] = inHand[q]
         /\ \A o \in Live \ slid' : AsIs(o)' \/ EditedSince(o) \/ AfterPage(o)
<1>0. MoyShapes
  BY DEF MoyInv
<1>1. /\ doing = "write" /\ order' = order
      /\ kept' = [o \in Orders |-> IF o \in DOMAIN inHand THEN inHand[o] ELSE kept[o]]
      /\ slid' = {o \in slid : kept'[o] # RowOf(o)}
  BY DEF WritePage, warehouse
<1>2. Live' = Live
  BY <1>1 DEF Live
<1>3. \A o \in Orders : /\ o \in DOMAIN inHand => inHand[o] \in KeptRow /\ IsEarlier(inHand[o], o)
                        /\ kept[o] \in KeptRow /\ (o \in Stored => IsEarlier(kept[o], o))
  BY <1>0 DEF MoyShapes
<1>4. kept' \in [Orders -> KeptRow]
  BY <1>1, <1>3
<1>5. ASSUME NEW q \in Stored'
      PROVE  /\ q \in Orders /\ IsEarlier(kept'[q], q)
             /\ q \in DOMAIN inHand \/ (q \in Stored /\ kept'[q] = kept[q])
             /\ q \in DOMAIN inHand => kept'[q] = inHand[q]
  <2>1. q \in Orders /\ kept'[q] # NoRow
    BY <1>5 DEF Stored
  <2>2. kept'[q] = IF q \in DOMAIN inHand THEN inHand[q] ELSE kept[q]
    BY <1>1, <2>1
  <2>3. q \in DOMAIN inHand \/ q \in Stored
    BY <2>1, <2>2 DEF Stored
  <2> QED
    BY <1>3, <2>1, <2>2, <2>3
<1>6. ASSUME NEW o \in Live, o \notin slid' PROVE AsIs(o)' \/ EditedSince(o) \/ AfterPage(o)
  <2>0. o \in Orders
    BY DEF Live
  <2>1. CASE o \in slid
    <3>1. kept'[o] = RowOf(o)
      BY <1>1, <1>6, <2>1
    <3> QED
      BY <1>1, <3>1 DEF AsIs, RowOf
  <2>2. CASE o \notin slid
    <3>1. \/ EditedSince(o)
          \/ IF o \in DOMAIN inHand THEN inHand[o].content = order[o].content
                                    ELSE AsIs(o) \/ AfterPage(o)
      BY <1>1, <2>2 DEF MoyInv, WriteIsWhole
    <3>2. kept'[o] = IF o \in DOMAIN inHand THEN inHand[o] ELSE kept[o]
      BY <1>1, <2>0
    <3> QED
      BY <1>1, <3>1, <3>2 DEF AsIs
  <2> QED
    BY <2>1, <2>2
<1> QED
  BY <1>2, <1>4, <1>5, <1>6

LEMMA MoyWritePage == MoyInv /\ WritePage => MoyInv'
<1> SUFFICES ASSUME MoyInv, WritePage PROVE MoyInv'
  OBVIOUS
<1>0. /\ MoyShapes /\ RunIsYoung /\ second \in Nat /\ since \in Int /\ offset \in Nat /\ began \in Int
      /\ owed = {} /\ doing = "write"
  BY DEF WritePage, MoyInv, MoyShapes, OwedAreAhead
<1>1. /\ second' = second /\ order' = order /\ owed' = {} /\ inHand' = [o \in {} |-> NoRow]
  BY <1>0 DEF WritePage, warehouse
<1>2. /\ began <= second /\ second <= began + ReadTime
      /\ \A q \in Stored : kept[q].updated <= since + Settle
  BY <1>0 DEF RunIsYoung
<1>3. Settle \in Nat /\ ReadTime \in Nat /\ ShownLate \in Nat /\ ShownLate + ReadTime <= Settle
      /\ RowPage \in Nat
  BY MoyBounds
<1>4. /\ kept' \in [Orders -> KeptRow] /\ Live' = Live
      /\ \A q \in Stored' : /\ q \in Orders /\ IsEarlier(kept'[q], q)
                            /\ q \in DOMAIN inHand \/ (q \in Stored /\ kept'[q] = kept[q])
                            /\ q \in DOMAIN inHand => kept'[q] = inHand[q]
      /\ \A o \in Live \ slid' : AsIs(o)' \/ EditedSince(o) \/ AfterPage(o)
  BY WrittenFacts
<1>5. ASSUME NEW q \in Stored'
      PROVE  /\ kept'[q].updated \in Int /\ kept'[q].updated <= second
             /\ IsFull => kept'[q].updated <= LastRead + Settle
  <2>1. q \in Orders /\ kept'[q] \in KeptRow /\ kept'[q].updated <= order[q].updated
    BY <1>4 DEF IsEarlier
  <2>2. kept'[q].updated \in Int /\ order[q].updated \in Nat /\ order[q].updated <= second
    BY <1>0, <2>1, OrderTypes DEF KeptRow
  <2>3. ASSUME IsFull PROVE kept'[q].updated <= LastRead + Settle
    <3>1. LastRead \in Nat /\ LastRead >= since /\ \A o \in DOMAIN inHand : inHand[o].updated <= LastRead
      BY <1>0, <2>3, LastReadFacts
    <3>2. CASE q \in DOMAIN inHand
      <4>1. kept'[q].updated <= LastRead
        BY <1>4, <3>1, <3>2
      <4> QED
        BY <1>3, <2>2, <3>1, <4>1
    <3>3. CASE q \notin DOMAIN inHand
      <4>1. kept'[q].updated <= since + Settle
        BY <1>2, <1>4, <3>3
      <4> QED
        BY <1>0, <1>3, <2>2, <3>1, <4>1
    <3> QED
      BY <3>2, <3>3
  <2> QED
    BY <1>0, <2>1, <2>2, <2>3
<1>6. ASSUME NEW o \in Live \ slid', NEW q \in Stored'
      PROVE  AsIs(o)' \/ kept'[q].updated <= order[o].updated + Settle
  <2>1. order[o].updated \in Nat
    BY <1>0, OrderTypes DEF Live
  <2>2. CASE EditedSince(o)
    <3>1. order[o].updated >= began - ShownLate
      BY <2>2 DEF EditedSince
    <3>2. kept'[q].updated \in Int /\ kept'[q].updated <= second
      BY <1>5
    <3> QED
      BY <1>0, <1>2, <1>3, <2>1, <3>1, <3>2
  <2>3. CASE AfterPage(o)
    <3>1. IsFull /\ LastRead <= order[o].updated
      BY <2>3 DEF AfterPage
    <3>2. LastRead \in Nat /\ kept'[q].updated \in Int /\ kept'[q].updated <= LastRead + Settle
      BY <1>0, <1>5, <3>1, LastReadFacts
    <3> QED
      BY <1>3, <2>1, <3>1, <3>2
  <2> QED
    BY <1>4, <2>2, <2>3
<1>7. /\ doing' \in {"idle", "read", "list", "ask", "pay"}
      /\ offset' \in Nat /\ began' \in Int /\ since' \in Int /\ (doing' \in {"idle", "ask", "pay"} => offset' = 0)
  <2>1. CASE ~IsFull
    <3>1. doing' = (IF IsSweep THEN "list" ELSE "pay") /\ offset' = 0 /\ began' = began /\ since' = since
      BY <2>1 DEF WritePage
    <3> QED
      BY <1>0, <3>1
  <2>2. CASE IsFull /\ IsLastPage
    <3>1. doing' = "idle" /\ began' = 0 /\ since' = Ever /\ offset' = 0
      BY <2>2 DEF WritePage, EndsRun
    <3> QED
      BY <1>3, <3>1 DEF Ever
  <2>3. CASE IsFull /\ ~IsLastPage
    <3>1. doing' = "read" /\ began' = began /\ NextPage
      BY <2>3 DEF WritePage
    <3>2. LastRead \in Nat
      BY <1>0, <2>3, LastReadFacts
    <3> QED
      BY <1>0, <1>3, <3>1, <3>2 DEF NextPage
  <2> QED
    BY <2>1, <2>2, <2>3
<1>8. MoyShapes'
  <2>1. \A q \in Stored' : IsEarlier(kept[q], q)'
    BY <1>1, <1>4 DEF IsEarlier
  <2>2. DOMAIN inHand' = {}
    BY <1>1
  <2> QED
    BY <1>0, <1>1, <1>4, <1>7, <2>1, <2>2 DEF MoyShapes
<1>9. ASSUME doing' = "read"
      PROVE  RunIsYoung' /\ ReadIsWhole'
  <2>1. IsFull /\ ~IsLastPage
    BY <1>9 DEF WritePage, EndsRun
  <2>2. began' = began /\ NextPage
    BY <2>1 DEF WritePage
  <2>3. LastRead \in Nat /\ LastRead >= since
    BY <1>0, <2>1, LastReadFacts
  <2>4. since' = LastRead /\ offset' = IF LastRead > since THEN 0 ELSE offset + RowPage
    BY <1>0, <2>2, <2>3 DEF NextPage
  <2>5. RunIsYoung'
    BY <1>1, <1>2, <1>5, <2>1, <2>2, <2>4 DEF RunIsYoung
  <2>6. ASSUME NEW o \in Live, AfterPage(o) PROVE Ahead(o)'
    <3>1. LastRead <= order[o].updated /\ (LastRead = since => Cardinality(InSecond(o)) >= offset + RowPage)
      BY <2>6 DEF AfterPage
    <3>2. order[o].updated \in Nat
      BY <1>0, OrderTypes DEF Live
    <3>3. Cardinality(InSecond(o)') \in Nat
      <4>1. InSecond(o)' \subseteq Orders
        BY DEF InSecond, Live
      <4> QED
        BY <4>1, FewOrders
    <3>4. CASE LastRead > since
      BY <1>1, <2>3, <2>4, <3>1, <3>2, <3>3, <3>4 DEF Ahead
    <3>5. CASE ~(LastRead > since)
      <4>1. LastRead = since /\ since' = since
        BY <1>0, <2>3, <2>4, <3>5
      <4>2. InSecond(o)' = InSecond(o)
        BY <1>1, <1>4, <4>1 DEF InSecond
      <4> QED
        BY <1>1, <2>3, <2>4, <3>1, <3>2, <3>5, <4>1, <4>2 DEF Ahead
    <3> QED
      BY <3>4, <3>5
  <2>7. ReadIsWhole'
    <3> SUFFICES ASSUME NEW o \in Live \ slid' PROVE AsIs(o)' \/ EditedSince(o)' \/ Ahead(o)'
      BY <1>4 DEF ReadIsWhole
    <3>1. AsIs(o)' \/ EditedSince(o) \/ AfterPage(o)
      BY <1>4
    <3>2. EditedSince(o) => EditedSince(o)'
      BY <1>1, <2>2 DEF EditedSince
    <3> QED
      BY <2>6, <3>1, <3>2
  <2> QED
    BY <2>5, <2>7
<1>10. NextIsWhole'
  BY <1>1, <1>4, <1>6 DEF NextIsWhole
<1> QED
  BY <1>1, <1>7, <1>8, <1>9, <1>10 DEF MoyInv, RunIsYoung, ReadIsWhole, WriteIsWhole, OwedAreAhead

\* Outside the reading and the writing of orders, a step that changes no content.
LEMMA LaterKeeps ==
  ASSUME MoyInv, doing' \notin {"read", "write"}, UNCHANGED warehouse,
         kept' \in [Orders -> KeptRow], Stored' \subseteq Stored,
         \A q \in Stored' : kept'[q].updated = kept[q].updated /\ IsEarlier(kept'[q], q),
         \A o \in Live : kept'[o].content = kept[o].content,
         \A o \in Live \ slid' : o \notin slid \/ AsIs(o)',
         doing' \in {"idle", "list", "ask", "pay", "paying"}, DOMAIN inHand' = {},
         offset' \in Nat, began' \in Int, since' \in Int, doing' \in {"idle", "ask", "pay"} => offset' = 0,
         OwedAreAhead'
  PROVE  MoyInv'
<1>0. MoyShapes
  BY DEF MoyInv
<1>1. second' = second /\ order' = order /\ Live' = Live
  BY DEF warehouse, Live
<1>2. MoyShapes'
  <2>1. \A q \in Stored' : IsEarlier(kept[q], q)'
    BY <1>1 DEF IsEarlier
  <2> QED
    BY <1>0, <1>1, <2>1 DEF MoyShapes
<1>3. NextIsWhole'
  <2> SUFFICES ASSUME NEW o \in Live \ slid', NEW q \in Stored'
               PROVE  AsIs(o)' \/ kept'[q].updated <= order[o].updated + Settle
    BY <1>1 DEF NextIsWhole
  <2>1. CASE o \in slid
    BY <2>1
  <2>2. CASE o \notin slid
    <3>1. AsIs(o) \/ kept[q].updated <= order[o].updated + Settle
      <4>1. o \in Live \ slid /\ q \in Stored
        BY <2>2
      <4> QED
        BY <4>1, AnytimeWhole
    <3> QED
      BY <1>1, <3>1 DEF AsIs
  <2> QED
    BY <2>1, <2>2
<1> QED
  BY <1>2, <1>3 DEF MoyInv, RunIsYoung, ReadIsWhole, WriteIsWhole

\* A step that leaves the rows alone.
LEMMA RowsStay ==
  ASSUME MoyInv, doing' \notin {"read", "write"}, UNCHANGED <<warehouse, kept, slid>>,
         doing' \in {"idle", "list", "ask", "pay", "paying"}, DOMAIN inHand' = {},
         offset' \in Nat, began' \in Int, since' \in Int, doing' \in {"idle", "ask", "pay"} => offset' = 0,
         OwedAreAhead'
  PROVE  MoyInv'
<1>0. MoyShapes
  BY DEF MoyInv
<1>1. Stored' = Stored /\ kept' = kept /\ slid' = slid
  BY DEF Stored
<1>2. kept' \in [Orders -> KeptRow] /\ \A q \in Stored' : IsEarlier(kept'[q], q)
  BY <1>0, <1>1 DEF MoyShapes
<1>3. /\ Stored' \subseteq Stored
      /\ \A q \in Stored' : kept'[q].updated = kept[q].updated /\ IsEarlier(kept'[q], q)
      /\ \A o \in Live : kept'[o].content = kept[o].content
      /\ \A o \in Live \ slid' : o \notin slid \/ AsIs(o)'
  BY <1>1, <1>2
<1> QED
  BY <1>2, <1>3, LaterKeeps

LEMMA MoyEnds ==
  ASSUME MoyInv, EndsRun, UNCHANGED <<warehouse, kept, slid>>, owed' = {}
  PROVE  MoyInv'
<1>1. /\ doing' = "idle" /\ began' = 0 /\ since' = Ever /\ offset' = 0 /\ DOMAIN inHand' = {}
  BY DEF EndsRun
<1>2. since' \in Int
  BY <1>1, MoyBounds DEF Ever
<1>3. OwedAreAhead'
  BY DEF OwedAreAhead
<1> QED
  BY <1>1, <1>2, <1>3, RowsStay

LEMMA MoyListIds == MoyInv /\ ListIds => MoyInv'
<1> SUFFICES ASSUME MoyInv, ListIds PROVE MoyInv'
  OBVIOUS
<1> DEFINE page == Page(Listing(Live), offset, IdPage)
           all == listed \cup page
           gone == Stored \ all
<1>0. /\ MoyShapes /\ offset \in Nat /\ began \in Int /\ since \in Int /\ DOMAIN inHand = {} /\ IdPage \in Nat
      /\ doing = "list" /\ owed = {}
  BY MoyBounds DEF ListIds, MoyInv, MoyShapes, OwedAreAhead
<1>1. UNCHANGED <<warehouse, kept, slid>> /\ owed' = {}
  BY <1>0 DEF ListIds
<1>2. \/ /\ offset' = offset + IdPage /\ UNCHANGED <<doing, began, since, turned, inHand>>
      \/ EndsRun
      \/ doing' = "ask" /\ offset' = 0 /\ UNCHANGED <<began, since, turned, inHand>>
  <2>1. CASE Cardinality(page) = IdPage
    BY <2>1 DEF ListIds
  <2>2. CASE Cardinality(page) # IdPage
    BY <2>2 DEF ListIds
  <2> QED
    BY <2>1, <2>2
<1>3. OwedAreAhead'
  BY <1>1 DEF OwedAreAhead
<1>4. CASE offset' = offset + IdPage /\ UNCHANGED <<doing, began, since, turned, inHand>>
  BY <1>0, <1>1, <1>3, <1>4, RowsStay
<1>5. CASE EndsRun
  BY <1>1, <1>5, MoyEnds
<1>6. CASE doing' = "ask" /\ offset' = 0 /\ UNCHANGED <<began, since, turned, inHand>>
  BY <1>0, <1>1, <1>3, <1>6, RowsStay
<1> QED
  BY <1>2, <1>4, <1>5, <1>6

LEMMA MoyAskGone == MoyInv /\ AskGone => MoyInv'
<1> SUFFICES ASSUME MoyInv, AskGone PROVE MoyInv'
  OBVIOUS
<1>0. /\ MoyShapes /\ doing = "ask" /\ owed = {}
  BY DEF AskGone, MoyInv, OwedAreAhead
<1>1. /\ doing' = "pay" /\ UNCHANGED <<warehouse, run, owed>>
      /\ kept' = [o \in Orders |-> IF o \notin listed /\ IsGone(o) THEN NoRow ELSE kept[o]]
      /\ slid' = {o \in slid : kept'[o] # RowOf(o)}
  BY DEF AskGone
<1>2. /\ DOMAIN inHand' = {} /\ offset' \in Nat /\ began' \in Int /\ since' \in Int /\ offset' = 0 /\ order' = order
  BY <1>0, <1>1 DEF MoyShapes, run, warehouse
<1>3. kept' \in [Orders -> KeptRow]
  <2>1. NoRow \in KeptRow /\ \A o \in Orders : kept[o] \in KeptRow
    BY <1>0 DEF MoyShapes, NoRow, KeptRow
  <2> QED
    BY <1>1, <2>1
<1>4. ASSUME NEW q \in Stored' PROVE q \in Stored /\ kept'[q] = kept[q] /\ IsEarlier(kept'[q], q)
  <2>1. q \in Orders /\ kept'[q] # NoRow
    BY <1>4 DEF Stored
  <2>2. kept'[q] = kept[q]
    BY <1>1, <2>1
  <2>3. q \in Stored
    BY <2>1, <2>2 DEF Stored
  <2> QED
    BY <1>0, <2>2, <2>3 DEF MoyShapes
<1>5. ASSUME NEW o \in Live PROVE kept'[o] = kept[o]
  BY <1>1 DEF Live, IsGone
<1>6. ASSUME NEW o \in Live \ slid' PROVE o \notin slid \/ AsIs(o)'
  <2>1. o \in slid => kept'[o] = RowOf(o)
    BY <1>1
  <2> QED
    BY <1>2, <2>1 DEF AsIs, RowOf
<1>7. OwedAreAhead'
  BY <1>0, <1>1 DEF OwedAreAhead
<1> QED
  BY <1>1, <1>2, <1>3, <1>4, <1>5, <1>6, <1>7, LaterKeeps

LEMMA MoyBeginPayments == MoyInv /\ BeginPayments => MoyInv'
<1> SUFFICES ASSUME MoyInv, BeginPayments PROVE MoyInv'
  OBVIOUS
<1>0. /\ MoyShapes /\ doing = "pay" /\ offset = 0 /\ DOMAIN inHand = {} /\ began \in Int /\ since \in Int
  BY DEF BeginPayments, MoyInv, MoyShapes
<1>1. doing' = "paying" /\ owed' = Behind /\ UNCHANGED <<warehouse, kept, runs, run, slid>>
  BY DEF BeginPayments
<1>2. /\ order' = order /\ kept' = kept /\ offset' = 0 /\ Stored' = Stored /\ Priced' = Priced
      /\ DOMAIN inHand' = {} /\ began' = began /\ since' = since
  BY <1>0, <1>1 DEF warehouse, run, Stored, Priced, Live, IsPriced, IsSweep
<1>3. ASSUME NEW o \in Behind
      PROVE  o \in Priced \cap Stored /\ kept[o].paid < order[o].paid /\ Cardinality(PricedBefore(o)') >= 0
  <2>1. o \in Live /\ o \in Stored /\ o \in Priced /\ kept[o].paid # order[o].paid /\ o \in Orders
    BY DEF Behind, Priced, IsPriced, Live
  <2>2. kept[o].paid \in Int /\ order[o].paid \in Nat /\ kept[o].paid <= order[o].paid
    BY <1>0, <2>1, OrderTypes
  <2>3. PricedBefore(o)' \subseteq Orders
    BY DEF PricedBefore, Priced, Live
  <2>4. Cardinality(PricedBefore(o)') \in Nat
    BY <2>3, FewOrders
  <2> QED
    BY <2>1, <2>2, <2>4
<1>4. OwedAreAhead'
  BY <1>1, <1>2, <1>3 DEF OwedAreAhead
<1> QED
  BY <1>0, <1>1, <1>2, <1>4, RowsStay

LEMMA MoyPayPage == MoyInv /\ PayPage => MoyInv'
<1> SUFFICES ASSUME MoyInv, PayPage PROVE MoyInv'
  OBVIOUS
<1> DEFINE list == Listing(Priced)
           page == Page(list, offset, IdPage)
<1>0. /\ MoyShapes /\ OwedAreAhead /\ doing = "paying" /\ DOMAIN inHand = {} /\ began \in Int /\ since \in Int
      /\ offset \in Nat /\ IdPage \in Nat \ {0}
  BY MoyBounds DEF PayPage, MoyInv, MoyShapes
<1>1. /\ UNCHANGED <<warehouse, runs, slid>>
      /\ kept' = [o \in Orders |-> IF o \in page \cap Stored THEN [kept[o] EXCEPT !.paid = order[o].paid]
                                     ELSE kept[o]]
      /\ owed' = {o \in owed : kept'[o].paid = kept[o].paid}
      /\ IF Cardinality(page) = IdPage
         THEN offset' = offset + IdPage /\ UNCHANGED <<doing, began, since, turned, inHand, listed>>
         ELSE EndsRun
  BY DEF PayPage, Priced
<1>2. order' = order /\ second' = second /\ Priced \subseteq Orders
  BY <1>1 DEF warehouse, Priced, Live
<1>3. IsOrdered(list, Priced) /\ IsFiniteSet(Priced) /\ DOMAIN list = Priced /\ \A o \in Priced : list[o] = PricedBefore(o)
  BY <1>2, ListingIsOrdered, FewOrders DEF Listing, PricedBefore
<1> HIDE DEF page, list
<1>4. ASSUME NEW o \in Orders
      PROVE  /\ kept'[o] \in KeptRow /\ kept'[o].updated = kept[o].updated /\ kept'[o].content = kept[o].content
             /\ o \in page \cap Stored => kept'[o].paid = order[o].paid
             /\ o \notin page \cap Stored => kept'[o] = kept[o]
  <2>1. kept[o] \in KeptRow /\ order[o].paid \in Int
    BY <1>0, OrderTypes
  <2>2. kept'[o] = IF o \in page \cap Stored THEN [kept[o] EXCEPT !.paid = order[o].paid] ELSE kept[o]
    BY <1>1
  <2> QED
    BY <2>1, <2>2 DEF KeptRow
<1>5. kept' \in [Orders -> KeptRow]
  <2>1. \A o \in Orders : kept'[o] \in KeptRow
    BY <1>4
  <2> QED
    BY <1>1, <2>1
<1>6. ASSUME NEW q \in Stored' PROVE q \in Stored /\ IsEarlier(kept'[q], q)
  <2>1. q \in Orders /\ kept'[q] # NoRow
    BY <1>6 DEF Stored
  <2>2. q \in Stored
    BY <1>4, <2>1 DEF Stored
  <2>3. IsEarlier(kept[q], q) /\ order[q].paid \in Nat
    BY <1>0, <2>1, <2>2, OrderTypes DEF MoyShapes
  <2> QED
    BY <1>4, <2>1, <2>2, <2>3 DEF IsEarlier
<1>7. ASSUME NEW o \in Stored PROVE o \in Stored'
  <2>1. o \in Orders /\ 0 <= kept[o].updated
    BY <1>0 DEF Stored, MoyShapes, IsEarlier
  <2>2. kept'[o].updated = kept[o].updated
    BY <1>4, <2>1
  <2>3. kept'[o] # NoRow
    BY <2>1, <2>2 DEF NoRow
  <2> QED
    BY <2>1, <2>3 DEF Stored
\* One still owed is on no page so far.
<1>8. ASSUME NEW o \in owed'
      PROVE  /\ o \in Priced \cap Stored /\ kept'[o].paid < order[o].paid
             /\ Cardinality(page) = IdPage /\ Cardinality(PricedBefore(o)) >= offset + IdPage
  <2>1. o \in owed /\ kept'[o].paid = kept[o].paid
    BY <1>1
  <2>2. /\ o \in Orders /\ o \in Stored /\ o \in Priced
        /\ kept[o].paid < order[o].paid /\ kept[o].paid \in Int /\ order[o].paid \in Nat
        /\ Cardinality(PricedBefore(o)) >= offset /\ Cardinality(PricedBefore(o)) \in Nat
    BY <1>0, <2>1, OwedOrders
  <2>3. o \notin page
    BY <1>4, <2>1, <2>2
  <2>4. /\ Cardinality(page) = IdPage /\ page \subseteq list[o]
        /\ \E m \in page : Cardinality(list[m]) = offset + IdPage - 1
    BY <1>0, <1>3, <2>2, <2>3, FullPage DEF page
  <2>5. PICK m \in page : Cardinality(list[m]) = offset + IdPage - 1
    BY <2>4
  <2>6. Cardinality(list[m]) < Cardinality(list[o])
    BY <1>3, <2>2, <2>4, PlacesFacts
  <2>7. Cardinality(PricedBefore(o)) >= offset + IdPage
    BY <1>0, <1>3, <2>2, <2>5, <2>6
  <2> QED
    BY <2>1, <2>2, <2>4, <2>7
<1>9. Priced' = Priced
  BY <1>1, <1>2 DEF Priced, Live, IsPriced, IsSweep
<1>10. \A o : PricedBefore(o)' = PricedBefore(o)
  BY <1>9 DEF PricedBefore
<1>11. CASE Cardinality(page) = IdPage
  <2>1. offset' = offset + IdPage /\ doing' = doing /\ began' = began /\ since' = since /\ inHand' = inHand
    BY <1>1, <1>11
  <2>2. OwedAreAhead'
    <3> SUFFICES ASSUME NEW o \in owed'
                 PROVE  /\ o \in Priced' \cap Stored' /\ kept'[o].paid < order'[o].paid
                        /\ Cardinality(PricedBefore(o)') >= offset'
      BY <1>0, <2>1 DEF OwedAreAhead
    <3> QED
      BY <1>2, <1>7, <1>8, <1>9, <1>10, <2>1
  <2> QED
    BY <1>0, <1>1, <1>4, <1>5, <1>6, <2>1, <2>2, LaterKeeps DEF Stored, Live
<1>12. CASE Cardinality(page) # IdPage
  <2>1. /\ doing' = "idle" /\ began' = 0 /\ since' = Ever /\ offset' = 0 /\ DOMAIN inHand' = {}
    BY <1>1, <1>12 DEF EndsRun
  <2>2. since' \in Int
    BY <2>1, MoyBounds DEF Ever
  <2>3. owed' = {}
    BY <1>8, <1>12
  <2>4. OwedAreAhead'
    BY <2>3 DEF OwedAreAhead
  <2> QED
    BY <1>0, <1>1, <1>4, <1>5, <1>6, <2>1, <2>2, <2>4, LaterKeeps DEF Stored, Live
<1> QED
  BY <1>11, <1>12

LEMMA MoyStep == MoyInv /\ [MoyNext]_moyVars => MoyInv'
<1> SUFFICES ASSUME MoyInv, [MoyNext]_moyVars PROVE MoyInv'
  OBVIOUS
<1>1. CASE PlaceOrder
  BY <1>1, MoyPlaceOrder
<1>2. CASE EditOrder
  BY <1>2, MoyEditOrder
<1>3. CASE BookPayment
  BY <1>3, MoyBookPayment
<1>4. CASE BinOrder
  BY <1>4, MoyBinOrder
<1>5. CASE NextSecond
  BY <1>5, MoyNextSecond
<1>6. CASE BeginRun
  BY <1>6, MoyBeginRun
<1>7. CASE ReadPage
  BY <1>7, MoyReadPage
<1>8. CASE WritePage
  BY <1>8, MoyWritePage
<1>9. CASE ListIds
  BY <1>9, MoyListIds
<1>10. CASE AskGone
  BY <1>10, MoyAskGone
<1>11. CASE BeginPayments
  BY <1>11, MoyBeginPayments
<1>12. CASE PayPage
  BY <1>12, MoyPayPage
<1>13. CASE RunFails
  BY <1>13, MoyEnds DEF RunFails
<1>14. CASE DeployMoysklad
  <2>1. UNCHANGED <<warehouse, kept, slid, run>> /\ doing = "idle" /\ doing' = "idle" /\ owed' = owed
    BY <1>14 DEF DeployMoysklad
  <2>2. owed = {} /\ DOMAIN inHand = {} /\ offset = 0 /\ began \in Int /\ since \in Int
    BY <2>1 DEF MoyInv, MoyShapes, OwedAreAhead
  <2>3. OwedAreAhead'
    BY <2>1, <2>2 DEF OwedAreAhead
  <2> QED
    BY <2>1, <2>2, <2>3, RowsStay DEF run
<1>15. CASE UNCHANGED moyVars
  <2>1. /\ second' = second /\ order' = order /\ kept' = kept /\ runs' = runs /\ doing' = doing /\ began' = began
        /\ since' = since /\ offset' = offset /\ inHand' = inHand /\ slid' = slid /\ owed' = owed
    BY <1>15 DEF moyVars, warehouse, run
  <2>2. Stored' = Stored /\ Live' = Live /\ IsFull' = IsFull /\ LastRead' = LastRead /\ Priced' = Priced
    BY <2>1 DEF Stored, Live, IsFull, LastRead, Priced, IsPriced, IsSweep
  <2>3. \A o : InSecond(o)' = InSecond(o) /\ PricedBefore(o)' = PricedBefore(o)
    BY <2>1, <2>2 DEF InSecond, PricedBefore
  <2>4. MoyShapes' /\ RunIsYoung'
    BY <2>1, <2>2 DEF MoyInv, MoyShapes, IsEarlier, RunIsYoung
  <2>5. ReadIsWhole' /\ WriteIsWhole' /\ NextIsWhole'
    BY <2>1, <2>2, <2>3 DEF MoyInv, ReadIsWhole, WriteIsWhole, NextIsWhole, AsIs, EditedSince, Ahead, AfterPage
  <2>6. OwedAreAhead'
    BY <2>1, <2>2, <2>3 DEF MoyInv, OwedAreAhead
  <2> QED
    BY <2>4, <2>5, <2>6 DEF MoyInv
<1> QED
  BY <1>1, <1>2, <1>3, <1>4, <1>5, <1>6, <1>7, <1>8, <1>9, <1>10, <1>11, <1>12, <1>13, <1>14, <1>15 DEF MoyNext

(***************************************************************************)
(* Wherever a run is cut, capped or overtaken by edits, the next one asks  *)
(* again for every live order not stored as it is, but for one a step      *)
(* inside a second slid past; and a payment pass that came to its end owes *)
(* nothing - for any orders, pages, caps and sweeps, whenever SETTLE_MS    *)
(* covers a run's reading and the lateness of a date                       *)
(* (importMoyskladOrders).                                                 *)
(***************************************************************************)
THEOREM OrdersCatchUpAlways == MoySpec => []OrdersCatchUp
<1>1. MoyInv => OrdersCatchUp
  <2> SUFFICES ASSUME MoyInv PROVE NothingIsMissed /\ PaymentsCatchUp
    BY DEF OrdersCatchUp
  <2>1. NothingIsMissed
    <3> SUFFICES ASSUME NEW o \in Live \ slid, NEW n \in Newest
                 PROVE  kept[o].content = order[o].content \/ order[o].updated >= n - Settle
      BY DEF NothingIsMissed
    <3>1. PICK q \in Stored : n = kept[q].updated
      BY DEF Newest
    <3>2. o \in Orders /\ q \in Orders /\ MoyShapes
      BY DEF Live, Stored, MoyInv
    <3>3. order[o].updated \in Nat /\ kept[q].updated \in Int /\ Settle \in Nat
      BY <3>2, OrderTypes, MoyBounds
    <3>4. kept[o].content = order[o].content \/ kept[q].updated <= order[o].updated + Settle
      BY AnytimeWhole DEF AsIs
    <3> QED
      BY <3>1, <3>3, <3>4
  <2>2. PaymentsCatchUp
    BY DEF PaymentsCatchUp, MoyInv, OwedAreAhead
  <2> QED
    BY <2>1, <2>2
<1> QED
  BY <1>1, MoyInvInit, MoyStep, PTL DEF MoySpec

(***************************************************************************)
(* No live order's row is removed, whatever slid past a page of the ids    *)
(* while others were deleted (sweepDeleted asks for each before it         *)
(* removes).                                                               *)
(***************************************************************************)
THEOREM OnlyGoneAreRemovedAlways == MoySpec => OnlyGoneAreRemoved
<1>1. MoyInv /\ [MoyNext]_moyVars =>
        [\A o \in Orders : kept[o] # NoRow /\ kept'[o] = NoRow => order[o].place = "bin"]_moyVars
  <2> SUFFICES ASSUME MoyInv, MoyNext, NEW o \in Orders, kept[o] # NoRow, kept'[o] = NoRow
               PROVE  order[o].place = "bin"
    OBVIOUS
  <2>0. MoyShapes /\ order[o].place # "none" /\ order[o].place \in {"none", "live", "bin"} /\ 0 <= kept[o].updated
    <3>1. MoyShapes /\ o \in Stored
      BY DEF MoyInv, Stored
    <3>2. order[o] \in OrderRow /\ IsEarlier(kept[o], o)
      BY <3>1, OrderTypes DEF MoyShapes
    <3> QED
      BY <3>1, <3>2 DEF OrderRow, IsEarlier
  <2>1. CASE AskGone
    <3>1. kept'[o] = IF o \notin listed /\ IsGone(o) THEN NoRow ELSE kept[o]
      BY <2>1 DEF AskGone
    <3> QED
      BY <2>0, <3>1 DEF IsGone
  <2>2. CASE WritePage
    <3>1. kept'[o] = IF o \in DOMAIN inHand THEN inHand[o] ELSE kept[o]
      BY <2>2 DEF WritePage
    <3>2. o \in DOMAIN inHand => 0 <= inHand[o].updated
      BY <2>0 DEF MoyShapes, IsEarlier
    <3> QED
      BY <3>1, <3>2 DEF NoRow
  <2>3. CASE PayPage
    <3>1. kept[o] \in KeptRow
      BY <2>0, OrderTypes
    <3>2. PICK S : kept' = [p \in Orders |-> IF p \in S \cap Stored THEN [kept[p] EXCEPT !.paid = order[p].paid]
                                               ELSE kept[p]]
      BY <2>3 DEF PayPage
    <3>3. kept'[o] = IF o \in S \cap Stored THEN [kept[o] EXCEPT !.paid = order[o].paid] ELSE kept[o]
      BY <3>2
    <3>4. kept'[o].updated = kept[o].updated
      BY <3>1, <3>3 DEF KeptRow
    <3> QED
      BY <2>0, <3>4 DEF NoRow
  <2>4. CASE kept' = kept
    BY <2>4
  <2> QED
    BY <2>1, <2>2, <2>3, <2>4 DEF MoyNext, PlaceOrder, EditOrder, BookPayment, BinOrder, NextSecond, BeginRun,
       ReadPage, ListIds, BeginPayments, RunFails, DeployMoysklad
<1> QED
  BY <1>1, MoyInvInit, MoyStep, PTL DEF MoySpec, OnlyGoneAreRemoved


-------------------------------------------------------------------------------
(* The types of the chats: the anchors in their order. *)

InRange(anchors, h, i) == \A a \in anchors : a.id \in 0..h /\ a.at \in 0..i
Spaced(anchors) ==
  \A a, b \in anchors : a # b =>
    \/ a.at + AnchorEvery <= b.at /\ a.id <= b.id
    \/ b.at + AnchorEvery <= a.at /\ b.id <= a.id

\* Without a floor there is no anchor, so the first is never too soon.
Stands(s, h, i) ==
  /\ s.floor \in {None} \cup 0..h /\ s.dated \in BOOLEAN /\ s.heldAt \in {None} \cup 0..i
  /\ InRange(s.anchors, h, i) /\ Spaced(s.anchors)
  /\ s.floor = None => s.anchors = {}

ChatShape ==
  /\ instant \in (ChatWindow + 1)..LastInstant /\ head \in {2 * instant, ChatAt(instant)}
  /\ talking \cup table \cup live \subseteq 0..head /\ passNow \in 0..instant
  /\ Stands(bookmark, head, instant) /\ Stands(state, head, instant)
  /\ stage \in {"idle", "floor", "dated", "head", "anchor", "fetch", "control", "replace", "write"}
  /\ stage # "idle" => passNow > ChatWindow
  /\ stage \in {"floor", "dated", "head"} => state.floor = None
  /\ stage \in {"anchor", "fetch", "control", "replace", "write"} => state.floor # None

\* As the portal moves on, what stood stands.
LEMMA StandsOn ==
  ASSUME NEW s, NEW h \in Nat, NEW i \in Nat, Stands(s, h, i), NEW h1 \in Nat, NEW i1 \in Nat, h <= h1, i <= i1
  PROVE  Stands(s, h1, i1)
<1>1. 0..h \subseteq 0..h1 /\ 0..i \subseteq 0..i1
  OBVIOUS
<1>2. InRange(s.anchors, h1, i1)
  BY <1>1 DEF Stands, InRange
<1>3. QED
  BY <1>1, <1>2 DEF Stands

\* The window moved up over anchors in order stands where it stood or on one.
LEMMA AdvancedStands ==
  ASSUME NEW s \in States, NEW h \in Nat, NEW i \in Nat, Stands(s, h, i),
         NEW anchors \in SUBSET [id : Int, at : Int], InRange(anchors, h, i), Spaced(anchors),
         NEW t \in Int, NEW n \in Advanced(s, anchors, t)
  PROVE  /\ n \in States /\ n.floor \in {None} \cup 0..h /\ n.dated \in BOOLEAN /\ n.heldAt \in {None} \cup 0..i
         /\ InRange(n.anchors, h, i) /\ Spaced(n.anchors)
         /\ s.floor # None => n.floor # None
<1>1. /\ n \in States /\ n.dated = s.dated /\ n.heldAt = s.heldAt /\ n.anchors \subseteq anchors
      /\ n.floor = s.floor \/ \E a \in anchors : n.floor = a.id
  BY AdvancedFacts
<1>2. InRange(n.anchors, h, i) /\ Spaced(n.anchors)
  BY <1>1 DEF InRange, Spaced
<1>3. \A a \in anchors : a.id \in 0..h /\ a.id # None
  BY DEF InRange, None
<1>4. n.floor \in {None} \cup 0..h /\ (s.floor # None => n.floor # None)
  BY <1>1, <1>3 DEF Stands
<1>5. QED
  BY <1>1, <1>2, <1>4 DEF Stands

\* The numbers that order the anchors.
LEMMA ShapeNumbers ==
  ASSUME ChatShape
  PROVE  /\ instant \in Nat /\ head \in Nat /\ passNow \in Nat /\ passNow <= instant /\ passNow <= head
         /\ 2 * instant <= head /\ head <= ChatAt(instant)
<1>1. ChatWindow \in Nat /\ LastInstant \in Nat
  BY ChatAssumption
<1>2. instant \in Nat
  BY <1>1 DEF ChatShape
<1>3. QED
  BY <1>2 DEF ChatShape, ChatAt

\* Without anchors there is nothing to order.
LEMMA NothingStands ==
  ASSUME NEW h \in Nat, NEW i \in Nat
  PROVE  Stands(NoState, h, i)
BY DEF Stands, NoState, InRange, Spaced

\* At the start there is no floor.
LEMMA ShapeInit == ChatsInit => ChatShape
<1> SUFFICES ASSUME ChatsInit PROVE ChatShape
  OBVIOUS
<1>1. ChatWindow \in Nat /\ LastInstant \in Nat /\ ChatWindow < LastInstant
  BY ChatAssumption
<1>2. instant = ChatWindow + 1 /\ head = 2 * instant /\ passNow = 0 /\ stage = "idle"
  BY DEF ChatsInit
<1>3. instant \in (ChatWindow + 1)..LastInstant /\ instant \in Nat /\ head \in Nat /\ passNow \in 0..instant
  BY <1>1, <1>2
<1>4. talking \cup table \cup live \subseteq 0..head
  <2>1. {ChatAt(t) : t \in 1..ChatWindow} \subseteq 0..head
    BY <1>1, <1>2 DEF ChatAt
  <2> QED
    BY <2>1 DEF ChatsInit
<1>5. Stands(bookmark, head, instant) /\ Stands(state, head, instant)
  BY <1>3, NothingStands DEF ChatsInit
<1>6. QED
  BY <1>2, <1>3, <1>4, <1>5 DEF ChatShape

\* The steps that leave the floor and the anchors alone.
LEMMA OutsideShape ==
  ASSUME ChatShape, OpenChat \/ CloseChat \/ Permission \/ Instant
  PROVE  ChatShape'
<1>1. /\ stage' = stage /\ bookmark' = bookmark /\ state' = state /\ live' = live /\ table' = table /\ passNow' = passNow
  BY DEF OpenChat, CloseChat, Permission, Instant, memo
<1>2. ChatWindow \in Nat /\ LastInstant \in Nat /\ instant \in (ChatWindow + 1)..LastInstant
  BY ChatAssumption DEF ChatShape
<1>3. /\ instant \in Nat /\ head \in Nat /\ passNow \in 0..instant /\ talking \subseteq 0..head
      /\ table \cup live \subseteq 0..head /\ head <= ChatAt(instant)
  BY ShapeNumbers DEF ChatShape
<1>4. /\ instant' \in (ChatWindow + 1)..LastInstant /\ instant <= instant' /\ instant' \in Nat
      /\ head' \in {2 * instant', ChatAt(instant')} /\ head <= head' /\ head' \in Nat
      /\ talking' \subseteq 0..head'
  <2>1. CASE OpenChat
    <3>1. instant' = instant /\ head' = ChatAt(instant) /\ talking' = talking \cup {ChatAt(instant)}
      BY <2>1 DEF OpenChat
    <3>2. ChatAt(instant) \in Nat
      BY <1>3 DEF ChatAt
    <3>3. head' \in Nat /\ head <= head' /\ 0..head \subseteq 0..head' /\ ChatAt(instant) \in 0..head'
      BY <1>3, <3>1, <3>2
    <3>4. talking' \subseteq 0..head'
      BY <1>3, <3>1, <3>3
    <3> QED
      BY <1>2, <1>3, <3>1, <3>3, <3>4
  <2>2. CASE CloseChat \/ Permission
    <3>1. instant' = instant /\ head' = head /\ talking' \subseteq talking
      BY <2>2 DEF CloseChat, Permission
    <3>2. head \in {2 * instant, ChatAt(instant)}
      BY DEF ChatShape
    <3> QED
      BY <1>2, <1>3, <3>1, <3>2
  <2>3. CASE Instant
    <3>1. instant < LastInstant /\ instant' = instant + 1 /\ head' = 2 * (instant + 1) /\ talking' = talking
      BY <2>3 DEF Instant
    <3>2. head <= head' /\ head' \in Nat
      BY <1>3, <3>1 DEF ChatAt
    <3> QED
      BY <1>2, <1>3, <3>1, <3>2
  <2> QED
    BY <2>1, <2>2, <2>3
<1>5. Stands(bookmark, head', instant') /\ Stands(state, head', instant')
  <2>1. Stands(bookmark, head, instant) /\ Stands(state, head, instant)
    BY DEF ChatShape
  <2> QED
    BY <1>3, <1>4, <2>1, StandsOn
<1>6. table \cup live \subseteq 0..head' /\ passNow \in 0..instant'
  BY <1>3, <1>4
<1>7. QED
  BY <1>1, <1>4, <1>5, <1>6 DEF ChatShape

\* A pass up to its fetch: the floor is looked for, and an anchor put down.
LEMMA FloorShape ==
  ASSUME ChatInv, ChatShape, BeginChats \/ SayDated \/ DatedRead \/ HeadFloor \/ Anchor
  PROVE  ChatShape'
<1>1. /\ instant' = instant /\ head' = head /\ talking' = talking /\ table' = table /\ live' = live
  BY DEF BeginChats, SayDated, DatedRead, HeadFloor, Anchor, portal, memo
<1>2. /\ instant \in Nat /\ head \in Nat /\ passNow \in Nat /\ passNow <= instant /\ passNow <= head
      /\ 2 * instant <= head /\ ChatWindow \in Nat /\ instant > ChatWindow
  BY ShapeNumbers, ChatAssumption DEF ChatShape
<1>3. Stands(bookmark, head, instant) /\ Stands(state, head, instant) /\ state \in States /\ bookmark \in States
  BY DEF ChatShape, ChatInv, ChatTypes
<1>4. SUFFICES /\ Stands(bookmark', head, instant) /\ Stands(state', head, instant) /\ passNow' \in 0..instant
               /\ stage' \in {"floor", "dated", "head", "anchor", "fetch"} /\ passNow' > ChatWindow
               /\ stage' \in {"floor", "dated", "head"} => state'.floor = None
               /\ stage' \in {"anchor", "fetch"} => state'.floor # None
  BY <1>1 DEF ChatShape
<1>5. CASE BeginChats
  BY <1>2, <1>3, <1>5 DEF BeginChats
<1>6. CASE SayDated
  <2>1. /\ stage = "floor" /\ stage' = "dated" /\ state' = [state EXCEPT !.dated = TRUE] /\ bookmark' = state'
        /\ passNow' = passNow
    BY <1>6 DEF SayDated, Noted
  <2>2. /\ state'.floor = state.floor /\ state'.dated = TRUE /\ state'.anchors = state.anchors
        /\ state'.heldAt = state.heldAt
    BY <1>3, <2>1 DEF States
  <2>3. Stands(state', head, instant)
    BY <1>3, <2>2 DEF Stands
  <2> QED
    BY <1>2, <2>1, <2>2, <2>3 DEF ChatShape
<1>7. CASE DatedRead
  <2>1. /\ stage = "dated" /\ passNow' = passNow /\ passNow > ChatWindow /\ state.floor = None
    BY <1>7 DEF DatedRead, ChatShape
  <2>2. CASE /\ state' = [state EXCEPT !.floor = 2 * (passNow - ChatWindow) - 1] /\ bookmark' = state'
             /\ stage' = "anchor"
    <3> DEFINE under == 2 * (passNow - ChatWindow) - 1
    <3>1. under \in 0..head /\ under # None
      BY <1>2, <2>1 DEF None
    <3> HIDE DEF under
    <3>2. /\ state'.floor = under /\ state'.dated = state.dated /\ state'.anchors = state.anchors
          /\ state'.heldAt = state.heldAt
      BY <1>3, <2>2 DEF States, under
    <3>3. Stands(state', head, instant)
      BY <1>3, <3>1, <3>2 DEF Stands
    <3> QED
      BY <1>2, <2>1, <2>2, <3>1, <3>2, <3>3
  <2>3. CASE stage' = "head" /\ UNCHANGED <<state, bookmark>>
    BY <1>2, <1>3, <2>1, <2>3
  <2> QED
    BY <1>7, <2>2, <2>3 DEF DatedRead
<1>8. \A b \in [id : Int, at : Int] : b = [id |-> head, at |-> passNow] => b.id = head /\ b.at = passNow
  OBVIOUS
<1>9. ASSUME AnchorDue \/ state.anchors = {}
      PROVE  /\ Anchored(state) \in SUBSET [id : Int, at : Int]
             /\ InRange(Anchored(state), head, instant) /\ Spaced(Anchored(state))
  <2> DEFINE new == [id |-> head, at |-> passNow]
  <2>1. new \in [id : Int, at : Int] /\ new.id = head /\ new.at = passNow
    BY <1>2
  <2> HIDE DEF new
  <2>2. Anchored(state) = state.anchors \cup {new} /\ state.anchors \in SUBSET [id : Int, at : Int]
    BY <1>3 DEF Anchored, States, new
  <2>3. InRange(state.anchors, head, instant) /\ Spaced(state.anchors)
    BY <1>3 DEF Stands
  <2>4. InRange(Anchored(state), head, instant)
    BY <1>2, <2>1, <2>2, <2>3 DEF InRange
  <2>5. ASSUME NEW a \in state.anchors PROVE a.at + AnchorEvery <= new.at /\ a.id <= new.id
    <3>1. passNow - a.at >= AnchorEvery
      BY <1>9 DEF AnchorDue
    <3>2. a.at \in Nat /\ a.id \in Nat /\ a.id <= head
      BY <1>2, <2>3 DEF InRange
    <3>3. AnchorEvery \in Nat
      BY ChatAssumption
    <3> QED
      BY <1>2, <2>1, <3>1, <3>2, <3>3
  <2>6. Spaced(Anchored(state))
    BY <2>2, <2>3, <2>5 DEF Spaced
  <2> QED
    BY <2>1, <2>2, <2>4, <2>6
<1>10. CASE HeadFloor
  <2>1. stage \in {"head", "floor"} /\ stage' = "anchor" /\ passNow' = passNow /\ bookmark' = state'
    BY <1>10 DEF HeadFloor
  <2>2. state.floor = None /\ state.anchors = {} /\ passNow > ChatWindow
    BY <1>3, <2>1 DEF ChatShape, Stands
  <2>3. PICK s \in Advanced(state, Anchored(state), passNow) : state' = [s EXCEPT !.floor = head]
    BY <1>10 DEF HeadFloor
  <2>4. /\ s \in States /\ s.dated \in BOOLEAN /\ s.heldAt \in {None} \cup 0..instant
        /\ InRange(s.anchors, head, instant) /\ Spaced(s.anchors)
    BY <1>2, <1>3, <1>9, <2>2, AdvancedStands
  <2>5. /\ state'.floor = head /\ state'.dated = s.dated /\ state'.anchors = s.anchors
        /\ state'.heldAt = s.heldAt
    BY <2>3, <2>4 DEF States
  <2>6. head \in 0..head /\ head # None
    BY <1>2 DEF None
  <2>7. Stands(state', head, instant)
    BY <2>4, <2>5, <2>6 DEF Stands
  <2> QED
    BY <1>2, <2>1, <2>2, <2>5, <2>6, <2>7
<1>11. CASE Anchor
  <2>1. stage = "anchor" /\ stage' = "fetch" /\ passNow' = passNow /\ bookmark' = bookmark
    BY <1>11 DEF Anchor
  <2>2. state.floor # None /\ passNow > ChatWindow
    BY <2>1 DEF ChatShape
  <2>3. /\ state' \in States /\ state'.floor \in {None} \cup 0..head /\ state'.dated \in BOOLEAN
        /\ state'.heldAt \in {None} \cup 0..instant
        /\ InRange(state'.anchors, head, instant) /\ Spaced(state'.anchors) /\ state'.floor # None
    <3>1. CASE AnchorDue /\ state' \in Advanced(state, Anchored(state), passNow)
      BY <1>2, <1>3, <1>9, <2>2, <3>1, AdvancedStands
    <3>2. CASE state' \in Advanced(state, state.anchors, passNow)
      <4>1. /\ state.anchors \in SUBSET [id : Int, at : Int]
            /\ InRange(state.anchors, head, instant) /\ Spaced(state.anchors)
        BY <1>3 DEF States, Stands
      <4> QED
        BY <1>2, <1>3, <2>2, <3>2, <4>1, AdvancedStands
    <3> QED
      BY <1>11, <3>1, <3>2 DEF Anchor
  <2>4. Stands(state', head, instant)
    BY <2>3 DEF Stands
  <2> QED
    BY <1>2, <1>3, <2>1, <2>2, <2>3, <2>4
<1> QED
  BY <1>5, <1>6, <1>7, <1>10, <1>11

\* A pass from its fetch on: what stood is replaced, or it fails.
LEMMA AnswerShape ==
  ASSUME ChatInv, ChatShape, FetchChats \/ Control \/ Replace \/ WriteChats \/ ChatsFail
  PROVE  ChatShape'
<1>1. instant' = instant /\ head' = head /\ talking' = talking
  BY DEF FetchChats, Control, Replace, WriteChats, ChatsFail, portal
<1>2. /\ instant \in Nat /\ head \in Nat /\ passNow \in Nat /\ passNow \in 0..instant
  BY ShapeNumbers DEF ChatShape
<1>3. Stands(bookmark, head, instant) /\ Stands(state, head, instant) /\ state \in States
  BY DEF ChatShape, ChatInv, ChatTypes
<1>4. CASE FetchChats
  <2>1. /\ stage = "fetch" /\ stage' \in {"control", "replace"} /\ live' \subseteq talking
        /\ table' = table /\ bookmark' = bookmark /\ passNow' = passNow /\ state' = state
    BY <1>4 DEF FetchChats, OpenAbove
  <2> QED
    BY <1>1, <2>1 DEF ChatShape
<1>5. CASE Control
  <2>1. /\ stage = "control" /\ stage' = "replace" /\ live' = live
        /\ table' = table /\ bookmark' = bookmark /\ passNow' = passNow /\ state' = state
    BY <1>5 DEF Control
  <2> QED
    BY <1>1, <2>1 DEF ChatShape
<1>6. CASE Replace
  <2>1. /\ stage = "replace" /\ stage' = "write" /\ live' = live /\ table' \subseteq table \cup live
        /\ bookmark' = bookmark /\ passNow' = passNow
        /\ state' = [state EXCEPT !.heldAt = IF Holds THEN passNow ELSE None]
    BY <1>6 DEF Replace
  <2>2. /\ state'.floor = state.floor /\ state'.dated = state.dated /\ state'.anchors = state.anchors
        /\ state'.heldAt \in {None} \cup 0..instant
    BY <1>2, <1>3, <2>1 DEF States
  <2>3. Stands(state', head, instant)
    BY <1>3, <2>2 DEF Stands
  <2> QED
    BY <1>1, <2>1, <2>2, <2>3 DEF ChatShape
<1>7. CASE WriteChats \/ ChatsFail
  <2>1. /\ stage' = "idle" /\ passNow' = 0 /\ state' = NoState /\ live' = {}
        /\ bookmark' \in {bookmark, state} /\ table' = table
    BY <1>7 DEF WriteChats, ChatsFail, EndChats
  <2>2. Stands(bookmark', head, instant) /\ Stands(NoState, head, instant) /\ 0 \in 0..instant
    BY <1>2, <1>3, <2>1, NothingStands
  <2> QED
    BY <1>1, <2>1, <2>2 DEF ChatShape
<1>8. QED
  BY <1>4, <1>5, <1>6, <1>7

\* Every step keeps the shape.
LEMMA ShapeStep == ChatInv /\ ChatShape /\ [ChatsNext]_chatVars => ChatShape'
<1> SUFFICES ASSUME ChatInv, ChatShape, [ChatsNext]_chatVars PROVE ChatShape'
  OBVIOUS
<1>1. CASE UNCHANGED chatVars
  BY <1>1 DEF chatVars, portal, ChatShape
<1> QED
  BY <1>1, OutsideShape, FloorShape, AnswerShape DEF ChatsNext

(***************************************************************************)
(* The chats' bookmark keeps its anchors: an hour apart at least, in the   *)
(* order of their ids, none ahead of the portal, whatever reads fail       *)
(* (ChatsState, advanceChatWindow).                                        *)
(***************************************************************************)
THEOREM ChatsAreWellFormed == ChatsSpec => []ChatsTypeOK
<1>1. ChatShape => ChatsTypeOK
  BY DEF ChatShape, ChatsTypeOK, Stands, InRange, Spaced
<1> QED
  BY ChatInvInit, ChatInvStep, ShapeInit, ShapeStep, <1>1, PTL DEF ChatsSpec

-------------------------------------------------------------------------------
(* The types of the orders: a run's pages within their size, its place in a *)
(* list within the list.                                                    *)

RowsCounted ==
  /\ second \in 0..LastSecond /\ changes \in 0..MaxChanges
  /\ \A o \in Orders : order[o].content <= changes /\ order[o].paid <= changes
  /\ \A o \in Orders : kept[o].updated \in -1..second /\ kept[o].content \in -1..changes /\ kept[o].paid \in -1..changes

HandCounted ==
  /\ \A o \in DOMAIN inHand : inHand[o].content \in 0..changes /\ inHand[o].paid \in 0..changes
  /\ Cardinality(DOMAIN inHand) <= RowPage

RunCounted ==
  /\ runs \in 0..(SweepRuns - 1) /\ turned \in 0..(RunPages - 1) /\ listed \subseteq Orders
  /\ began \in 0..second /\ since \in Ever..second /\ offset \in 0..Cardinality(Orders)
  /\ IsFull => offset + RowPage <= Cardinality(Orders)

MoyCounts == RowsCounted /\ HandCounted /\ RunCounted

\* A page holds what it may, and a full one is within the list.
LEMMA PageFits ==
  ASSUME NEW S, IsFiniteSet(S), NEW list, IsOrdered(list, S), NEW from \in Nat, NEW size \in Nat \ {0}
  PROVE  /\ Page(list, from, size) \subseteq S
         /\ IsFiniteSet(Page(list, from, size)) /\ Cardinality(Page(list, from, size)) \in Nat
         /\ Cardinality(Page(list, from, size)) <= size
         /\ Cardinality(Page(list, from, size)) = size => from + size <= Cardinality(S)
<1> DEFINE page == Page(list, from, size)
           n == Cardinality(S)
           f == [p \in page |-> Cardinality(list[p])]
<1>1. page = {p \in S : Cardinality(list[p]) \in from..(from + size - 1)}
  BY DEF Page, IsOrdered
<1>2. IsFiniteSet(page) /\ Cardinality(page) \in Nat /\ n \in Nat /\ page \subseteq S
  BY <1>1, FS_Subset, FS_CardinalityType
<1>3. ASSUME NEW p \in S PROVE Cardinality(list[p]) \in Nat /\ Cardinality(list[p]) < n
  <2>1. list[p] \in SUBSET (S \ {p})
    BY DEF IsOrdered
  <2>2. IsFiniteSet(S \ {p}) /\ Cardinality(S \ {p}) = n - 1
    BY FS_RemoveElement
  <2>3. IsFiniteSet(list[p]) /\ Cardinality(list[p]) <= Cardinality(S \ {p}) /\ Cardinality(list[p]) \in Nat
    BY <2>1, <2>2, FS_Subset, FS_CardinalityType
  <2> QED
    BY <1>2, <2>2, <2>3
<1>4. \A x, y \in page : f[x] = f[y] => x = y
  BY <1>1, PlacesFacts
<1>5. ASSUME NEW b \in Int, \A p \in page : Cardinality(list[p]) <= b, from <= b + 1
      PROVE  Cardinality(page) <= b - from + 1
  <2> SUFFICES ASSUME ~(Cardinality(page) <= b - from + 1) PROVE FALSE
    OBVIOUS
  <2>1. IsFiniteSet(from..b) /\ Cardinality(from..b) = IF from > b THEN 0 ELSE b - from + 1
    BY FS_Interval
  <2>2. Cardinality(from..b) = b - from + 1
    BY <1>5, <2>1
  <2>3. Cardinality(from..b) < Cardinality(page)
    BY <1>2, <2>2
  <2>4. \A p \in page : Cardinality(list[p]) \in from..b
    BY <1>1, <1>3, <1>5
  <2>5. f \in [page -> from..b]
    BY <2>4
  <2> HIDE DEF f, page
  <2>6. PICK x, y \in page : x # y /\ f[x] = f[y]
    BY <1>2, <2>1, <2>3, <2>5, FS_PigeonHole
  <2> QED
    BY <1>4, <2>6
<1>6. Cardinality(page) <= size
  <2>1. from + size - 1 \in Int /\ from <= from + size - 1 + 1 /\ \A p \in page : Cardinality(list[p]) <= from + size - 1
    BY <1>1, <1>3
  <2>2. Cardinality(page) <= (from + size - 1) - from + 1
    BY <1>5, <2>1
  <2> QED
    BY <1>2, <2>2
<1>7. ASSUME Cardinality(page) = size, ~(from + size <= n) PROVE FALSE
  <2>1. CASE from <= n
    <3>1. n - 1 \in Int /\ from <= (n - 1) + 1 /\ \A p \in page : Cardinality(list[p]) <= n - 1
      BY <1>2, <1>3, <2>1
    <3>2. Cardinality(page) <= (n - 1) - from + 1
      BY <1>5, <3>1
    <3> QED
      BY <1>2, <1>7, <3>2
  <2>2. CASE ~(from <= n)
    <3>1. page = {}
      BY <1>1, <1>2, <1>3, <2>2
    <3> QED
      BY <1>7, <3>1, FS_EmptySet
  <2> QED
    BY <2>1, <2>2
<1> QED
  BY <1>2, <1>6, <1>7

\* The bounds are naturals.
LEMMA CountBounds ==
  /\ SweepRuns \in Nat \ {0} /\ RowPage \in Nat \ {0} /\ IdPage \in Nat \ {0} /\ Settle \in Nat
  /\ LastSecond \in Nat /\ MaxChanges \in Nat /\ RunPages \in Nat \ {0}
  /\ Cardinality(Orders) \in Nat /\ Ever \in Int /\ Ever <= -1
BY MoyBounds, OrdersAssumption, FS_CardinalityType DEF Ever

\* At the start nothing is counted.
LEMMA CountsStart == MoyInit => MoyCounts
<1> SUFFICES ASSUME MoyInit PROVE MoyCounts
  OBVIOUS
<1>1. RowsCounted
  <2>1. second = 0 /\ changes = 0
    BY DEF MoyInit
  <2>2. \A o \in Orders : order[o].content = 0 /\ order[o].paid = 0
    BY DEF MoyInit
  <2>3. \A o \in Orders : kept[o].updated = -1 /\ kept[o].content = -1 /\ kept[o].paid = -1
    BY DEF MoyInit, NoRow
  <2> QED
    BY <2>1, <2>2, <2>3, CountBounds DEF RowsCounted
<1>2. DOMAIN inHand = {} /\ Cardinality(DOMAIN inHand) = 0
  BY FS_EmptySet DEF MoyInit
<1>3. HandCounted
  BY <1>2, CountBounds DEF HandCounted
<1>4. RunCounted
  <2>1. runs = 0 /\ turned = 0 /\ listed = {} /\ began = 0 /\ since = Ever /\ offset = 0 /\ second = 0
    BY DEF MoyInit
  <2>2. ~IsFull
    BY <1>2, CountBounds DEF IsFull
  <2> QED
    BY <2>1, <2>2, CountBounds DEF RunCounted
<1>5. QED
  BY <1>1, <1>3, <1>4 DEF MoyCounts

\* Where a run ends.
LEMMA EndsCounted ==
  ASSUME EndsRun, second' \in Nat, runs' \in 0..(SweepRuns - 1)
  PROVE  HandCounted' /\ RunCounted'
<1>1. DOMAIN inHand' = {} /\ Cardinality(DOMAIN inHand') = 0
  BY FS_EmptySet DEF EndsRun
<1>2. HandCounted'
  BY <1>1, CountBounds DEF HandCounted
<1>3. ~IsFull'
  BY <1>1, CountBounds DEF IsFull
<1>4. began' = 0 /\ since' = Ever /\ offset' = 0 /\ turned' = 0 /\ listed' = {}
  BY DEF EndsRun
<1>5. Ever \in Ever..second' /\ 0 \in 0..second' /\ 0 \in 0..Cardinality(Orders) /\ 0 \in 0..(RunPages - 1)
  BY CountBounds
<1>6. RunCounted'
  BY <1>3, <1>4, <1>5 DEF RunCounted
<1>7. QED
  BY <1>2, <1>6

\* The warehouse changes one order.
LEMMA ChangeCounted ==
  ASSUME MoyInv, MoyCounts, PlaceOrder \/ EditOrder \/ BookPayment \/ BinOrder
  PROVE  MoyCounts'
<1>1. second' = second /\ kept' = kept /\ runs' = runs /\ UNCHANGED run /\ MayChange
  BY DEF PlaceOrder, EditOrder, BookPayment, BinOrder, Updates
<1>2. /\ MoyShapes /\ changes \in Nat /\ changes' = changes + 1 /\ changes' \in 0..MaxChanges
      /\ second \in 0..LastSecond
  BY <1>1, CountBounds DEF MoyInv, MoyCounts, RowsCounted, MayChange
<1>3. ASSUME NEW x \in Orders,
             \/ \E u : order' = [order EXCEPT ![x] = [place |-> "live", updated |-> u,
                                                      content |-> @.content + 1, paid |-> @.paid]]
             \/ order' = [order EXCEPT ![x].paid = @ + 1]
             \/ order' = [order EXCEPT ![x].place = "bin"]
      PROVE  \A o \in Orders : order'[o].content <= changes' /\ order'[o].paid <= changes'
  <2> SUFFICES ASSUME NEW o \in Orders PROVE order'[o].content <= changes' /\ order'[o].paid <= changes'
    OBVIOUS
  <2>1. /\ order[o] \in OrderRow /\ order[o].content \in Nat /\ order[o].paid \in Nat
        /\ order[o].content <= changes /\ order[o].paid <= changes /\ order \in [Orders -> OrderRow]
    BY <1>2, OrderTypes DEF MoyCounts, RowsCounted, MoyShapes
  <2>2. /\ order'[o].content = order[o].content \/ order'[o].content = order[o].content + 1
        /\ order'[o].paid = order[o].paid \/ order'[o].paid = order[o].paid + 1
    <3>1. CASE \E u : order' = [order EXCEPT ![x] = [place |-> "live", updated |-> u,
                                                     content |-> @.content + 1, paid |-> @.paid]]
      BY <2>1, <3>1
    <3>2. CASE order' = [order EXCEPT ![x].paid = @ + 1]
      BY <2>1, <3>2 DEF OrderRow
    <3>3. CASE order' = [order EXCEPT ![x].place = "bin"]
      BY <2>1, <3>3 DEF OrderRow
    <3> QED
      BY <1>3, <3>1, <3>2, <3>3
  <2> QED
    BY <1>2, <2>1, <2>2
<1>4. \A o \in Orders : order'[o].content <= changes' /\ order'[o].paid <= changes'
  <2>1. CASE PlaceOrder
    BY <1>3, <2>1 DEF PlaceOrder, Updates
  <2>2. CASE EditOrder
    BY <1>3, <2>2 DEF EditOrder, Updates, Live
  <2>3. CASE BookPayment
    BY <1>3, <2>3 DEF BookPayment, Live
  <2>4. CASE BinOrder
    BY <1>3, <2>4 DEF BinOrder, Live
  <2> QED
    BY <2>1, <2>2, <2>3, <2>4
<1>5. -1..changes \subseteq -1..changes' /\ 0..changes \subseteq 0..changes'
  BY <1>2
<1>6. RowsCounted'
  BY <1>1, <1>2, <1>4, <1>5 DEF MoyCounts, RowsCounted
<1>7. HandCounted'
  BY <1>1, <1>5 DEF MoyCounts, HandCounted, run
<1>8. RunCounted'
  BY <1>1 DEF MoyCounts, RunCounted, run, IsFull
<1>9. QED
  BY <1>6, <1>7, <1>8 DEF MoyCounts

\* A second passes.
LEMMA SecondCounted ==
  ASSUME MoyInv, MoyCounts, NextSecond
  PROVE  MoyCounts'
<1>1. /\ second' = second + 1 /\ second < LastSecond
      /\ UNCHANGED <<order, changes, kept, runs, began, since, offset, turned, inHand, listed>>
  BY DEF NextSecond, run
<1>2. second \in Nat /\ second' \in 0..LastSecond /\ Ever \in Int
  BY <1>1, CountBounds DEF MoyCounts, RowsCounted
<1>3. -1..second \subseteq -1..second' /\ 0..second \subseteq 0..second' /\ Ever..second \subseteq Ever..second'
  BY <1>1, <1>2
<1>4. RowsCounted'
  BY <1>1, <1>2, <1>3 DEF MoyCounts, RowsCounted
<1>5. HandCounted'
  BY <1>1 DEF MoyCounts, HandCounted
<1>6. RunCounted'
  BY <1>1, <1>3 DEF MoyCounts, RunCounted, IsFull
<1>7. QED
  BY <1>4, <1>5, <1>6 DEF MoyCounts

\* Rows that stay as they were.
LEMMA SameRows ==
  ASSUME RowsCounted, UNCHANGED <<warehouse, kept>>
  PROVE  RowsCounted'
BY DEF RowsCounted, warehouse

\* A run begins, since the newest row it has.
LEMMA BeginCounted ==
  ASSUME MoyInv, MoyCounts, BeginRun
  PROVE  MoyCounts'
<1>1. /\ UNCHANGED <<warehouse, kept, offset, turned, inHand, listed>> /\ began' = second /\ second' = second
      /\ runs' = (runs + 1) % SweepRuns
      /\ since' \in IF Stored = {} THEN {Ever} ELSE {n - Settle : n \in Newest}
  BY DEF BeginRun, warehouse
<1>2. MoyShapes /\ second \in Nat
  BY DEF MoyInv, MoyShapes
<1>3. runs' \in 0..(SweepRuns - 1)
  <2>1. runs + 1 \in Int /\ SweepRuns \in Nat \ {0}
    BY CountBounds DEF MoyCounts, RunCounted
  <2> QED
    BY <1>1, <2>1
<1>4. since' \in Ever..second
  <2>1. CASE Stored = {}
    BY <1>1, <1>2, <2>1, CountBounds
  <2>2. CASE Stored # {}
    <3>1. PICK o \in Stored : since' = kept[o].updated - Settle
      BY <1>1, <2>2 DEF Newest
    <3>2. o \in Orders /\ 0 <= kept[o].updated /\ kept[o].updated <= order[o].updated
      BY <1>2 DEF Stored, MoyShapes, IsEarlier
    <3>3. kept[o].updated \in Int /\ order[o].updated \in Nat /\ order[o].updated <= second
      BY <1>2, <3>2, OrderTypes
    <3> QED
      BY <1>2, <3>1, <3>2, <3>3, CountBounds DEF Ever
  <2> QED
    BY <2>1, <2>2
<1>5. RowsCounted' /\ HandCounted'
  BY <1>1, SameRows DEF MoyCounts, HandCounted, warehouse
<1>6. RunCounted'
  BY <1>1, <1>2, <1>3, <1>4 DEF MoyCounts, RunCounted, IsFull
<1>7. QED
  BY <1>5, <1>6 DEF MoyCounts

\* A page of the changed orders is read.
LEMMA ReadCounted ==
  ASSUME MoyInv, MoyCounts, ReadPage
  PROVE  MoyCounts'
<1> DEFINE C == {p \in Live : order[p].updated >= since}
           page == Page(Changed(C), offset, RowPage)
<1>1. /\ UNCHANGED <<warehouse, kept, runs, began, since, offset, turned, listed>>
      /\ inHand' = [o \in page |-> RowOf(o)]
  BY DEF ReadPage
<1>2. MoyShapes /\ offset \in Nat /\ C \subseteq Orders /\ RowPage \in Nat \ {0}
  BY CountBounds DEF MoyInv, MoyShapes, Live
<1>3. IsFiniteSet(C) /\ IsOrdered(Changed(C), C) /\ Cardinality(C) <= Cardinality(Orders) /\ Cardinality(C) \in Nat
  BY <1>2, ChangedIsOrdered, FewOrders, MoreOrders
<1> HIDE DEF C
<1>4. /\ page \subseteq C /\ Cardinality(page) \in Nat /\ Cardinality(page) <= RowPage
      /\ Cardinality(page) = RowPage => offset + RowPage <= Cardinality(C)
  BY <1>2, <1>3, PageFits
<1> HIDE DEF page
<1>5. DOMAIN inHand' = page /\ \A o \in page : inHand'[o] = RowOf(o)
  BY <1>1
<1>6. HandCounted'
  <2>1. ASSUME NEW o \in page PROVE inHand'[o].content \in 0..changes /\ inHand'[o].paid \in 0..changes
    <3>1. o \in Orders
      BY <1>2, <1>4
    <3>2. order[o].content \in Nat /\ order[o].paid \in Nat /\ order[o].content <= changes /\ order[o].paid <= changes
      BY <1>2, <3>1, OrderTypes DEF MoyCounts, RowsCounted
    <3>3. inHand'[o].content = order[o].content /\ inHand'[o].paid = order[o].paid /\ changes \in Nat
      BY <1>5, CountBounds DEF RowOf, MoyCounts, RowsCounted
    <3> QED
      BY <3>2, <3>3
  <2> QED
    BY <1>1, <1>4, <1>5, <2>1 DEF HandCounted, warehouse
<1>7. RunCounted'
  <2>1. IsFull' => offset + RowPage <= Cardinality(Orders)
    BY <1>2, <1>3, <1>4, <1>5, CountBounds DEF IsFull
  <2> QED
    BY <1>1, <2>1 DEF MoyCounts, RunCounted, warehouse
<1>8. QED
  BY <1>1, <1>6, <1>7, SameRows DEF MoyCounts

\* A page is written, and the run moves on or ends.
LEMMA WriteCounted ==
  ASSUME MoyInv, MoyCounts, WritePage
  PROVE  MoyCounts'
<1>1. /\ second' = second /\ changes' = changes /\ order' = order /\ runs' = runs
      /\ kept' = [o \in Orders |-> IF o \in DOMAIN inHand THEN inHand[o] ELSE kept[o]]
      /\ inHand' = [o \in {} |-> NoRow]
  BY DEF WritePage, warehouse
<1>2. MoyShapes /\ second \in Nat /\ offset \in Nat /\ since \in Ever..second /\ runs \in 0..(SweepRuns - 1)
  BY DEF MoyInv, MoyShapes, MoyCounts, RunCounted
<1>3. RowsCounted'
  <2>1. ASSUME NEW o \in Orders
        PROVE  /\ kept'[o].updated \in -1..second /\ kept'[o].content \in -1..changes
               /\ kept'[o].paid \in -1..changes
    <3>1. CASE o \in DOMAIN inHand
      <4>1. kept'[o] = inHand[o]
        BY <1>1, <3>1
      <4>2. inHand[o] \in KeptRow /\ 0 <= inHand[o].updated /\ inHand[o].updated <= order[o].updated
        BY <1>2, <3>1 DEF MoyShapes, IsEarlier
      <4>3. inHand[o].updated \in Int /\ order[o].updated \in Nat /\ order[o].updated <= second
        BY <1>2, <4>2, OrderTypes DEF KeptRow
      <4>4. inHand[o].content \in 0..changes /\ inHand[o].paid \in 0..changes /\ changes \in Nat
        BY <3>1, CountBounds DEF MoyCounts, HandCounted, RowsCounted
      <4> QED
        BY <1>2, <4>1, <4>2, <4>3, <4>4
    <3>2. CASE o \notin DOMAIN inHand
      <4>1. kept'[o] = kept[o]
        BY <1>1, <3>2
      <4> QED
        BY <4>1 DEF MoyCounts, RowsCounted
    <3> QED
      BY <3>1, <3>2
  <2> QED
    BY <1>1, <2>1 DEF MoyCounts, RowsCounted
<1>4. DOMAIN inHand' = {} /\ Cardinality(DOMAIN inHand') = 0
  BY <1>1, FS_EmptySet
<1>5. HandCounted' /\ ~IsFull'
  BY <1>4, CountBounds DEF HandCounted, IsFull
<1>6. CASE ~IsFull
  <2>1. offset' = 0 /\ UNCHANGED <<began, since, turned, listed>>
    BY <1>6 DEF WritePage
  <2>2. 0 \in 0..Cardinality(Orders)
    BY CountBounds
  <2> QED
    BY <1>1, <1>3, <1>5, <2>1, <2>2 DEF MoyCounts, RunCounted
<1>7. CASE IsFull /\ IsLastPage
  <2>1. EndsRun
    BY <1>7 DEF WritePage
  <2> QED
    BY <1>1, <1>2, <1>3, <2>1, EndsCounted DEF MoyCounts
<1>8. CASE IsFull /\ ~IsLastPage
  <2>1. turned' = turned + 1 /\ NextPage /\ UNCHANGED <<began, listed>>
    BY <1>8 DEF WritePage
  <2>2. turned' \in 0..(RunPages - 1)
    BY <1>8, <2>1, CountBounds DEF IsLastPage, MoyCounts, RunCounted
  <2>3. LastRead \in Nat /\ LastRead <= second /\ offset + RowPage <= Cardinality(Orders)
    BY <1>2, <1>8, LastReadFacts DEF MoyCounts, RunCounted
  <2>4. since' \in Ever..second /\ offset' \in 0..Cardinality(Orders)
    <3>1. CASE LastRead > since
      <4>1. since' = LastRead /\ offset' = 0
        BY <2>1, <3>1 DEF NextPage
      <4> QED
        BY <1>2, <2>3, <4>1, CountBounds
    <3>2. CASE ~(LastRead > since)
      <4>1. since' = since /\ offset' = offset + RowPage
        BY <2>1, <3>2 DEF NextPage
      <4> QED
        BY <1>2, <2>3, <4>1, CountBounds
    <3> QED
      BY <3>1, <3>2
  <2> QED
    BY <1>1, <1>3, <1>5, <2>1, <2>2, <2>4 DEF MoyCounts, RunCounted
<1>9. QED
  BY <1>6, <1>7, <1>8

\* A page of ids is listed; after the last one the gone are asked for, or not.
LEMMA ListCounted ==
  ASSUME MoyInv, MoyCounts, ListIds
  PROVE  MoyCounts'
<1> DEFINE page == Page(Listing(Live), offset, IdPage)
           all == listed \cup page
           gone == Stored \ all
<1>1. /\ UNCHANGED <<warehouse, kept, runs>> /\ second' = second
      /\ IF Cardinality(page) = IdPage
         THEN /\ listed' = all /\ offset' = offset + IdPage
              /\ UNCHANGED <<began, since, turned, inHand>>
         ELSE IF all = {} \/ Cardinality(all) < Cardinality(Live) \/ Cardinality(gone) > SweepLimit THEN EndsRun
         ELSE /\ listed' = all /\ offset' = 0
              /\ UNCHANGED <<began, since, turned, inHand>>
  BY DEF ListIds, warehouse
<1>2. offset \in Nat /\ Live \subseteq Orders /\ IdPage \in Nat \ {0} /\ second \in Nat /\ runs \in 0..(SweepRuns - 1)
  BY CountBounds DEF MoyInv, MoyShapes, Live, MoyCounts, RunCounted
<1>3. IsFiniteSet(Live) /\ IsOrdered(Listing(Live), Live) /\ Cardinality(Live) <= Cardinality(Orders)
      /\ Cardinality(Live) \in Nat
  BY <1>2, ListingIsOrdered, FewOrders, MoreOrders
<1>4. page \subseteq Live /\ (Cardinality(page) = IdPage => offset + IdPage <= Cardinality(Live))
  BY <1>2, <1>3, PageFits
<1>5. all \subseteq Orders
  BY <1>2, <1>4 DEF MoyCounts, RunCounted
<1> HIDE DEF page, all, gone
<1>6. RowsCounted'
  BY <1>1, SameRows DEF MoyCounts
<1>7. CASE EndsRun
  BY <1>1, <1>2, <1>6, <1>7, EndsCounted DEF MoyCounts
<1>8. CASE /\ listed' = all /\ offset' \in 0..Cardinality(Orders) /\ UNCHANGED <<began, since, turned, inHand>>
           /\ ~IsFull
  <2>1. HandCounted'
    BY <1>1, <1>8 DEF MoyCounts, HandCounted, warehouse
  <2>2. RunCounted'
    BY <1>1, <1>5, <1>8 DEF MoyCounts, RunCounted, IsFull
  <2> QED
    BY <1>6, <2>1, <2>2 DEF MoyCounts
<1>9. ~IsFull
  <2>1. DOMAIN inHand = {}
    BY DEF MoyInv, MoyShapes, ListIds
  <2> QED
    BY <2>1, FS_EmptySet, CountBounds DEF IsFull
<1>10. offset + IdPage <= Cardinality(Live) => offset + IdPage \in 0..Cardinality(Orders)
  BY <1>2, <1>3, CountBounds
<1>11. 0 \in 0..Cardinality(Orders)
  BY CountBounds
<1>12. QED
  BY <1>1, <1>4, <1>7, <1>8, <1>9, <1>10, <1>11

\* The unlisted are asked for, and the gone removed.
LEMMA AskCounted ==
  ASSUME MoyInv, MoyCounts, AskGone
  PROVE  MoyCounts'
<1>1. /\ UNCHANGED <<warehouse, runs, run>>
      /\ kept' = [o \in Orders |-> IF o \notin listed /\ IsGone(o) THEN NoRow ELSE kept[o]]
  BY DEF AskGone
<1>2. second \in Nat /\ changes \in Nat
  BY CountBounds DEF MoyCounts, RowsCounted
<1>3. \A o \in Orders : kept'[o] = NoRow \/ kept'[o] = kept[o]
  BY <1>1
<1>4. NoRow.updated = -1 /\ NoRow.content = -1 /\ NoRow.paid = -1 /\ -1 \in -1..second /\ -1 \in -1..changes
  BY <1>2 DEF NoRow
<1>5. \A o \in Orders : kept'[o].updated \in -1..second /\ kept'[o].content \in -1..changes /\ kept'[o].paid \in -1..changes
  BY <1>3, <1>4 DEF MoyCounts, RowsCounted
<1>6. RowsCounted'
  BY <1>1, <1>5 DEF MoyCounts, RowsCounted, warehouse
<1>7. QED
  BY <1>1, <1>6 DEF MoyCounts, HandCounted, RunCounted, IsFull, run, warehouse

\* A page of payments is read and written.
LEMMA PayCounted ==
  ASSUME MoyInv, MoyCounts, PayPage
  PROVE  MoyCounts'
<1> DEFINE page == Page(Listing(Priced), offset, IdPage)
<1>1. /\ UNCHANGED <<warehouse, runs>> /\ second' = second
      /\ kept' = [o \in Orders |-> IF o \in page \cap Stored THEN [kept[o] EXCEPT !.paid = order[o].paid]
                                     ELSE kept[o]]
      /\ IF Cardinality(page) = IdPage
         THEN offset' = offset + IdPage /\ UNCHANGED <<began, since, turned, inHand, listed>>
         ELSE EndsRun
  BY DEF PayPage, Priced, warehouse
<1>2. /\ MoyShapes /\ offset \in Nat /\ Priced \subseteq Orders /\ IdPage \in Nat \ {0} /\ second \in Nat
      /\ runs \in 0..(SweepRuns - 1)
  BY CountBounds DEF MoyInv, MoyShapes, Priced, Live, MoyCounts, RunCounted
<1>3. IsFiniteSet(Priced) /\ IsOrdered(Listing(Priced), Priced) /\ Cardinality(Priced) <= Cardinality(Orders)
      /\ Cardinality(Priced) \in Nat
  BY <1>2, ListingIsOrdered, FewOrders, MoreOrders
<1>4. Cardinality(page) = IdPage => offset + IdPage <= Cardinality(Priced)
  BY <1>2, <1>3, PageFits
<1> HIDE DEF page
<1>5. ASSUME NEW o \in Orders
      PROVE  /\ kept'[o].updated \in -1..second /\ kept'[o].content \in -1..changes
             /\ kept'[o].paid \in -1..changes
  <2>1. /\ kept[o] \in KeptRow /\ order[o].paid \in Nat /\ order[o].paid <= changes /\ changes \in Nat
        /\ kept[o].updated \in -1..second /\ kept[o].content \in -1..changes /\ kept[o].paid \in -1..changes
    BY <1>2, OrderTypes, CountBounds DEF MoyCounts, RowsCounted
  <2>2. kept'[o] = kept[o] \/ kept'[o] = [kept[o] EXCEPT !.paid = order[o].paid]
    BY <1>1
  <2>3. /\ kept'[o].updated = kept[o].updated /\ kept'[o].content = kept[o].content
        /\ kept'[o].paid = kept[o].paid \/ kept'[o].paid = order[o].paid
    BY <2>1, <2>2 DEF KeptRow
  <2>4. order[o].paid \in -1..changes
    BY <2>1
  <2> QED
    BY <2>1, <2>3, <2>4
<1>6. RowsCounted'
  BY <1>1, <1>5 DEF MoyCounts, RowsCounted, warehouse
<1>7. CASE EndsRun
  BY <1>1, <1>2, <1>6, <1>7, EndsCounted DEF MoyCounts
<1>8. CASE Cardinality(page) = IdPage
  <2>1. offset' = offset + IdPage /\ UNCHANGED <<began, since, turned, inHand, listed>>
    BY <1>1, <1>8
  <2>2. offset' \in 0..Cardinality(Orders)
    BY <1>2, <1>3, <1>4, <1>8, <2>1, CountBounds
  <2>3. DOMAIN inHand = {}
    BY DEF MoyInv, MoyShapes, PayPage
  <2>4. ~IsFull
    BY <2>3, FS_EmptySet, CountBounds DEF IsFull
  <2>5. HandCounted'
    BY <1>1, <2>1 DEF MoyCounts, HandCounted, warehouse
  <2>6. RunCounted'
    BY <1>1, <2>1, <2>2, <2>4 DEF MoyCounts, RunCounted, IsFull
  <2> QED
    BY <1>6, <2>5, <2>6 DEF MoyCounts
<1>9. QED
  BY <1>1, <1>7, <1>8

\* Every step keeps the counts.
LEMMA CountsStep == MoyInv /\ MoyCounts /\ [MoyNext]_moyVars => MoyCounts'
<1> SUFFICES ASSUME MoyInv, MoyCounts, [MoyNext]_moyVars PROVE MoyCounts'
  OBVIOUS
<1>1. ASSUME RunFails PROVE MoyCounts'
  <2>1. EndsRun /\ UNCHANGED <<warehouse, kept, runs>>
    BY <1>1 DEF RunFails
  <2>2. second' \in Nat /\ runs' \in 0..(SweepRuns - 1)
    BY <2>1 DEF warehouse, MoyInv, MoyShapes, MoyCounts, RunCounted
  <2> QED
    BY <2>1, <2>2, SameRows, EndsCounted DEF MoyCounts
<1>2. ASSUME DeployMoysklad PROVE MoyCounts'
  <2>1. runs' = 0 /\ UNCHANGED <<warehouse, kept, run>>
    BY <1>2 DEF DeployMoysklad
  <2>2. 0 \in 0..(SweepRuns - 1)
    BY CountBounds
  <2> QED
    BY <2>1, <2>2, SameRows DEF MoyCounts, HandCounted, RunCounted, IsFull, run, warehouse
<1>3. ASSUME BeginPayments \/ UNCHANGED moyVars PROVE MoyCounts'
  <2>1. UNCHANGED <<warehouse, kept, runs, run>>
    BY <1>3 DEF BeginPayments, moyVars
  <2> QED
    BY <2>1, SameRows DEF MoyCounts, HandCounted, RunCounted, IsFull, run, warehouse
<1> QED
  BY <1>1, <1>2, <1>3, ChangeCounted, SecondCounted, BeginCounted, ReadCounted, WriteCounted, ListCounted,
     AskCounted, PayCounted DEF MoyNext

\* The counts and what is known of a run are its types.
LEMMA CountedIsTyped == MoyInv /\ MoyCounts => MoyTypeOK
<1> SUFFICES ASSUME MoyInv, MoyCounts PROVE MoyTypeOK
  OBVIOUS
<1> DEFINE Placements == [place : {"none", "live", "bin"}, updated : 0..second, content : 0..MaxChanges,
                          paid : 0..MaxChanges]
           Rows1 == [updated : -1..second, content : -1..MaxChanges, paid : -1..MaxChanges]
<1>1. MoyShapes /\ changes \in Nat /\ changes <= MaxChanges /\ MaxChanges \in Nat /\ second \in Nat
  BY CountBounds DEF MoyInv, MoyCounts, RowsCounted, MoyShapes
<1>2. ASSUME NEW o \in Orders PROVE order[o] \in Placements /\ kept[o] \in Rows1
  <2>1. /\ order[o] \in OrderRow /\ kept[o] \in KeptRow
        /\ order[o].updated \in Nat /\ order[o].content \in Nat /\ order[o].paid \in Nat
        /\ order[o].updated <= second /\ order[o].content <= changes /\ order[o].paid <= changes
        /\ kept[o].updated \in -1..second /\ kept[o].content \in -1..changes /\ kept[o].paid \in -1..changes
    BY <1>1, OrderTypes DEF MoyCounts, RowsCounted
  <2>2. order[o].updated \in 0..second /\ order[o].content \in 0..MaxChanges /\ order[o].paid \in 0..MaxChanges
    BY <1>1, <2>1
  <2>3. -1..changes \subseteq -1..MaxChanges
    BY <1>1
  <2>4. order[o] \in Placements
    BY <2>1, <2>2 DEF OrderRow
  <2>5. kept[o] \in Rows1
    BY <2>1, <2>3 DEF KeptRow
  <2> QED
    BY <2>4, <2>5
<1>3. order \in [Orders -> Placements] /\ kept \in [Orders -> Rows1]
  <2> HIDE DEF Placements, Rows1
  <2> QED
    BY <1>1, <1>2 DEF MoyShapes
<1>4. doing \in {"idle", "read", "write", "list", "ask", "pay", "paying"} /\ DOMAIN inHand \subseteq Orders
  BY <1>1 DEF MoyShapes
<1>5. QED
  BY <1>3, <1>4 DEF MoyTypeOK, MoyCounts, RowsCounted, HandCounted, RunCounted

(***************************************************************************)
(* A page in hand holds no more than PAGE rows, a run no more pages than   *)
(* its cap, and the place it reads from is one of the list, however orders *)
(* come and go between two pages (importMoyskladOrders).                   *)
(***************************************************************************)
THEOREM OrdersAreWellFormed == MoySpec => []MoyTypeOK
BY MoyInvInit, MoyStep, CountsStart, CountsStep, CountedIsTyped, PTL DEF MoySpec

-------------------------------------------------------------------------------
(* The parts together: one of them runs, the others stay. *)

\* A step of the worker is a step of one part: each part sees its own
\* specification.
LEMMA WorkerPartsRunAlone == MCSpec => Spec /\ FeedSpec /\ ChatsSpec /\ NightSpec /\ MoySpec
<1>1. MCInit => Init /\ FeedInit /\ ChatsInit /\ NightInit /\ MoyInit
  BY DEF MCInit
<1>2. [MCNext]_<<parts, part>> => /\ [Next]_vars /\ [FeedNext]_feedVars /\ [ChatsNext]_chatVars
                                      /\ [NightNext]_nightVars /\ [MoyNext]_moyVars
  <2> SUFFICES ASSUME [MCNext]_<<parts, part>>
               PROVE  /\ [Next]_vars /\ [FeedNext]_feedVars /\ [ChatsNext]_chatVars
                      /\ [NightNext]_nightVars /\ [MoyNext]_moyVars
    OBVIOUS
  <2>1. CASE MCNext
    <3>1. /\ Next \/ UNCHANGED vars
          /\ FeedNext \/ UNCHANGED feedVars
          /\ ChatsNext \/ UNCHANGED chatVars
          /\ NightNext \/ UNCHANGED nightVars
          /\ MoyNext \/ UNCHANGED moyVars
      BY <2>1 DEF MCNext
    <3> QED
      BY <3>1
  <2>2. CASE UNCHANGED <<parts, part>>
    BY <2>2 DEF parts
  <2> QED
    BY <2>1, <2>2
<1>3. QED
  BY <1>1, <1>2, PTL DEF MCSpec, Spec, FeedSpec, ChatsSpec, NightSpec, MoySpec

(***************************************************************************)
(* Every part of the worker's loop keeps its types: the floors under the   *)
(* rows, the anchors in their order, the pages within their cap.           *)
(***************************************************************************)
THEOREM WorkerIsWellFormed == MCSpec => []WorkerTypeOK
BY WorkerPartsRunAlone, SlowPassesAreWellFormed, FeedIsWellFormed, ChatsAreWellFormed, NightsAreWellFormed, OrdersAreWellFormed, PTL
   DEF WorkerTypeOK
===============================================================================
