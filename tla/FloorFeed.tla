------------------------------- MODULE FloorFeed -------------------------------
(***************************************************************************)
(* A feed of the portal's rows by id: form fills, deal births, deal moves  *)
(* (refreshFormFills, refreshDealBirths).  A pass reads what lies above    *)
(* its floor a page at a time and moves the floor up to the newest row     *)
(* that is Overlap old, since the portal hands a row its id before it      *)
(* shows the row.  Rows are numbered by id; 0 lies under the first.        *)
(***************************************************************************)
EXTENDS Integers, FiniteSets

CONSTANTS
  MaxRow,    \* Bound: rows.
  Lag,       \* Longest time between a row's stamp and its showing.
  Overlap,   \* FORM_FILL_OVERLAP_MS
  PageSize,  \* LIST_PAGE
  MaxPages,  \* FORM_FILL_PAGES
  From,      \* The first instant of FORM_FILLS_FROM_MONTH
  LastNow    \* Bound: the clock.

ASSUME FeedAssumption ==
  /\ MaxRow \in Nat /\ Lag \in Nat /\ Overlap \in Nat /\ Lag < Overlap
  /\ PageSize \in Nat \ {0} /\ MaxPages \in Nat \ {0} /\ From \in Nat /\ LastNow \in Nat

VARIABLES
  \* The portal:
  feedNow, newest,      \* The clock, and the last id handed out.
  stamp, shown,         \* When each row was stamped, and the rows it shows.
  \* The database:
  stored, saved,        \* The table, and the bookmark: a floor, or NoFloor.
  \* The pass:
  walk,                 \* Where it is.
  passAt,               \* "now", read when it began.
  cursor, floor, pages, \* How far it has read, may move the floor, and its pages.
  answer, complete,     \* The page just read, and whether it was the last.
  \* For the properties:
  due,                  \* What the portal showed when the pass began,
  promised              \* and what it showed when the last success began.

portalRows == <<feedNow, newest, stamp, shown>>
progress == <<cursor, floor, pages, answer, complete>>
feedVars == <<portalRows, stored, saved, walk, passAt, progress, due, promised>>

Row == 1..MaxRow
NoFloor == -1

FeedInit ==
  /\ feedNow = 0 /\ newest = 0 /\ stamp = [i \in Row |-> 0] /\ shown = {}
  /\ stored = {} /\ saved = NoFloor
  /\ walk = "idle" /\ passAt = 0
  /\ cursor = 0 /\ floor = 0 /\ pages = 0 /\ answer = {} /\ complete = FALSE
  /\ due = {} /\ promised = {}

-------------------------------------------------------------------------------
(* The portal. *)

HandOut ==
  /\ newest < MaxRow
  /\ newest' = newest + 1 /\ stamp' = [stamp EXCEPT ![newest'] = feedNow]
  /\ UNCHANGED <<feedNow, shown, stored, saved, walk, passAt, progress, due, promised>>

Hidden == (1..newest) \ shown

ShowRow ==
  /\ \E i \in Hidden : shown' = shown \cup {i}
  /\ UNCHANGED <<feedNow, newest, stamp, stored, saved, walk, passAt, progress, due, promised>>

FeedTick ==
  /\ feedNow < LastNow /\ \A i \in Hidden : feedNow < stamp[i] + Lag
  /\ feedNow' = feedNow + 1
  /\ UNCHANGED <<newest, stamp, shown, stored, saved, walk, passAt, progress, due, promised>>

-------------------------------------------------------------------------------
(* A pass. *)

Recent == {i \in 1..newest : stamp[i] >= From}

WalkFrom(f) ==
  /\ walk' = "fetch" /\ cursor' = f /\ floor' = f /\ pages' = 0
  /\ answer' = {} /\ complete' = FALSE

\* The month it starts at has rows that have long been shown.
MonthHasBegun == \E i \in Recent : stamp[i] + Lag < feedNow

BeginPass ==
  /\ walk = "idle" /\ MonthHasBegun
  /\ passAt' = feedNow /\ due' = shown \cap Recent
  /\ IF saved = NoFloor THEN walk' = "ask" /\ UNCHANGED progress ELSE WalkFrom(saved)
  /\ UNCHANGED <<portalRows, stored, saved, promised>>

\* The dated read: one under the first row of the month, kept before the walk.
FirstFloor ==
  /\ walk = "ask"
  /\ \E i \in shown \cap Recent :
       /\ \A j \in shown \cap Recent : i <= j
       /\ saved' = i - 1 /\ WalkFrom(i - 1)
  /\ UNCHANGED <<portalRows, stored, passAt, due, promised>>

Over == walk' = "idle" /\ UNCHANGED progress

\* It fails, or finds nothing.
NoFirstFloor ==
  /\ walk = "ask" /\ Over
  /\ UNCHANGED <<portalRows, stored, saved, passAt, due, promised>>

Above == {i \in shown : i > cursor}

\* fetchFormFills: the first rows above the cursor, as many as a page holds.
IsPage(page) ==
  /\ page \subseteq Above /\ \A i \in page, j \in Above : j < i => j \in page
  /\ \/ Cardinality(page) = PageSize
     \/ Cardinality(page) < PageSize /\ page = Above

FetchRows ==
  /\ walk = "fetch" /\ walk' = "insert"
  /\ \E page \in SUBSET Above :
       IsPage(page) /\ answer' = page /\ complete' = (Cardinality(page) < PageSize)
  /\ UNCHANGED <<portalRows, stored, saved, passAt, cursor, floor, pages, due, promised>>

\* Mutant: the floor follows the cursor.
SettledAtOnce == answer

Settled == {i \in answer : stamp[i] <= passAt - Overlap}

Ends(end) == end

\* Mutant: the walk has no end of its own.
MayGoOnAlways == ~complete

MayGoOn == ~complete /\ pages + 1 < MaxPages

\* The page is written; then the walk goes on, or ends at the newest row, at
\* its cap, or because the worker is stopping.
InsertRows ==
  /\ walk = "insert"
  /\ stored' = stored \cup answer
  /\ \E c \in {cursor} \cup answer : (\A i \in answer : i <= c) /\ cursor' = c
  /\ \E f \in {floor} \cup Settled : (\A i \in Settled : i <= f) /\ floor' = f
  /\ answer' = {} /\ pages' = IF MayGoOn THEN pages + 1 ELSE pages
  /\ walk' \in IF complete THEN {Ends("succeed")}
               ELSE {Ends("remember")} \cup (IF MayGoOn THEN {Ends("fetch")} ELSE {})
  /\ UNCHANGED <<portalRows, saved, passAt, complete, due, promised>>

\* A page that fails keeps what came before it.
PageFails ==
  /\ walk \in {"fetch", "insert"}
  /\ Over /\ saved' \in {saved, floor}
  /\ UNCHANGED <<portalRows, stored, passAt, due, promised>>

\* Past the walk: the bookmark is written, or that write fails.
RememberFloor ==
  /\ walk \in {"remember", "succeed"}
  /\ Over
  /\ \/ saved' = floor /\ promised' = IF walk = "succeed" THEN due ELSE promised
     \/ UNCHANGED <<saved, promised>>
  /\ UNCHANGED <<portalRows, stored, passAt, due>>

\* The process dies anywhere.
FeedCrash ==
  /\ walk # "idle" /\ Over
  /\ UNCHANGED <<portalRows, stored, saved, passAt, due, promised>>

FeedNext ==
  \/ HandOut \/ ShowRow \/ FeedTick
  \/ BeginPass \/ FirstFloor \/ NoFirstFloor \/ FetchRows \/ InsertRows
  \/ PageFails \/ RememberFloor \/ FeedCrash

FeedSpec == FeedInit /\ [][FeedNext]_feedVars

-------------------------------------------------------------------------------
(* Properties. *)

FeedTypeOK ==
  /\ feedNow \in 0..LastNow /\ newest \in 0..MaxRow
  /\ stamp \in [Row -> 0..feedNow] /\ shown \subseteq 1..newest
  /\ stored \subseteq shown /\ saved \in {NoFloor} \cup 0..newest
  /\ walk \in {"idle", "ask", "fetch", "insert", "remember", "succeed"}
  /\ passAt \in 0..feedNow /\ cursor \in 0..newest /\ floor \in 0..cursor
  /\ pages \in 0..(MaxPages - 1) /\ answer \subseteq Above /\ complete \in BOOLEAN
  /\ due \subseteq shown /\ promised \subseteq shown

(***************************************************************************)
(* The bookmark never passes a row the table lacks, one the portal was     *)
(* still hiding when a later one was read included, wherever a pass fails  *)
(* or dies ("a floor at the largest id read would step over it").          *)
(***************************************************************************)
FloorIsWhole == saved # NoFloor => \A i \in Recent : i <= saved => i \in stored

(***************************************************************************)
(* "The clock says whole up to here": a pass that succeeds has written all *)
(* the portal showed when it began, however much was shown behind its      *)
(* cursor while it walked and whatever earlier passes left undone.         *)
(***************************************************************************)
WholeUpToHere == promised \subseteq stored

(***************************************************************************)
(* A feed has no hole: neither under its bookmark, which no later pass     *)
(* would look for, nor in what a pass that succeeded says it has read.     *)
(***************************************************************************)
FeedIsWhole == FloorIsWhole /\ WholeUpToHere

===============================================================================
