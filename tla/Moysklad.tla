------------------------------- MODULE Moysklad -------------------------------
(***************************************************************************)
(* The warehouse's orders (importMoyskladOrders): a run reads what changed *)
(* since the newest it holds, a page at a time in the order of `updated`,  *)
(* while the warehouse goes on editing; every so many runs it also removes *)
(* what the warehouse put in the bin; and it ends on the payments, which   *)
(* move without an edit.                                                   *)
(*                                                                         *)
(* Orders are numbered as they were placed.  Every order has its dates,    *)
(* and one put in the bin stays there.                                     *)
(***************************************************************************)
EXTENDS Integers, FiniteSets

CONSTANTS
  Orders,      \* 1..n
  Placed,      \* Those placed before the first run.
  Old,         \* Those placed before PAYMENT_WINDOW_MS.
  RowPage,    \* PAGE
  IdPage,      \* ID_PAGE
  RunPages,    \* MOYSKLAD_MAX_PAGES
  Settle,      \* SETTLE_MS
  SweepRuns,   \* MOYSKLAD_SWEEP_RUNS
  SweepLimit,   \* Orders a sweep may remove, of a table so small.
  ShownLate,   \* How much older than its showing an edit's stamp may be.
  ReadTime,    \* Bound: how long the pages of a run take.
  LastSecond,  \* Bound: the clock.
  MaxChanges   \* Bound: orders placed, edited, paid and deleted.

ASSUME OrdersAssumption ==
  /\ Orders \subseteq Nat /\ IsFiniteSet(Orders) /\ Old \subseteq Placed /\ Placed \subseteq Orders
  /\ {RowPage, IdPage, RunPages, SweepRuns} \subseteq Nat \ {0}
  /\ {Settle, SweepLimit, ShownLate, ReadTime, LastSecond, MaxChanges} \subseteq Nat
  /\ ShownLate + ReadTime <= Settle

VARIABLES
  \* The warehouse:
  second,
  order,    \* Where each is, when it was updated, its content and its payment.
  changes,  \* How many it has made.
  \* The database:
  kept,   \* The rows: when updated, content, payment.
  \* The run:
  runs,     \* How many have begun, modulo SweepRuns.
  doing, began, since, offset, turned,
  inHand,     \* The page in hand.
  listed,   \* The ids of a sweep.
  \* For the properties:
  slid,     \* Orders a step inside a second may have missed.
  owed      \* Payments this pass owes.

warehouse == <<second, order, changes>>
run == <<began, since, offset, turned, inHand, listed>>
moyVars == <<warehouse, kept, runs, doing, run, slid, owed>>

NoRow == [updated |-> -1, content |-> -1, paid |-> -1]
Live == {o \in Orders : order[o].place = "live"}
Stored == {o \in Orders : kept[o] # NoRow}
RowOf(o) == [updated |-> order[o].updated, content |-> order[o].content, paid |-> order[o].paid]

IsFull == Cardinality(DOMAIN inHand) = RowPage
LastRead == CHOOSE u \in {inHand[o].updated : o \in DOMAIN inHand} : \A o \in DOMAIN inHand : inHand[o].updated <= u

ByUpdate(p, o) ==
  order[p].updated < order[o].updated \/ (order[p].updated = order[o].updated /\ p < o)

\* Orders no filter leaves out.
Ever == -Settle - 1

MoyInit ==
  /\ second = 0 /\ changes = 0
  /\ order = [o \in Orders |->
       [place |-> IF o \in Placed THEN "live" ELSE "none", updated |-> 0, content |-> 0, paid |-> 0]]
  /\ kept = [o \in Orders |-> NoRow]
  /\ runs = 0 /\ doing = "idle" /\ began = 0 /\ since = Ever /\ offset = 0 /\ turned = 0
  /\ inHand = [o \in {} |-> NoRow] /\ listed = {} /\ slid = {} /\ owed = {}

-------------------------------------------------------------------------------
(* The warehouse. *)

MayChange == changes < MaxChanges /\ changes' = changes + 1

Updates(o) ==
  /\ MayChange
  /\ \E u \in (second - ShownLate)..second :
       /\ u >= order[o].updated
       /\ order' = [order EXCEPT ![o] = [place |-> "live", updated |-> u, content |-> @.content + 1, paid |-> @.paid]]

\* The next page is taken by offset, inside the second of `since`.
Steps == \/ doing = "read" /\ offset > 0
         \/ doing = "write" /\ IsFull /\ LastRead = since

\* An order leaves that second: those after it slide a place up, one of them past the offset.
Leaves(o) ==
  slid' = (slid \ {o}) \cup
          IF Steps /\ order[o].updated = since
          THEN {p \in Live \ {o} : ByUpdate(o, p) /\ kept[p] # RowOf(p)} ELSE {}

\* The first of every SweepRuns runs sweeps.
IsSweep == runs = 1 % SweepRuns

IsPriced(o) == IsSweep \/ o \notin Old

\* The payments' pages are past it.
Passed(o) == Cardinality({p \in Live : IsPriced(p) /\ p < o}) < offset

PlaceOrder ==
  /\ \E o \in Orders : order[o].place = "none" /\ (\A p \in Orders : p < o => order[p].place # "none")
                       /\ Updates(o)
  /\ UNCHANGED <<second, kept, runs, doing, run, slid, owed>>

EditOrder ==
  /\ \E o \in Live : Updates(o) /\ Leaves(o)
  /\ UNCHANGED <<second, kept, runs, doing, run, owed>>

\* A payment is another document: the order's `updated` stays.
BookPayment ==
  /\ MayChange
  /\ \E o \in Live : order' = [order EXCEPT ![o].paid = @ + 1]
  /\ UNCHANGED <<second, kept, runs, doing, run, slid, owed>>

\* The orders listed after it slide a place up: past the offset, those of a page already read.
BinOrder ==
  /\ MayChange
  /\ \E o \in Live :
       /\ order' = [order EXCEPT ![o].place = "bin"] /\ Leaves(o)
       /\ owed' = {p \in owed \ {o} : p < o \/ ~Passed(o)}
  /\ UNCHANGED <<second, kept, runs, doing, run>>

NextSecond ==
  /\ second < LastSecond /\ second' = second + 1
  /\ doing \in {"read", "write"} => second < began + ReadTime
  /\ UNCHANGED <<order, changes, kept, runs, doing, run, slid, owed>>

-------------------------------------------------------------------------------
(* The changed orders. *)

\* Of a list, as each order's set of those before it.
Page(list, from, size) == {o \in DOMAIN list : Cardinality(list[o]) \in from..(from + size - 1)}

\* By the date of change, and by the place the warehouse gave.
Changed(of) == [o \in of |-> {p \in of : ByUpdate(p, o)}]
Listing(of) == [o \in of |-> {p \in of : p < o}]

Newest == {kept[o].updated : o \in {p \in Stored : \A q \in Stored : kept[q].updated <= kept[p].updated}}

EndsRun ==
  /\ doing' = "idle" /\ began' = 0 /\ since' = Ever /\ offset' = 0 /\ turned' = 0
  /\ inHand' = [o \in {} |-> NoRow] /\ listed' = {}

BeginRun ==
  /\ doing = "idle" /\ doing' = "read" /\ began' = second
  /\ runs' = (runs + 1) % SweepRuns
  /\ since' \in IF Stored = {} THEN {Ever} ELSE {n - Settle : n \in Newest}
  /\ UNCHANGED <<warehouse, kept, offset, turned, inHand, listed, slid, owed>>

ReadPage ==
  /\ doing = "read" /\ doing' = "write"
  /\ inHand' = [o \in Page(Changed({p \in Live : order[p].updated >= since}), offset, RowPage) |-> RowOf(o)]
  /\ UNCHANGED <<warehouse, kept, runs, began, since, offset, turned, listed, slid, owed>>

IsLastPage == turned + 1 >= RunPages

\* Mutant: pages by offset.
OffsetAlone == /\ since' = since /\ offset' = offset + RowPage

\* The next page starts at the last row's second, or steps inside it.
NextPage ==
  IF LastRead > since THEN since' = LastRead /\ offset' = 0
  ELSE since' = since /\ offset' = offset + RowPage

WritePage ==
  /\ doing = "write"
  /\ kept' = [o \in Orders |-> IF o \in DOMAIN inHand THEN inHand[o] ELSE kept[o]]
  /\ slid' = {o \in slid : kept'[o] # RowOf(o)}
  /\ UNCHANGED owed
  /\ IF ~IsFull
     THEN /\ doing' = (IF IsSweep THEN "list" ELSE "pay") /\ offset' = 0
          /\ UNCHANGED <<began, since, turned, listed>>
     ELSE IF IsLastPage THEN EndsRun
     ELSE /\ doing' = "read" /\ turned' = turned + 1 /\ NextPage
          /\ UNCHANGED <<began, listed>>
  /\ inHand' = [o \in {} |-> NoRow]
  /\ UNCHANGED <<warehouse, runs>>

-------------------------------------------------------------------------------
(* The sweep, and the payments. *)

ListIds ==
  /\ doing = "list"
  /\ LET page == Page(Listing(Live), offset, IdPage)
         all == listed \cup page
         gone == Stored \ all IN
       IF Cardinality(page) = IdPage
       THEN /\ listed' = all /\ offset' = offset + IdPage
            /\ UNCHANGED <<doing, began, since, turned, inHand>>
       ELSE IF all = {} \/ Cardinality(all) < Cardinality(Live) \/ Cardinality(gone) > SweepLimit THEN EndsRun
       ELSE /\ doing' = "ask" /\ listed' = all /\ offset' = 0
            /\ UNCHANGED <<began, since, turned, inHand>>
  /\ UNCHANGED <<warehouse, kept, runs, slid, owed>>

\* Mutant: an id that was not listed is gone.
IsUnlisted(o) == TRUE

\* A 404, or an answer that carries `deleted`.
IsGone(o) == order[o].place # "live"

AskGone ==
  /\ doing = "ask" /\ doing' = "pay"
  /\ kept' = [o \in Orders |-> IF o \notin listed /\ IsGone(o) THEN NoRow ELSE kept[o]]
  /\ slid' = {o \in slid : kept'[o] # RowOf(o)}
  /\ UNCHANGED <<warehouse, runs, run, owed>>

\* What the pass promises: the payments behind when it begins.
Behind == {o \in Live \cap Stored : (IsSweep \/ o \notin Old) /\ kept[o].paid # order[o].paid}

BeginPayments ==
  /\ doing = "pay" /\ doing' = "paying" /\ owed' = Behind
  /\ UNCHANGED <<warehouse, kept, runs, run, slid>>

PayPage ==
  /\ doing = "paying"
  /\ LET page == Page(Listing({o \in Live : IsPriced(o)}), offset, IdPage) IN
       /\ kept' = [o \in Orders |-> IF o \in page \cap Stored THEN [kept[o] EXCEPT !.paid = order[o].paid]
                                      ELSE kept[o]]
       /\ owed' = {o \in owed : kept'[o].paid = kept[o].paid}
       /\ IF Cardinality(page) = IdPage
          THEN /\ offset' = offset + IdPage
               /\ UNCHANGED <<doing, began, since, turned, inHand, listed>>
          ELSE EndsRun
  /\ UNCHANGED <<warehouse, runs, slid>>

\* A request fails, or the process dies.
RunFails ==
  /\ doing # "idle" /\ EndsRun /\ owed' = {}
  /\ UNCHANGED <<warehouse, kept, runs, slid>>

\* A new process sweeps on its first run.
DeployMoysklad ==
  /\ doing = "idle" /\ runs # 0 /\ runs' = 0
  /\ UNCHANGED <<warehouse, kept, doing, run, slid, owed>>

MoyNext ==
  \/ PlaceOrder \/ EditOrder \/ BookPayment \/ BinOrder \/ NextSecond
  \/ BeginRun \/ ReadPage \/ WritePage \/ ListIds \/ AskGone \/ BeginPayments \/ PayPage
  \/ RunFails \/ DeployMoysklad

MoySpec == MoyInit /\ [][MoyNext]_moyVars

-------------------------------------------------------------------------------
(* Properties. *)

MoyTypeOK ==
  /\ second \in 0..LastSecond /\ changes \in 0..MaxChanges /\ runs \in 0..(SweepRuns - 1) /\ turned \in 0..(RunPages - 1)
  /\ order \in [Orders -> [place : {"none", "live", "bin"}, updated : 0..second, content : 0..MaxChanges,
                           paid : 0..MaxChanges]]
  /\ kept \in [Orders -> [updated : -1..second, content : -1..MaxChanges, paid : -1..MaxChanges]]
  /\ doing \in {"idle", "read", "write", "list", "ask", "pay", "paying"} /\ began \in 0..second
  /\ since \in Ever..second /\ offset \in 0..Cardinality(Orders)
  /\ DOMAIN inHand \subseteq Orders /\ Cardinality(DOMAIN inHand) <= RowPage /\ listed \subseteq Orders

(***************************************************************************)
(* Every live order is stored as it is, or the next run asks for it again, *)
(* wherever a run was cut, capped or overtaken by edits - but for one that *)
(* slid a place while a run stepped by offset through a second that held   *)
(* more than a page and an order of that second was edited or deleted.     *)
(***************************************************************************)
NothingIsMissed ==
  \A o \in Live \ slid : \A n \in Newest :
    \/ kept[o].content = order[o].content
    \/ order[o].updated >= n - Settle

(***************************************************************************)
(* A row is removed only when the warehouse has the order no more: a live  *)
(* one that slid past a page of the ids while others were deleted stays.   *)
(***************************************************************************)
OnlyGoneAreRemoved ==
  [][\A o \in Orders : kept[o] # NoRow /\ kept'[o] = NoRow => order[o].place = "bin"]_moyVars

(***************************************************************************)
(* A payment pass that came to its end has written every payment that was  *)
(* behind when it began, but those that an order's deletion slid past it:  *)
(* on a sweep's run those of the old orders too.                           *)
(***************************************************************************)
PaymentsCatchUp == doing = "idle" => owed = {}

(***************************************************************************)
(* What the warehouse changed reaches the table: orders by their date of   *)
(* change, payments, which move none, by the sweep's run.                  *)
(***************************************************************************)
OrdersCatchUp == NothingIsMissed /\ PaymentsCatchUp

===============================================================================
