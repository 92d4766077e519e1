------------------------------ MODULE CrmEvents ------------------------------
(***************************************************************************)
(* The portal's events: the route that records them (crmEventRepository),  *)
(* and the sync worker that applies them between its ticks                 *)
(* (drainPortalEvents, crmEvents.ts).                                      *)
(*                                                                         *)
(* A deal is in an imported pipeline ("here"), in another one              *)
(* ("elsewhere") or deleted ("absent").  The tick's incremental pass is    *)
(* abstracted to the deals its cursor still offers (dirty); SyncEngine     *)
(* models how it keeps that promise.  The tick and the drain take turns in *)
(* one process.                                                            *)
(***************************************************************************)
EXTENDS Integers, Sequences, FiniteSets, SequencesExt

CONSTANTS
  Deal,
  Places,         \* Where a deal may be: "here", "elsewhere", "absent".
  Saves,          \* Of ADD and UPDATE, which the drain treats alike, those modelled.
  DrainRows,      \* EVENTS_DRAIN_ROWS: rows a drain looks at.
  DrainMax,       \* EVENTS_DRAIN_MAX: deals a drain applies.
  ConfirmedLimit, \* confirmedGoneLimit and goneLimit: constant up to DrainMax.
  GoneLimit,
  MaxInFlight,    \* Bound: events posted and not received.
  Crashes         \* Whether the process may die.

ASSUME LimitAssumption ==
  /\ IsFiniteSet(Deal)
  /\ {"here", "absent"} \subseteq Places /\ Places \subseteq {"here", "elsewhere", "absent"}
  /\ Saves \subseteq {"ADD", "UPDATE"} /\ Saves # {}
  /\ DrainRows \in Nat \ {0} /\ DrainMax \in Nat \ {0}
  /\ ConfirmedLimit \in Nat /\ GoneLimit \in Nat /\ MaxInFlight \in Nat
  /\ Crashes \in BOOLEAN

VARIABLES
  portal,    \* portal[d]: where the deal is.
  inflight,  \* Events the portal has posted and the route not received.
  queue,     \* crm_event: the pending rows, oldest first.
  local,     \* Deals in the database.
  dirty,     \* Deals here that the next tick reads.
  \* The worker:
  pc,
  page,      \* Deals read and not yet written.
  clean,     \* Those of a tick's page that have not changed since.
  taken, deferred, \* Rows the drain applies, and rows it only marks.
  condemned, \* Deals it is going to delete.
  \* History, for the properties:
  toSweep,   \* Deals whose event was lost, or left to the nightly walk.
  swallowed  \* Deals whose event met a row that a drain had already used.

outside == <<portal, inflight>>
drain == <<taken, deferred, condemned>>
vars == <<outside, queue, local, dirty, pc, page, clean, drain, toSweep, swallowed>>

Event == [deal : Deal, kind : Saves \cup {"DELETE"}]

Here == {d \in Deal : portal[d] = "here"}
Pending == {queue[i] : i \in 1..Len(queue)}
DealsOf(S) == {e.deal : e \in S}
Deletes(S) == {e \in S : e.kind = "DELETE"}

Init ==
  /\ portal \in [Deal -> {"here", "absent"}]
  /\ inflight = {} /\ queue = << >>
  /\ local = Here /\ dirty = {}
  /\ pc = "idle" /\ page = {} /\ clean = {}
  /\ taken = {} /\ deferred = {} /\ condemned = {}
  /\ toSweep = {} /\ swallowed = {}

-------------------------------------------------------------------------------
(* The portal. *)

\* A deal is created, edited, moved, deleted or restored, and an event posted.
Change(d, to, kind) ==
  /\ portal[d] # "absent" \/ to # "absent"
  /\ kind = "DELETE" <=> to = "absent"
  /\ portal' = [portal EXCEPT ![d] = to]
  /\ inflight' = inflight \cup {[deal |-> d, kind |-> kind]}
  /\ Cardinality(inflight') <= MaxInFlight
  /\ dirty' = IF to = "here" THEN dirty \cup {d} ELSE dirty \ {d}
  /\ clean' = clean \ {d}
  /\ toSweep' = toSweep \ {d} /\ swallowed' = swallowed \ {d}
  /\ UNCHANGED <<queue, local, pc, page, drain>>

\* An event never arrives.
Lose(e) ==
  /\ e \in inflight
  /\ inflight' = inflight \ {e}
  /\ toSweep' = toSweep \cup ({e.deal} \ Here)
  /\ UNCHANGED <<portal, queue, local, dirty, pc, page, clean, drain, swallowed>>

\* What a drain has already read, or decided, when an event of e arrives.
Used == IF pc = "read" THEN deferred ELSE taken \cup deferred

\* record: one pending row per deal and event.  The event may come again, and
\* events arrive in any order.
Record(e) ==
  /\ e \in inflight
  /\ inflight' \in {inflight, inflight \ {e}}
  /\ queue' = IF e \in Pending THEN queue ELSE Append(queue, e)
  /\ swallowed' = IF e \in Used THEN swallowed \cup ({e.deal} \ Here) ELSE swallowed
  /\ UNCHANGED <<portal, local, dirty, pc, page, clean, drain, toSweep>>

-------------------------------------------------------------------------------
(* The tick's pass over the deals that changed. *)

TickRead ==
  /\ pc = "idle"
  /\ pc' = "tick"
  /\ page' = dirty /\ clean' = dirty
  /\ UNCHANGED <<outside, queue, local, dirty, drain, toSweep, swallowed>>

\* Mutant: the cursor moves past what changed during the tick.
TickWriteForgets(skipped) ==
  /\ pc = "tick"
  /\ pc' = "idle"
  /\ local' = local \cup (page \ skipped)
  /\ dirty' = skipped
  /\ page' = {} /\ clean' = {}
  /\ UNCHANGED <<outside, queue, drain, toSweep, swallowed>>

\* A deal changed since the read, or skipped, is offered again.
TickWrite(skipped) ==
  /\ pc = "tick"
  /\ pc' = "idle"
  /\ local' = local \cup (page \ skipped)
  /\ dirty' = dirty \ (clean \ skipped)
  /\ page' = {} /\ clean' = {}
  /\ UNCHANGED <<outside, queue, drain, toSweep, swallowed>>

-------------------------------------------------------------------------------
(* The drain. *)

Batch == {queue[i] : i \in 1..(IF Len(queue) < DrainRows THEN Len(queue) ELSE DrainRows)}
Flood == Cardinality(DealsOf(Batch)) > DrainMax

\* dropUnknownDeletes
Dropped == {e \in Deletes(Batch) : e.deal \notin local}
Live == Batch \ Dropped

Position(e) == CHOOSE i \in 1..Len(queue) : queue[i] = e

\* takeDistinct: the oldest rows that name at most DrainMax deals.
TakeDistinct(S) ==
  {e \in S : Cardinality({f.deal : f \in {g \in S : Position(g) < Position(e)}}) < DrainMax}

Taken == IF Flood THEN TakeDistinct(Deletes(Live)) ELSE Live

\* Mutant: a flood marks every row it looked at.
DeferredAll == Batch \ Taken

Deferred == IF Flood THEN Dropped \cup (Live \ Deletes(Live)) ELSE Dropped

DrainStart ==
  /\ pc = "idle" /\ queue # << >>
  /\ taken' = Taken /\ deferred' = Deferred
  /\ pc' = IF Taken = {} THEN "mark" ELSE "read"
  /\ UNCHANGED <<outside, queue, local, dirty, page, clean, condemned, toSweep, swallowed>>

Named == DealsOf(taken)
Told == DealsOf(Deletes(taken))

\* Mutant: the portal's word is enough, whatever the read returned.
DoomedOnTheWord == Told

\* The deals not returned that are to be deleted: none past a limit.
Doomed ==
  LET gone == Named \ Here
      confirmed == gone \cap Told
      unconfirmed == gone \ Told IN
  (IF Cardinality(confirmed) > ConfirmedLimit THEN {} ELSE confirmed)
    \cup (IF Cardinality(unconfirmed) > GoneLimit THEN {} ELSE unconfirmed)

ReadDeals ==
  /\ pc = "read"
  /\ page' = Named \cap Here
  /\ condemned' = Doomed
  /\ pc' = "write"
  /\ UNCHANGED <<outside, queue, local, dirty, clean, taken, deferred, toSweep, swallowed>>

\* persistRecords: a deal may be skipped or rejected.
WriteDeals(skipped) ==
  /\ pc = "write"
  /\ local' = local \cup (page \ skipped)
  /\ pc' = "delete"
  /\ UNCHANGED <<outside, queue, dirty, page, clean, drain, toSweep, swallowed>>

DeleteDeals ==
  /\ pc = "delete"
  /\ local' = local \ condemned
  /\ pc' = "mark"
  /\ UNCHANGED <<outside, queue, dirty, page, clean, drain, toSweep, swallowed>>

\* The drain's locals go out of scope.
Leave(step) ==
  /\ pc' = step
  /\ page' = {} /\ clean' = {}
  /\ taken' = {} /\ deferred' = {} /\ condemned' = {}

\* The queue keeps the rows that are not in S, in their order.
Without(S) ==
  LET kept == {i \in 1..Len(queue) : queue[i] \notin S}
      Nth(n) == CHOOSE i \in kept : Cardinality({h \in kept : h < i}) = n - 1 IN
  queue' = [n \in 1..Cardinality(kept) |-> queue[Nth(n)]]

\* markCrmEventsProcessed, and the next drain may start.
MarkProcessed ==
  /\ pc = "mark"
  /\ Without(taken \cup deferred)
  /\ LET held == Named \ (page \cup condemned)
         left == DealsOf(deferred \ Deletes(deferred)) IN
     toSweep' = toSweep \cup ((held \cup left) \ Here)
  /\ Leave("idle")
  /\ UNCHANGED <<outside, local, dirty, swallowed>>

\* A read or a write of the drain throws: nothing is marked.
DrainFails ==
  /\ pc \in {"read", "write", "delete", "mark"}
  /\ Leave("failed")
  /\ UNCHANGED <<outside, queue, local, dirty, toSweep, swallowed>>

\* Mutant: rows are retried for ever.
ExpireNone(n) ==
  /\ pc = "failed"
  /\ pc' = "idle"
  /\ UNCHANGED <<outside, queue, local, dirty, page, clean, drain, toSweep, swallowed>>

\* expireCrmEvents, after a drain that failed: the n oldest rows are too old.
Expire(n) ==
  LET old == {queue[i] : i \in 1..n} IN
  /\ pc = "failed"
  /\ Without(old)
  /\ toSweep' = toSweep \cup (DealsOf(old) \ Here)
  /\ pc' = "idle"
  /\ UNCHANGED <<outside, local, dirty, page, clean, drain, swallowed>>

\* The process dies, or its tick fails.
Crash ==
  /\ Crashes /\ pc # "idle"
  /\ Leave("idle")
  /\ UNCHANGED <<outside, queue, local, dirty, toSweep, swallowed>>

Work ==
  \/ \E skipped \in SUBSET page : TickWrite(skipped) \/ WriteDeals(skipped)
  \/ ReadDeals \/ DeleteDeals \/ MarkProcessed
  \/ DrainFails \/ \E n \in 0..Len(queue) : Expire(n)

Next ==
  \/ \E d \in Deal, to \in Places, kind \in Saves \cup {"DELETE"} :
       Change(d, to, kind)
  \/ \E e \in Event : Lose(e) \/ Record(e)
  \/ TickRead \/ DrainStart \/ Crash
  \/ Work

Spec == Init /\ [][Next]_vars

\* The loop takes its steps, and drains between ticks; posted events arrive;
\* rows grow old, and then giving up on them is not what always fails.
Fairness ==
  /\ WF_vars(Work)
  /\ SF_vars(DrainStart) /\ SF_vars(\E n \in 1..Len(queue) : Expire(n))
  /\ \A e \in Event : WF_vars(Record(e))

FairSpec == Spec /\ Fairness

-------------------------------------------------------------------------------
(* Properties. *)

TypeOK ==
  /\ portal \in [Deal -> Places]
  /\ inflight \subseteq Event
  /\ queue \in Seq(Event) /\ IsInjective(queue)
  /\ local \subseteq Deal /\ dirty \subseteq Here
  /\ pc \in {"idle", "tick", "read", "write", "delete", "mark", "failed"}
  /\ page \subseteq Deal /\ clean \subseteq dirty
  /\ taken \subseteq Pending /\ deferred \subseteq Pending \ taken
  /\ condemned \subseteq Named \ page
  /\ toSweep \subseteq Deal /\ swallowed \subseteq Deal

(***************************************************************************)
(* No deal is lost to an event: a deal the imported pipelines have and the *)
(* database lacks is one the next tick reads, whatever a drain deleted,    *)
(* deferred, held or gave up on, and whatever it raced.                    *)
(***************************************************************************)
NothingLost == Here \ local \subseteq dirty

Ghosts == local \ Here
Announced == DealsOf(inflight \cup Pending)

(***************************************************************************)
(* No deletion is forgotten by half a drain: a deal kept although it left  *)
(* the pipelines is named by an event still to be applied, was left to the *)
(* nightly walk (its event lost, deferred, held or expired), or its event  *)
(* met a row already used.  About drains that fail or die between any two  *)
(* of their steps, floods, duplicates and reordered events.                *)
(***************************************************************************)
GhostsAreKnown == Ghosts \subseteq Announced \cup toSweep \cup swallowed

(***************************************************************************)
(* Every event the route receives is applied or left to the nightly walk   *)
(* (crmEvents.ts: one row per event the portal POSTs; a deal that moved is *)
(* gone).  An event of a deal whose row a drain has read but not marked is *)
(* not recorded, and its row is then marked.                               *)
(***************************************************************************)
EveryEventCounts == Ghosts \subseteq Announced \cup toSweep

(***************************************************************************)
(* A deal that left the pipelines leaves the database, or is left to the   *)
(* nightly walk: the queue never stands still, even when reads always fail.*)
(***************************************************************************)
GhostsEnd == \A d \in Deal : d \in Ghosts ~> d \notin Ghosts \/ d \in toSweep \cup swallowed

=============================================================================
