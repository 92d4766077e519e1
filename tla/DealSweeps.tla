----------------------------- MODULE DealSweeps -----------------------------
(***************************************************************************)
(* What takes deals out of the database, and what re-points their          *)
(* contacts: the nightly sweep, whose walk reads every deal's id and       *)
(* contact a page at a time, and the checks of the recent deals, which ask *)
(* the portal for them by id.  Meanwhile the portal goes on: deals are     *)
(* opened, moved out of the imported pipelines and back, deleted; contacts *)
(* are merged, which changes deals and not their dates; and a pipeline may *)
(* be hidden from the webhook without an error.  The worker does one thing *)
(* at a time, but an import from the command line may run beside it.       *)
(***************************************************************************)
EXTENDS Integers, FiniteSets

CONSTANTS
  Ids,          \* 1..n: the portal's ids.
  First,        \* Those of the deals there to begin with.
  Contacts,     \* Ids of contacts.
  Held,         \* Held[d]: the contact of a deal to begin with.
  Hideable,     \* The deals of a pipeline the webhook may lose sight of.
  RecentDeals,  \* The deals a recent check asks about.
  ListPage,     \* LIST_PAGE
  SweepMost,    \* sweepLimit of tables so small.
  CheckMost,    \* goneLimit of populations so small.
  RelinkMost,   \* relinkLimit of walks so small.
  MaxTurns      \* Bound: changes in the portal.

NoContact == 0
NoDeal == [contact |-> NoContact, here |-> FALSE]

ASSUME SweepsAssumption ==
  /\ Ids \subseteq Nat \ {0} /\ IsFiniteSet(Ids)
  /\ First \subseteq Ids /\ Hideable \subseteq Ids /\ RecentDeals \subseteq Ids
  /\ Contacts \subseteq Nat \ {NoContact} /\ Held \in [Ids -> Contacts] /\ ListPage \in Nat \ {0}
  /\ {SweepMost, CheckMost, RelinkMost, MaxTurns} \subseteq Nat

VARIABLES
  \* The portal:
  place,    \* place[d]: "none" yet, "in" an imported pipeline, "out" of them, "gone".
  contact,  \* contact[d], NoContact for none.
  hidden,   \* The webhook does not see Hideable.
  turns,    \* Changes so far.
  \* The database:
  table,    \* table[d]: the deal's row.
  unread,   \* Deals changed later than the watermark.
  \* The worker:
  task,      \* What it is at.
  after,    \* afterId of a walk.
  found,    \* found[d]: the contact a walk read, or the ids a check did.
  asked,    \* Ids a check has left to ask for.
  \* History, for the properties:
  missed,   \* Deals out of the webhook's sight at some time since the job began.
  absent,   \* Those out of its sight all that time.
  turned    \* Deals whose contact changed in that time.

portalVars == <<place, contact, hidden, turns>>
sweepVars == <<portalVars, table, unread, task, after, found, asked, missed, absent, turned>>

Visible == {d \in Ids : place[d] = "in" /\ ~(hidden /\ d \in Hideable)}
InTable == {d \in Ids : table[d].here}
Nothing == [d \in {} |-> NoContact]

SweepsInit ==
  /\ place = [d \in Ids |-> IF d \in First THEN "in" ELSE "none"]
  /\ contact = Held
  /\ hidden = FALSE /\ turns = 0
  /\ table = [d \in Ids |-> IF d \in First THEN [contact |-> Held[d], here |-> TRUE] ELSE NoDeal]
  /\ unread = {} /\ task = "idle" /\ after = 0 /\ found = Nothing /\ asked = {}
  /\ missed = {} /\ absent = {} /\ turned = {}

-----------------------------------------------------------------------------
(* The portal. *)

Turns ==
  /\ turns < MaxTurns /\ turns' = turns + 1
  /\ missed' = missed \cup (Ids \ Visible')
  /\ absent' = absent \ Visible'
  /\ turned' = turned \cup {d \in Ids : contact'[d] # contact[d]}
  /\ UNCHANGED <<table, task, after, found, asked>>

\* Its DATE_MODIFY moves with it.
MoveDeal ==
  /\ \E d \in Ids, to \in {"in", "out", "gone"} :
       /\ \/ place[d] = "none" /\ to = "in" /\ \A e \in Ids : e < d => place[e] # "none"
          \/ place[d] \in {"in", "out"} /\ to # place[d]
       /\ place' = [place EXCEPT ![d] = to]
       /\ unread' = unread \cup {d}
  /\ UNCHANGED <<contact, hidden>> /\ Turns

\* A merge: every deal of a contact, and none of their dates.
MergeContacts ==
  /\ \E loser, survivor \in Contacts :
       /\ loser # survivor
       /\ contact' = [d \in Ids |-> IF contact[d] = loser THEN survivor ELSE contact[d]]
  /\ UNCHANGED <<place, hidden, unread>> /\ Turns

RemoveContact ==
  /\ \E d \in Ids : contact[d] # NoContact /\ contact' = [contact EXCEPT ![d] = NoContact]
                    /\ unread' = unread \cup {d}
  /\ UNCHANGED <<place, hidden>> /\ Turns

\* Bitrix24 applies a role change silently.
ChangeRole == hidden' = ~hidden /\ UNCHANGED <<place, contact, unread>> /\ Turns

-----------------------------------------------------------------------------
(* The incremental read, the worker's between two jobs or another's beside one. *)

Import ==
  /\ unread # {} /\ unread' = {}
  /\ table' = [d \in Ids |-> IF d \in unread \cap Visible THEN [contact |-> contact[d], here |-> TRUE]
                             ELSE table[d]]
  /\ UNCHANGED <<portalVars, task, after, found, asked, missed, absent, turned>>

Starts(what) ==
  /\ task = "idle" /\ task' = what
  /\ missed' = Ids \ Visible /\ absent' = Ids \ Visible /\ turned' = {}
  /\ UNCHANGED <<portalVars, table, unread, after, found>>

Ends == task' = "idle" /\ after' = 0 /\ found' = Nothing /\ asked' = {} /\ missed' = {} /\ absent' = {} /\ turned' = {}

-----------------------------------------------------------------------------
(* The sweep. *)

StartWalk == Starts("walk") /\ UNCHANGED asked

\* `filter`: the pipelines the import reads.
Walked == Visible

\* The rows of one command: the first ListPage ids after the last one read.
Rows == {d \in Walked : d > after /\ Cardinality({e \in Walked : after < e /\ e < d}) < ListPage}

WalkPage ==
  /\ task = "walk"
  /\ found' = [d \in DOMAIN found \cup Rows |-> IF d \in Rows THEN contact[d] ELSE found[d]]
  /\ IF Cardinality(Rows) < ListPage THEN task' = "sweep" /\ UNCHANGED after
     ELSE UNCHANGED task /\ after' \in {d \in Rows : \A e \in Rows : e <= d}
  /\ UNCHANGED <<portalVars, table, unread, asked, missed, absent, turned>>

\* Mutant: what was read is all there is.
StopsShort == task' = "sweep" /\ UNCHANGED <<after, found, asked, missed, absent, turned>>

\* A command refused inside a batch that answered 200.
WalkStops == Ends

RefuseWalk ==
  /\ task = "walk" /\ WalkStops
  /\ UNCHANGED <<portalVars, table, unread>>

Unfound == InTable \ DOMAIN found

\* Mutant: the relink waits with a refused sweep.
OnlyAfterSweep == IF Cardinality(Unfound) > SweepMost THEN "relinked" ELSE "relink"

\* After a sweep that deleted or was refused, never after one that failed.
AfterSweep == "relink"

DeleteMissing ==
  /\ task = "sweep" /\ task' = AfterSweep
  /\ table' = [d \in Ids |-> IF DOMAIN found # {} /\ Cardinality(Unfound) <= SweepMost /\ d \in Unfound
                             THEN NoDeal ELSE table[d]]
  /\ UNCHANGED <<portalVars, unread, after, found, asked, missed, absent, turned>>

\* The transaction of the delete or of the relink, or its connection, fails.
SweepDies ==
  /\ task \in {"sweep", "relink"} /\ Ends
  /\ UNCHANGED <<portalVars, table, unread>>

\* An empty CONTACT_ID is left alone.
Moved == {d \in InTable \cap DOMAIN found : found[d] \notin {NoContact, table[d].contact}}

RelinkContacts ==
  /\ task = "relink"
  /\ table' = [d \in Ids |-> IF Cardinality(Moved) <= RelinkMost /\ d \in Moved
                             THEN [table[d] EXCEPT !.contact = found[d]] ELSE table[d]]
  /\ task' = "relinked"
  /\ UNCHANGED <<portalVars, unread, after, found, asked, missed, absent, turned>>

EndSweep ==
  /\ task = "relinked" /\ Ends
  /\ UNCHANGED <<portalVars, table, unread>>

-----------------------------------------------------------------------------
(* The checks by id. *)

StartCheck ==
  /\ InTable \cap RecentDeals # {} /\ asked' = InTable \cap RecentDeals
  /\ Starts("check")

\* One command's ids.
AskPage ==
  /\ task = "check" /\ asked # {}
  /\ \E chunk \in SUBSET asked :
       /\ \/ Cardinality(chunk) = ListPage
          \/ chunk = asked /\ Cardinality(chunk) < ListPage
       /\ asked' = asked \ chunk
       /\ found' = [d \in DOMAIN found \cup chunk |->
                     IF d \in chunk THEN (IF d \in Visible THEN 1 ELSE NoContact) ELSE found[d]]
  /\ UNCHANGED <<portalVars, table, unread, task, after, missed, absent, turned>>

RefuseCheck ==
  /\ task = "check" /\ Ends
  /\ UNCHANGED <<portalVars, table, unread>>

Unanswered == {d \in DOMAIN found : found[d] = NoContact}

DeleteGone ==
  /\ task = "check" /\ asked = {} /\ Ends
  /\ table' = [d \in Ids |-> IF Cardinality(Unanswered) <= CheckMost /\ d \in Unanswered THEN NoDeal ELSE table[d]]
  /\ UNCHANGED <<portalVars, unread>>

SweepsNext ==
  \/ MoveDeal \/ MergeContacts \/ RemoveContact \/ ChangeRole \/ Import
  \/ StartWalk \/ WalkPage \/ RefuseWalk \/ DeleteMissing \/ SweepDies \/ RelinkContacts \/ EndSweep
  \/ StartCheck \/ AskPage \/ RefuseCheck \/ DeleteGone

SweepsSpec == SweepsInit /\ [][SweepsNext]_sweepVars

-----------------------------------------------------------------------------
(* Properties. *)

SweepsTypeOK ==
  /\ place \in [Ids -> {"none", "in", "out", "gone"}] /\ contact \in [Ids -> Contacts \cup {NoContact}]
  /\ hidden \in BOOLEAN /\ turns \in 0..MaxTurns
  /\ table \in [Ids -> [contact : Contacts \cup {NoContact}, here : BOOLEAN]]
  /\ \A d \in Ids : ~table[d].here => table[d] = NoDeal
  /\ unread \subseteq Ids /\ task \in {"idle", "walk", "sweep", "relink", "relinked", "check"}
  /\ after \in Ids \cup {0} /\ DOMAIN found \subseteq Ids /\ asked \subseteq RecentDeals
  /\ \/ task = "walk" /\ \A d \in DOMAIN found : d <= after
     \/ task \in {"sweep", "relink", "relinked"}
     \/ task = "idle" /\ found = Nothing /\ after = 0
     \/ task = "check" /\ after = 0 /\ asked \cap DOMAIN found = {}
  /\ task = "check" \/ asked = {}
  /\ missed \subseteq Ids /\ absent \subseteq missed /\ turned \subseteq Ids

(***************************************************************************)
(* A deal leaves the database only if the portal was without it, or hid    *)
(* it, at some time of the walk or the check that deletes it: never for a  *)
(* page refused, an edit or a deletion between two pages, or a limit.      *)
(***************************************************************************)
OnlyTheUnseenGo ==
  [][\A d \in Ids : table[d].here /\ ~table'[d].here => d \in missed]_sweepVars

(***************************************************************************)
(* A sweep that is not refused leaves no deal the portal was without from  *)
(* its first page to its last, one moved to a pipeline that is not         *)
(* imported included.                                                      *)
(***************************************************************************)
GoneAreSwept ==
  [][task = "sweep" /\ task' = "relink" /\ found # Nothing /\ Cardinality(Unfound) <= SweepMost
     => \A d \in absent : ~table'[d].here]_sweepVars

(***************************************************************************)
(* Sweeps and checks take the deals that are gone and no other, however    *)
(* the portal moves while they read it.                                    *)
(***************************************************************************)
SweepsTakeTheGone == OnlyTheUnseenGo /\ GoneAreSwept

(***************************************************************************)
(* A relink, also after a refused sweep, brings every deal the walk read   *)
(* to the portal's contact, but one whose contact changed meanwhile:       *)
(* merges, which move no date, are followed within a day.                  *)
(***************************************************************************)
MergesAreFollowed ==
  [][task' = "relinked" /\ task \in {"sweep", "relink"} /\ Cardinality(Moved) <= RelinkMost
     => \A d \in (InTable \cap DOMAIN found) \ turned :
          table'[d].contact = IF contact[d] = NoContact THEN table[d].contact ELSE contact[d]]_sweepVars

=============================================================================
