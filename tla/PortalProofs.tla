---------------------------- MODULE PortalProofs ----------------------------
(***************************************************************************)
(* What goes on beside the import, as MCPortal brings it together: the     *)
(* sweeps, for any deals and pages, however the portal moves while they    *)
(* read it; the waits of a call, for any ceiling, cost and length of the   *)
(* window; the registrar's days, for any week; and a day's clients.        *)
(***************************************************************************)
EXTENDS MCPortal, FiniteSetTheorems, WellFoundedInduction, TLAPS

\* A set of naturals has its least.
LEMMA LeastNat ==
  ASSUME NEW T \in SUBSET Nat, T # {}
  PROVE  \E x \in T : \A y \in T : x <= y
<1> DEFINE R == OpToRel(<, Nat)
<1>1. IsWellFoundedOn(R, Nat)
  BY NatLessThanWellFounded
<1>2. \A x, y \in Nat : x < y => <<x, y>> \in R
  BY DEF OpToRel
<1> HIDE DEF R
<1>3. PICK x \in T : \A y \in T : ~ (<<y, x>> \in R)
  BY <1>1, WFMin
<1>4. \A y \in T : x <= y
  <2> TAKE y \in T
  <2>1. x \in Nat /\ y \in Nat /\ ~ (y < x)
    BY <1>2, <1>3
  <2> QED BY <2>1
<1> QED
  BY <1>4

-------------------------------------------------------------------------------
(* The sweeps. *)

\* What a walk read, a contact, and what a check was answered, 1 or nothing.
FoundIsRead ==
  /\ found \in [DOMAIN found -> Contacts \cup {NoContact, 1}]
  /\ task # "check" => \A d \in DOMAIN found : found[d] \in Contacts \cup {NoContact}

\* What the portal did not show since the job began, and what it never did.
HistoryIsTrue == task # "idle" => Ids \ Visible \subseteq missed /\ absent \cap Visible = {}

\* A walk passes no deal but one the portal was without; it reads none that was
\* absent all along, and for each the contact of that time.
WalkIsTrue ==
  task \in {"walk", "sweep", "relink"} =>
    /\ \A d \in Ids \ DOMAIN found : (task = "walk" /\ d > after) \/ d \in missed
    /\ DOMAIN found \cap absent = {}
    /\ \A d \in DOMAIN found \ turned : found[d] = contact[d]

CheckIsTrue ==
  task = "check" => \A d \in DOMAIN found : found[d] = NoContact => d \in missed

SweepsInv == SweepsTypeOK /\ FoundIsRead /\ HistoryIsTrue /\ WalkIsTrue /\ CheckIsTrue

\* The deals a walk still has to read, and how many of them come before d.
ToRead == {d \in Walked : d > after}
Before(d) == {e \in Walked : after < e /\ e < d}

LEMMA RowsFacts ==
  ASSUME after \in Nat
  PROVE  /\ Walked \subseteq Ids /\ Rows \subseteq ToRead
         /\ IsFiniteSet(Rows) /\ Cardinality(Rows) \in Nat
         /\ \A d \in Ids : IsFiniteSet(Before(d)) /\ Cardinality(Before(d)) \in Nat
<1>1. Walked \subseteq Ids
  BY DEF Walked, Visible
<1>2. Rows \subseteq ToRead /\ Rows \in SUBSET Ids
  BY <1>1 DEF Rows, ToRead
<1>3. \A d \in Ids : Before(d) \in SUBSET Ids
  BY <1>1 DEF Before
<1> QED
  BY <1>1, <1>2, <1>3, FS_Subset, FS_CardinalityType, SweepsAssumption

\* A page that is not full is all there was left to read.
LEMMA ShortPageEnds ==
  ASSUME after \in Nat, Cardinality(Rows) < ListPage
  PROVE  Rows = ToRead
<1> DEFINE Beyond == ToRead \ Rows
<1>1. Beyond \in SUBSET Nat
  BY RowsFacts, SweepsAssumption DEF ToRead
<1>2. CASE Beyond # {}
  <2>1. PICK d \in Beyond : \A e \in Beyond : d <= e
    BY <1>1, <1>2, LeastNat
  <2>2. d \in Walked /\ d \in Ids /\ d > after /\ ~ (Cardinality(Before(d)) < ListPage)
    BY <2>1, RowsFacts DEF ToRead, Rows, Before
  <2>3. Before(d) \in SUBSET Rows
    <3> SUFFICES ASSUME NEW e \in Before(d) PROVE e \in Rows
      OBVIOUS
    <3>1. e \in ToRead /\ e < d /\ e \in Nat /\ d \in Nat
      BY <2>2, RowsFacts, SweepsAssumption DEF Before, ToRead
    <3> QED
      BY <2>1, <3>1
  <2>4. Cardinality(Before(d)) <= Cardinality(Rows)
    BY <2>3, RowsFacts, FS_Subset
  <2> QED
    BY <2>2, <2>4, RowsFacts, SweepsAssumption
<1> QED
  BY <1>2, RowsFacts

\* A page leaves out none of those up to its last row.
LEMMA PageIsFirst ==
  ASSUME after \in Nat, NEW last \in Rows, NEW d \in ToRead, d <= last
  PROVE  d \in Rows
<1>1. d \in Ids /\ last \in Ids /\ d \in Walked /\ d > after
  BY RowsFacts DEF ToRead
<1>2. Before(d) \in SUBSET Before(last)
  <2> SUFFICES ASSUME NEW e \in Before(d) PROVE e < last
    BY DEF Before
  <2>1. e \in Nat /\ d \in Nat /\ last \in Nat /\ e < d
    BY <1>1, RowsFacts, SweepsAssumption DEF Before
  <2> QED BY <2>1
<1>3. Cardinality(Before(last)) < ListPage
  BY DEF Rows, Before
<1>4. Cardinality(Before(d)) <= Cardinality(Before(last))
  BY <1>1, <1>2, RowsFacts, FS_Subset
<1>5. Cardinality(Before(d)) < ListPage
  BY <1>1, <1>3, <1>4, RowsFacts, SweepsAssumption
<1> QED
  BY <1>1, <1>5 DEF Rows, Before

\* The portal goes on: what it stops showing is missed, what it shows is no
\* longer absent, and a contact that changes is turned.
LEMMA TurnsSweeps ==
  ASSUME SweepsInv, Turns,
         place' \in [Ids -> {"none", "in", "out", "gone"}],
         contact' \in [Ids -> Contacts \cup {NoContact}],
         hidden' \in BOOLEAN, unread' \subseteq Ids
  PROVE  SweepsInv'
<1> USE SweepsAssumption DEF SweepsInv, Turns
<1>1. Visible' \subseteq Ids
  BY DEF Visible
<1>2. SweepsTypeOK'
  <2>1. turns' \in 0..MaxTurns
    BY DEF SweepsTypeOK
  <2>2. missed' \subseteq Ids /\ absent' \subseteq missed' /\ turned' \subseteq Ids
    BY <1>1 DEF SweepsTypeOK
  <2> QED
    BY <2>1, <2>2 DEF SweepsTypeOK
<1>3. FoundIsRead' /\ CheckIsTrue'
  BY DEF FoundIsRead, CheckIsTrue
<1>4. HistoryIsTrue'
  BY <1>1 DEF HistoryIsTrue
<1>5. WalkIsTrue'
  BY DEF WalkIsTrue, FoundIsRead, SweepsTypeOK
<1> QED
  BY <1>2, <1>3, <1>4, <1>5

\* A step that changes only the table.
LEMMA TableSweeps ==
  ASSUME SweepsInv, UNCHANGED <<portalVars, missed, absent, turned>>,
         table' \in [Ids -> [contact : Contacts \cup {NoContact}, here : BOOLEAN]],
         \A d \in Ids : ~table'[d].here => table'[d] = NoDeal,
         unread' \subseteq Ids,
         task' # "idle", task' = task \/ (task \in {"sweep", "relink"} /\ task' \in {"relink", "relinked"}),
         UNCHANGED <<after, found, asked>>
  PROVE  SweepsInv'
<1> USE DEF SweepsInv, portalVars
<1>1. SweepsTypeOK'
  BY DEF SweepsTypeOK
<1>2. Visible' = Visible
  BY DEF Visible
<1>3. FoundIsRead' /\ CheckIsTrue' /\ HistoryIsTrue' /\ WalkIsTrue'
  BY <1>2 DEF FoundIsRead, CheckIsTrue, HistoryIsTrue, WalkIsTrue, SweepsTypeOK
<1> QED
  BY <1>1, <1>3

\* The job ends, with or without writing the table.
LEMMA EndsSweeps ==
  ASSUME SweepsInv, UNCHANGED <<portalVars, unread>>, Ends,
         table' \in [Ids -> [contact : Contacts \cup {NoContact}, here : BOOLEAN]],
         \A d \in Ids : ~table'[d].here => table'[d] = NoDeal
  PROVE  SweepsInv'
<1> USE DEF SweepsInv, portalVars, Ends
<1>1. DOMAIN found' = {} /\ found' \in [{} -> Contacts]
  BY DEF Nothing
<1>2. SweepsTypeOK'
  BY <1>1 DEF SweepsTypeOK
<1>3. FoundIsRead' /\ CheckIsTrue' /\ HistoryIsTrue' /\ WalkIsTrue'
  BY <1>1 DEF FoundIsRead, CheckIsTrue, HistoryIsTrue, WalkIsTrue
<1> QED
  BY <1>2, <1>3

LEMMA WalkPageSweeps ==
  ASSUME SweepsInv, WalkPage
  PROVE  SweepsInv'
<1> USE SweepsAssumption DEF SweepsInv, WalkPage, portalVars
<1>1. /\ after \in Nat /\ Rows \subseteq Ids /\ Rows \subseteq Visible
      /\ Cardinality(Rows) \in Nat
      /\ \A d \in Rows : d > after
  <2>1. after \in Nat
    BY DEF SweepsTypeOK
  <2> QED
    BY <2>1, RowsFacts DEF ToRead, Walked
<1>2. /\ DOMAIN found' = DOMAIN found \cup Rows
      /\ \A d \in DOMAIN found' : found'[d] = IF d \in Rows THEN contact[d] ELSE found[d]
      /\ found' \in [DOMAIN found' -> Contacts \cup {NoContact}]
  BY <1>1 DEF SweepsTypeOK, FoundIsRead
<1>3. Visible' = Visible
  BY DEF Visible
<1>4. CASE Cardinality(Rows) < ListPage
  <2>1. Rows = ToRead /\ task' = "sweep" /\ after' = after
    BY <1>1, <1>4, ShortPageEnds
  <2>2. \A d \in Ids \ DOMAIN found' : d \in missed
    BY <1>1, <1>2, <2>1 DEF WalkIsTrue, HistoryIsTrue, ToRead, Walked
  <2>3. SweepsTypeOK'
    BY <1>1, <1>2, <2>1 DEF SweepsTypeOK
  <2>4. WalkIsTrue'
    BY <1>1, <1>2, <2>1, <2>2 DEF WalkIsTrue, HistoryIsTrue, SweepsTypeOK
  <2> QED
    BY <1>2, <1>3, <2>1, <2>3, <2>4 DEF FoundIsRead, HistoryIsTrue, CheckIsTrue
<1>5. CASE ~ (Cardinality(Rows) < ListPage)
  <2>1. task' = "walk" /\ after' \in Rows /\ \A e \in Rows : e <= after'
    BY <1>5
  <2>2. \A d \in Ids \ DOMAIN found' : d > after' \/ d \in missed
    <3> SUFFICES ASSUME NEW d \in Ids, d \notin DOMAIN found', ~ (d > after'), d \notin missed
                 PROVE  FALSE
      OBVIOUS
    <3>1. d > after /\ d \in Visible
      BY <1>2 DEF WalkIsTrue, HistoryIsTrue
    <3>2. d \in ToRead /\ d <= after'
      <4>1. d \in Nat /\ after' \in Nat
        BY <1>1, <2>1
      <4> QED
        BY <3>1, <4>1 DEF ToRead, Walked
    <3> QED
      BY <1>1, <1>2, <2>1, <3>2, PageIsFirst
  <2>3. \A d \in DOMAIN found' : d <= after'
    <3> SUFFICES ASSUME NEW d \in DOMAIN found PROVE d <= after'
      BY <1>2, <2>1
    <3>1. d <= after /\ after' > after /\ d \in Nat /\ after' \in Nat
      BY <1>1, <2>1 DEF SweepsTypeOK
    <3> QED
      BY <1>1, <3>1
  <2>4. SweepsTypeOK'
    BY <1>1, <1>2, <2>1, <2>3 DEF SweepsTypeOK
  <2>5. WalkIsTrue'
    BY <1>1, <1>2, <2>1, <2>2 DEF WalkIsTrue, HistoryIsTrue, SweepsTypeOK
  <2> QED
    BY <1>2, <1>3, <2>1, <2>4, <2>5 DEF FoundIsRead, HistoryIsTrue, CheckIsTrue
<1> QED
  BY <1>4, <1>5

LEMMA StartsSweeps ==
  ASSUME SweepsInv, NEW what \in {"walk", "check"}, Starts(what), asked' \subseteq RecentDeals,
         what = "walk" => asked' = {}
  PROVE  SweepsInv'
<1> USE DEF SweepsInv, Starts, portalVars
<1>1. Visible' = Visible /\ Visible \subseteq Ids
  BY DEF Visible
<1>2. found = Nothing /\ after = 0 /\ DOMAIN found = {}
  BY DEF SweepsTypeOK, Nothing
<1>3. SweepsTypeOK'
  BY <1>1, <1>2 DEF SweepsTypeOK
<1>4. FoundIsRead' /\ CheckIsTrue'
  BY <1>2 DEF FoundIsRead, CheckIsTrue
<1>5. HistoryIsTrue'
  BY <1>1 DEF HistoryIsTrue
<1>6. WalkIsTrue'
  BY <1>2, SweepsAssumption DEF WalkIsTrue
<1> QED
  BY <1>3, <1>4, <1>5, <1>6

LEMMA AskPageSweeps ==
  ASSUME SweepsInv, AskPage
  PROVE  SweepsInv'
<1> USE SweepsAssumption DEF SweepsInv, AskPage, portalVars
<1>1. PICK chunk \in SUBSET asked :
        /\ asked' = asked \ chunk
        /\ found' = [d \in DOMAIN found \cup chunk |->
                      IF d \in chunk THEN (IF d \in Visible THEN 1 ELSE NoContact) ELSE found[d]]
  OBVIOUS
<1>2. /\ DOMAIN found' = DOMAIN found \cup chunk
      /\ \A d \in DOMAIN found' :
           found'[d] = IF d \in chunk THEN (IF d \in Visible THEN 1 ELSE NoContact) ELSE found[d]
      /\ found' \in [DOMAIN found' -> Contacts \cup {NoContact, 1}]
  BY <1>1 DEF FoundIsRead
<1>3. Visible' = Visible
  BY DEF Visible
<1>4. chunk \subseteq Ids /\ task' = "check" /\ task = "check"
  BY DEF SweepsTypeOK
<1>5. SweepsTypeOK'
  BY <1>1, <1>2, <1>4 DEF SweepsTypeOK
<1>6. CheckIsTrue'
  <2> SUFFICES ASSUME NEW d \in DOMAIN found', found'[d] = NoContact PROVE d \in missed
    BY DEF CheckIsTrue
  <2>1. CASE d \in chunk
    BY <1>2, <1>4, <2>1 DEF HistoryIsTrue, NoContact
  <2>2. CASE d \notin chunk
    BY <1>2, <1>4, <2>2 DEF CheckIsTrue
  <2> QED
    BY <2>1, <2>2
<1>7. FoundIsRead' /\ HistoryIsTrue' /\ WalkIsTrue'
  BY <1>2, <1>3, <1>4 DEF FoundIsRead, HistoryIsTrue, WalkIsTrue
<1> QED
  BY <1>5, <1>6, <1>7

LEMMA InitSweeps == SweepsInit => SweepsInv
<1> SUFFICES ASSUME SweepsInit PROVE SweepsInv
  OBVIOUS
<1> USE SweepsAssumption DEF SweepsInit
<1>1. DOMAIN found = {} /\ found \in [{} -> Contacts]
  BY DEF Nothing
<1>2. place \in [Ids -> {"none", "in", "out", "gone"}] /\ contact \in [Ids -> Contacts \cup {NoContact}]
  OBVIOUS
<1>3. /\ table \in [Ids -> [contact : Contacts \cup {NoContact}, here : BOOLEAN]]
      /\ \A d \in Ids : ~table[d].here => table[d] = NoDeal
  BY DEF NoDeal
<1>4. SweepsTypeOK
  <2>1. turns \in 0..MaxTurns
    OBVIOUS
  <2>3. hidden \in BOOLEAN
    OBVIOUS
  <2>2. task = "idle" /\ found = Nothing /\ after = 0 /\ asked = {} /\ unread = {}
        /\ missed = {} /\ absent = {} /\ turned = {}
    OBVIOUS
  <2> QED
    BY <1>1, <1>2, <1>3, <2>1, <2>2, <2>3 DEF SweepsTypeOK
<1>5. FoundIsRead /\ HistoryIsTrue /\ WalkIsTrue /\ CheckIsTrue
  BY <1>1 DEF FoundIsRead, HistoryIsTrue, WalkIsTrue, CheckIsTrue
<1> QED
  BY <1>4, <1>5 DEF SweepsInv

LEMMA StepSweeps == SweepsInv /\ [SweepsNext]_sweepVars => SweepsInv'
<1> SUFFICES ASSUME SweepsInv, [SweepsNext]_sweepVars PROVE SweepsInv'
  OBVIOUS
<1> USE SweepsAssumption
<1>0. /\ SweepsTypeOK
      /\ table \in [Ids -> [contact : Contacts \cup {NoContact}, here : BOOLEAN]]
      /\ contact \in [Ids -> Contacts \cup {NoContact}]
      /\ place \in [Ids -> {"none", "in", "out", "gone"}]
      /\ \A d \in Ids : ~table[d].here => table[d] = NoDeal
  BY DEF SweepsInv, SweepsTypeOK
<1>1. CASE MoveDeal \/ MergeContacts \/ RemoveContact \/ ChangeRole
  <2>1. Turns
    BY <1>1 DEF MoveDeal, MergeContacts, RemoveContact, ChangeRole
  <2>2. place' \in [Ids -> {"none", "in", "out", "gone"}] /\ hidden' \in BOOLEAN
    <3>1. hidden \in BOOLEAN
      BY <1>0 DEF SweepsTypeOK
    <3>2. MoveDeal => place' \in [Ids -> {"none", "in", "out", "gone"}] /\ hidden' = hidden
      BY <1>0 DEF MoveDeal
    <3>3. MergeContacts \/ RemoveContact => place' = place /\ hidden' = hidden
      BY DEF MergeContacts, RemoveContact
    <3>4. ChangeRole => place' = place /\ hidden' = ~hidden
      BY DEF ChangeRole
    <3> QED
      BY <1>0, <1>1, <3>1, <3>2, <3>3, <3>4
  <2>3. contact' \in [Ids -> Contacts \cup {NoContact}]
    BY <1>0, <1>1 DEF MoveDeal, MergeContacts, RemoveContact, ChangeRole
  <2>4. unread' \subseteq Ids
    <3>1. unread \subseteq Ids
      BY <1>0 DEF SweepsTypeOK
    <3>2. MoveDeal \/ RemoveContact => \E d \in Ids : unread' = unread \cup {d}
      BY DEF MoveDeal, RemoveContact
    <3>3. MergeContacts \/ ChangeRole => unread' = unread
      BY DEF MergeContacts, ChangeRole
    <3>4. CASE MoveDeal \/ RemoveContact
      <4>1. PICK d \in Ids : unread' = unread \cup {d}
        BY <3>2, <3>4
      <4> QED
        BY <3>1, <4>1
    <3>5. CASE MergeContacts \/ ChangeRole
      BY <3>1, <3>3, <3>5
    <3> QED
      BY <1>1, <3>4, <3>5
  <2> QED
    BY <2>1, <2>2, <2>3, <2>4, TurnsSweeps
<1>2. CASE Import
  <2>1. /\ table' \in [Ids -> [contact : Contacts \cup {NoContact}, here : BOOLEAN]]
        /\ \A d \in Ids : ~table'[d].here => table'[d] = NoDeal
    BY <1>0, <1>2 DEF Import
  <2>2. CASE task # "idle"
    BY <1>2, <2>1, <2>2, TableSweeps DEF Import, SweepsInv, SweepsTypeOK
  <2>3. CASE task = "idle"
    <3>1. Visible' = Visible
      BY <1>2 DEF Import, portalVars, Visible
    <3>2. SweepsTypeOK'
      BY <1>2, <2>1 DEF Import, SweepsInv, SweepsTypeOK, portalVars
    <3> QED
      BY <1>2, <2>3, <3>1, <3>2
      DEF Import, SweepsInv, FoundIsRead, HistoryIsTrue, WalkIsTrue, CheckIsTrue
  <2> QED
    BY <2>2, <2>3
<1>3. CASE StartWalk
  BY <1>0, <1>3, StartsSweeps DEF StartWalk, Starts, SweepsTypeOK
<1>4. CASE WalkPage
  BY <1>4, WalkPageSweeps
<1>5. CASE RefuseWalk \/ SweepDies \/ EndSweep \/ RefuseCheck
  BY <1>0, <1>5, EndsSweeps DEF RefuseWalk, WalkStops, SweepDies, EndSweep, RefuseCheck
<1>6. CASE DeleteMissing
  <2>1. /\ table' \in [Ids -> [contact : Contacts \cup {NoContact}, here : BOOLEAN]]
        /\ \A d \in Ids : ~table'[d].here => table'[d] = NoDeal
    BY <1>0, <1>6 DEF DeleteMissing, NoDeal
  <2> QED
    BY <1>0, <1>6, <2>1, TableSweeps DEF DeleteMissing, AfterSweep, SweepsTypeOK
<1>7. CASE RelinkContacts
  <2>1. \A d \in DOMAIN found : found[d] \in Contacts \cup {NoContact}
    BY <1>7 DEF RelinkContacts, SweepsInv, FoundIsRead
  <2>2. \A d \in Ids : d \in Moved => table[d].here /\ found[d] \in Contacts \cup {NoContact}
    BY <2>1 DEF Moved, InTable
  <2>3. \A d \in Ids : [table[d] EXCEPT !.contact = found[d]] = [contact |-> found[d], here |-> table[d].here]
    BY <1>0
  <2>4. /\ table' \in [Ids -> [contact : Contacts \cup {NoContact}, here : BOOLEAN]]
        /\ \A d \in Ids : ~table'[d].here => table'[d] = NoDeal
    BY <1>0, <1>7, <2>2, <2>3 DEF RelinkContacts
  <2> QED
    BY <1>0, <1>7, <2>4, TableSweeps DEF RelinkContacts, SweepsTypeOK
<1>8. CASE StartCheck
  BY <1>8, StartsSweeps DEF StartCheck
<1>9. CASE AskPage
  BY <1>9, AskPageSweeps
<1>10. CASE DeleteGone
  <2>1. /\ table' \in [Ids -> [contact : Contacts \cup {NoContact}, here : BOOLEAN]]
        /\ \A d \in Ids : ~table'[d].here => table'[d] = NoDeal
    BY <1>0, <1>10 DEF DeleteGone, NoDeal
  <2> QED
    BY <1>10, <2>1, EndsSweeps DEF DeleteGone
<1>11. CASE UNCHANGED sweepVars
  BY <1>11 DEF sweepVars, portalVars, SweepsInv, SweepsTypeOK, FoundIsRead, HistoryIsTrue,
     WalkIsTrue, CheckIsTrue, Visible
<1> QED
  BY <1>1, <1>2, <1>3, <1>4, <1>5, <1>6, <1>7, <1>8, <1>9, <1>10, <1>11 DEF SweepsNext

\* What a sweep or a check deletes was missed, and what was absent is deleted.
LEMMA DeletesAreTrue ==
  ASSUME SweepsInv, [SweepsNext]_sweepVars
  PROVE  /\ \A d \in Ids : table[d].here /\ ~table'[d].here => d \in missed
         /\ task = "sweep" /\ task' = "relink" /\ found # Nothing /\ Cardinality(Unfound) <= SweepMost
            => \A d \in absent : ~table'[d].here
<1> USE DEF SweepsInv
<1>1. CASE DeleteMissing
  <2>1. \A d \in Ids : table'[d] = table[d] \/ (table'[d] = NoDeal /\ d \in Unfound)
    BY <1>1 DEF DeleteMissing
  <2>2. \A d \in Unfound : d \in missed
    BY <1>1 DEF DeleteMissing, Unfound, InTable, WalkIsTrue
  <2>3. \A d \in absent : d \in Ids /\ d \notin DOMAIN found
    BY <1>1 DEF DeleteMissing, WalkIsTrue, SweepsTypeOK
  <2>4. found # Nothing => DOMAIN found # {}
    BY DEF Nothing, FoundIsRead
  <2>5. \A d \in absent : found # Nothing /\ Cardinality(Unfound) <= SweepMost => ~table'[d].here
    BY <1>1, <2>3, <2>4 DEF DeleteMissing, Unfound, InTable, NoDeal
  <2> QED
    BY <2>1, <2>2, <2>5
<1>2. CASE DeleteGone
  <2>1. \A d \in Ids : table'[d] = table[d] \/ (table'[d] = NoDeal /\ d \in Unanswered)
    BY <1>2 DEF DeleteGone
  <2>2. \A d \in Unanswered : d \in missed
    BY <1>2 DEF DeleteGone, Unanswered, CheckIsTrue
  <2> QED
    BY <1>2, <2>1, <2>2 DEF DeleteGone
<1>3. CASE Import
  BY <1>3 DEF Import
<1>4. CASE RelinkContacts
  <2>1. \A d \in Ids : [table[d] EXCEPT !.contact = found[d]].here = table[d].here
    BY DEF SweepsTypeOK
  <2>2. \A d \in Ids : table'[d].here = table[d].here
    BY <1>4, <2>1 DEF RelinkContacts
  <2> QED
    BY <1>4, <2>2 DEF RelinkContacts
<1>5. table' = table /\ ~ (task = "sweep" /\ task' = "relink")
      => /\ \A d \in Ids : table[d].here /\ ~table'[d].here => d \in missed
         /\ task = "sweep" /\ task' = "relink" /\ found # Nothing /\ Cardinality(Unfound) <= SweepMost
            => \A d \in absent : ~table'[d].here
  OBVIOUS
<1>6. CASE MoveDeal \/ MergeContacts \/ RemoveContact \/ ChangeRole \/ UNCHANGED sweepVars
  BY <1>5, <1>6 DEF MoveDeal, MergeContacts, RemoveContact, ChangeRole, Turns, sweepVars
<1>7. CASE StartWalk \/ StartCheck \/ WalkPage \/ AskPage
  BY <1>5, <1>7 DEF StartWalk, StartCheck, Starts, WalkPage, AskPage
<1>8. CASE RefuseWalk \/ SweepDies \/ EndSweep \/ RefuseCheck
  BY <1>5, <1>8 DEF RefuseWalk, WalkStops, SweepDies, EndSweep, RefuseCheck, Ends
<1> QED
  BY <1>1, <1>2, <1>3, <1>4, <1>6, <1>7, <1>8 DEF SweepsNext

(***************************************************************************)
(* For tables, pages and limits of any size, and however deals move while  *)
(* they are read: a sweep or a check deletes only what the portal did not  *)
(* show at some time of its job, and a sweep that is not refused leaves no *)
(* deal the portal was without all along (deleteMissing, dealsGone).       *)
(***************************************************************************)
THEOREM SweepsTakeTheGoneHolds == SweepsSpec => SweepsTakeTheGone
<1>1. SweepsInv /\ [SweepsNext]_sweepVars
      => [\A d \in Ids : table[d].here /\ ~table'[d].here => d \in missed]_sweepVars
  BY DeletesAreTrue
<1>2. SweepsInv /\ [SweepsNext]_sweepVars
      => [task = "sweep" /\ task' = "relink" /\ found # Nothing /\ Cardinality(Unfound) <= SweepMost
            => \A d \in absent : ~table'[d].here]_sweepVars
  BY DeletesAreTrue
<1> QED
  BY <1>1, <1>2, InitSweeps, StepSweeps, PTL
  DEF SweepsSpec, SweepsTakeTheGone, OnlyTheUnseenGo, GoneAreSwept

LEMMA RelinksAreTrue ==
  ASSUME SweepsInv, [SweepsNext]_sweepVars, task' = "relinked", task \in {"sweep", "relink"},
         Cardinality(Moved) <= RelinkMost, NEW d \in (InTable \cap DOMAIN found) \ turned
  PROVE  table'[d].contact = IF contact[d] = NoContact THEN table[d].contact ELSE contact[d]
<1> USE DEF SweepsInv
<1>1. RelinkContacts
  BY DEF SweepsNext, MoveDeal, MergeContacts, RemoveContact, ChangeRole, Turns, Import, StartWalk,
     StartCheck, Starts, WalkPage, AskPage, RefuseWalk, WalkStops, SweepDies, EndSweep, RefuseCheck,
     Ends, DeleteMissing, AfterSweep, DeleteGone, sweepVars
<1>2. d \in Ids /\ found[d] = contact[d] /\ table[d] \in [contact : Contacts \cup {NoContact}, here : BOOLEAN]
  BY <1>1 DEF RelinkContacts, WalkIsTrue, SweepsTypeOK
<1>3. table'[d] = IF d \in Moved THEN [table[d] EXCEPT !.contact = found[d]] ELSE table[d]
  BY <1>1, <1>2 DEF RelinkContacts
<1>4. CASE d \in Moved
  BY <1>2, <1>3, <1>4 DEF Moved
<1>5. CASE d \notin Moved
  BY <1>2, <1>3, <1>5 DEF Moved
<1> QED
  BY <1>4, <1>5

(***************************************************************************)
(* A relink, also one that follows a refused sweep, brings every deal its  *)
(* walk read to the portal's contact, but one whose contact changed since  *)
(* the walk began (relinkContacts).                                        *)
(***************************************************************************)
THEOREM MergesAreFollowedHolds == SweepsSpec => MergesAreFollowed
<1>1. SweepsInv /\ [SweepsNext]_sweepVars
      => [task' = "relinked" /\ task \in {"sweep", "relink"} /\ Cardinality(Moved) <= RelinkMost
            => \A d \in (InTable \cap DOMAIN found) \ turned :
                 table'[d].contact = IF contact[d] = NoContact THEN table[d].contact ELSE contact[d]]_sweepVars
  BY RelinksAreTrue
<1> QED
  BY <1>1, InitSweeps, StepSweeps, PTL DEF SweepsSpec, MergesAreFollowed

-------------------------------------------------------------------------------
(* Sums over finite sets: what the budget's and the hour's totals rest on. *)

\* The sum over a set is taken one chosen member at a time.
Chosen(s) == CHOOSE y \in s : TRUE
AddsUp(f, S, g) ==
  g = [s \in SUBSET S |-> IF s = {} THEN 0 ELSE f[Chosen(s)] + g[s \ {Chosen(s)}]]
Running(f, S) == CHOOSE g : AddsUp(f, S, g)

\* A sum is the running total at the whole set.
LEMMA SumIsRunning ==
  ASSUME NEW f, NEW S
  PROVE  SumOver(f, S) = Running(f, S)[S]
BY DEF SumOver, Running, AddsUp, Chosen, MapThenSumSet, MapThenFoldSet

\* CHOOSE takes a member of a set that has one.
LEMMA ChosenIsMember ==
  ASSUME NEW s, s # {}
  PROVE  Chosen(s) \in s
BY DEF Chosen

\* A set of subsets of a finite set has one that contains no other.
LEMMA SmallestSet ==
  ASSUME NEW S, IsFiniteSet(S), NEW T \in SUBSET SUBSET S, T # {}
  PROVE  \E s \in T : \A u \in T : u \subseteq s => u = s
<1>1. T \subseteq FiniteSubsetsOf(S)
  BY FS_Subset DEF FiniteSubsetsOf
<1>2. IsWellFoundedOn(StrictSubsetOrdering(S), FiniteSubsetsOf(S))
  BY FS_StrictSubsetOrderingWellFounded
<1>3. PICK s \in T : \A u \in T : ~ (<<u, s>> \in StrictSubsetOrdering(S))
  BY <1>1, <1>2, WFMin
<1>4. ASSUME NEW u \in T, u \subseteq s PROVE u = s
  <2>1. <<u, s>> \notin StrictSubsetOrdering(S)
    BY <1>3
  <2> QED
    BY <1>4, <2>1 DEF StrictSubsetOrdering
<1>5. QED
  BY <1>4

\* Running totals over two sets agree where both are defined.
LEMMA RunningAgree ==
  ASSUME NEW f, NEW V, IsFiniteSet(V), NEW U \in SUBSET V, NEW g, NEW h, AddsUp(f, U, g), AddsUp(f, V, h)
  PROVE  \A s \in SUBSET U : g[s] = h[s]
<1> DEFINE T == {s \in SUBSET U : g[s] # h[s]}
<1>1. SUFFICES ASSUME T # {} PROVE FALSE
  OBVIOUS
<1>2. IsFiniteSet(U)
  BY FS_Subset
<1>0. T \in SUBSET SUBSET U
  OBVIOUS
<1> HIDE DEF T
<1>3. PICK s \in T : \A u \in T : u \subseteq s => u = s
  BY <1>1, <1>2, <1>0, SmallestSet
<1>4. s \in SUBSET U /\ s \in SUBSET V /\ g[s] # h[s]
  BY DEF T
<1>5. g[s] = (IF s = {} THEN 0 ELSE f[Chosen(s)] + g[s \ {Chosen(s)}])
  BY <1>4 DEF AddsUp
<1>6. h[s] = (IF s = {} THEN 0 ELSE f[Chosen(s)] + h[s \ {Chosen(s)}])
  BY <1>4 DEF AddsUp
<1>7. s # {}
  BY <1>4, <1>5, <1>6
<1>8. s \ {Chosen(s)} # s /\ s \ {Chosen(s)} \in SUBSET U
  BY <1>4, <1>7, ChosenIsMember
<1>9. g[s \ {Chosen(s)}] = h[s \ {Chosen(s)}]
  BY <1>3, <1>8 DEF T
<1>10. QED
  BY <1>4, <1>5, <1>6, <1>7, <1>9

\* There is a running total over the subsets of a finite set: a smallest
\* set without one would have one.
LEMMA RunningExists ==
  ASSUME NEW f, NEW S, IsFiniteSet(S)
  PROVE  AddsUp(f, S, Running(f, S))
<1> DEFINE T == {U \in SUBSET S : ~AddsUp(f, U, Running(f, U))}
<1>1. SUFFICES ASSUME T # {} PROVE FALSE
  OBVIOUS
<1>0. T \in SUBSET SUBSET S
  OBVIOUS
<1> HIDE DEF T
<1>2. PICK U \in T : \A u \in T : u \subseteq U => u = U
  BY <1>1, <1>0, SmallestSet
<1>3. U \in SUBSET S /\ ~AddsUp(f, U, Running(f, U))
  BY DEF T
<1>4. \A r \in SUBSET U : r # U => AddsUp(f, r, Running(f, r)) /\ IsFiniteSet(r)
  BY <1>2, <1>3, FS_Subset DEF T
<1> DEFINE h == [s \in SUBSET U |->
             IF s = {} THEN 0 ELSE f[Chosen(s)] + Running(f, s \ {Chosen(s)})[s \ {Chosen(s)}]]
<1>5. ASSUME NEW s \in SUBSET U, s # {}
      PROVE  h[s \ {Chosen(s)}] = Running(f, s \ {Chosen(s)})[s \ {Chosen(s)}]
  <2> DEFINE r == s \ {Chosen(s)}
             q == r \ {Chosen(r)}
  <2>1. r \in SUBSET U /\ r # U
    BY <1>5, ChosenIsMember
  <2>2. AddsUp(f, r, Running(f, r)) /\ IsFiniteSet(r)
    BY <1>4, <2>1
  <2> HIDE DEF r
  <2>3. h[r] = IF r = {} THEN 0 ELSE f[Chosen(r)] + Running(f, q)[q]
    BY <2>1
  <2>4. Running(f, r)[r] = IF r = {} THEN 0 ELSE f[Chosen(r)] + Running(f, r)[q]
    BY <2>2 DEF AddsUp
  <2>5. q \in SUBSET r
    OBVIOUS
  <2>6. ASSUME r # {} PROVE q # U /\ q \in SUBSET U
    BY <2>1, <2>6
  <2>7. ASSUME r # {} PROVE AddsUp(f, q, Running(f, q))
    BY <1>4, <2>6, <2>7
  <2>8. ASSUME r # {} PROVE Running(f, q)[q] = Running(f, r)[q]
    <3> HIDE DEF q
    <3> QED BY <2>2, <2>5, <2>7, <2>8, RunningAgree
  <2>9. h[r] = Running(f, r)[r]
    <3> HIDE DEF q, h
    <3> QED BY <2>3, <2>4, <2>8
  <2> QED
    BY <2>9 DEF r
<1>6. AddsUp(f, U, h)
  BY <1>5 DEF AddsUp
<1> HIDE DEF h
<1>7. QED
  BY <1>3, <1>6 DEF Running

\* A sum takes out the member CHOOSE takes, then the rest.
LEMMA SumStep ==
  ASSUME NEW f, NEW S, IsFiniteSet(S)
  PROVE  SumOver(f, S) = IF S = {} THEN 0 ELSE f[Chosen(S)] + SumOver(f, S \ {Chosen(S)})
<1> DEFINE r == S \ {Chosen(S)}
<1>1. AddsUp(f, S, Running(f, S)) /\ r \in SUBSET S /\ IsFiniteSet(r)
  BY RunningExists, FS_Subset
<1>2. Running(f, S)[S] = IF S = {} THEN 0 ELSE f[Chosen(S)] + Running(f, S)[r]
  BY <1>1 DEF AddsUp
<1>3. AddsUp(f, r, Running(f, r))
  BY <1>1, RunningExists
<1> HIDE DEF r
<1>4. Running(f, r)[r] = Running(f, S)[r]
  BY <1>1, <1>3, RunningAgree
<1>5. SumOver(f, S) = IF S = {} THEN 0 ELSE f[Chosen(S)] + SumOver(f, r)
  BY <1>2, <1>4, SumIsRunning
<1>6. QED
  BY <1>5 DEF r

\* Nothing sums to zero.
LEMMA SumEmpty ==
  ASSUME NEW f
  PROVE  SumOver(f, {}) = 0
BY SumStep, FS_EmptySet

\* Sums of naturals.
LEMMA SumType ==
  ASSUME NEW S, IsFiniteSet(S), NEW f, \A x \in S : f[x] \in Nat
  PROVE  SumOver(f, S) \in Nat
<1> DEFINE T == {s \in SUBSET S : SumOver(f, s) \notin Nat}
<1>1. SUFFICES ASSUME T # {} PROVE FALSE
  OBVIOUS
<1>0. T \in SUBSET SUBSET S
  OBVIOUS
<1> HIDE DEF T
<1>2. PICK s \in T : \A u \in T : u \subseteq s => u = s
  BY <1>1, <1>0, SmallestSet
<1>3. s \in SUBSET S /\ SumOver(f, s) \notin Nat /\ IsFiniteSet(s)
  BY FS_Subset DEF T
<1>4. s # {}
  BY <1>3, SumEmpty
<1>5. Chosen(s) \in s /\ s \ {Chosen(s)} # s /\ s \ {Chosen(s)} \in SUBSET S
  BY <1>3, <1>4, ChosenIsMember
<1>6. SumOver(f, s \ {Chosen(s)}) \in Nat
  BY <1>2, <1>5 DEF T
<1>7. f[Chosen(s)] \in Nat
  BY <1>3, <1>5
<1>8. SumOver(f, s) = f[Chosen(s)] + SumOver(f, s \ {Chosen(s)})
  BY <1>3, <1>4, SumStep
<1>9. QED
  BY <1>3, <1>6, <1>7, <1>8

\* The order in which the members are taken does not matter.
LEMMA SumRemove ==
  ASSUME NEW S, IsFiniteSet(S), NEW f, \A x \in S : f[x] \in Nat, NEW x \in S
  PROVE  SumOver(f, S) = f[x] + SumOver(f, S \ {x})
<1> DEFINE T == {s \in SUBSET S : \E y \in s : SumOver(f, s) # f[y] + SumOver(f, s \ {y})}
<1>1. SUFFICES ASSUME T # {} PROVE FALSE
  OBVIOUS
<1>0. T \in SUBSET SUBSET S
  OBVIOUS
<1> HIDE DEF T
<1>2. PICK s \in T : \A u \in T : u \subseteq s => u = s
  BY <1>1, <1>0, SmallestSet
<1>3. s \in SUBSET S /\ IsFiniteSet(s)
  BY FS_Subset DEF T
<1>4. PICK y \in s : SumOver(f, s) # f[y] + SumOver(f, s \ {y})
  BY DEF T
<1> DEFINE z == Chosen(s)
           r == s \ {y, z}
<1>5. z \in s
  BY <1>4, ChosenIsMember
<1> HIDE DEF z
<1>6. SumOver(f, s) = f[z] + SumOver(f, s \ {z})
  BY <1>3, <1>4, SumStep DEF z
<1>7. y # z
  BY <1>4, <1>6
<1>8. s \ {z} \notin T /\ s \ {y} \notin T
  BY <1>2, <1>4, <1>5
<1>9. s \ {z} \in SUBSET S /\ s \ {y} \in SUBSET S /\ y \in s \ {z} /\ z \in s \ {y}
  BY <1>3, <1>4, <1>5, <1>7
<1>10. (s \ {z}) \ {y} = r /\ (s \ {y}) \ {z} = r
  OBVIOUS
<1>11. SumOver(f, s \ {z}) = f[y] + SumOver(f, (s \ {z}) \ {y})
  BY <1>8, <1>9 DEF T
<1>12. SumOver(f, s \ {y}) = f[z] + SumOver(f, (s \ {y}) \ {z})
  BY <1>8, <1>9 DEF T
<1>13. IsFiniteSet(r) /\ r \in SUBSET S
  BY <1>3, FS_Subset
<1>14. SumOver(f, r) \in Nat
  BY <1>13, SumType
<1>15. f[y] \in Nat /\ f[z] \in Nat
  BY <1>3, <1>4, <1>5
<1> HIDE DEF r
<1>16. QED
  BY <1>4, <1>6, <1>10, <1>11, <1>12, <1>14, <1>15

\* Functions that agree on a set have one sum, and a greater one no less.
LEMMA SumMonotone ==
  ASSUME NEW S, IsFiniteSet(S), NEW f, NEW g, \A x \in S : f[x] \in Nat /\ g[x] \in Nat /\ f[x] <= g[x]
  PROVE  SumOver(f, S) <= SumOver(g, S)
<1> DEFINE T == {s \in SUBSET S : ~(SumOver(f, s) <= SumOver(g, s))}
<1>1. SUFFICES ASSUME T # {} PROVE FALSE
  OBVIOUS
<1>0. T \in SUBSET SUBSET S
  OBVIOUS
<1> HIDE DEF T
<1>2. PICK s \in T : \A u \in T : u \subseteq s => u = s
  BY <1>1, <1>0, SmallestSet
<1>3. s \in SUBSET S /\ ~(SumOver(f, s) <= SumOver(g, s)) /\ IsFiniteSet(s)
  BY FS_Subset DEF T
<1>4. PICK y \in s : TRUE
  BY <1>3, SumEmpty
<1> DEFINE r == s \ {y}
<1>5. r # s /\ r \in SUBSET S /\ IsFiniteSet(r)
  BY <1>3, <1>4, FS_Subset
<1>6. SumOver(f, s) = f[y] + SumOver(f, r) /\ SumOver(g, s) = g[y] + SumOver(g, r)
  BY <1>3, <1>4, SumRemove
<1> HIDE DEF r
<1>7. SumOver(f, r) <= SumOver(g, r)
  BY <1>2, <1>5 DEF T, r
<1>8. SumOver(f, r) \in Nat /\ SumOver(g, r) \in Nat
  BY <1>5, SumType
<1>9. f[y] \in Nat /\ g[y] \in Nat /\ f[y] <= g[y]
  BY <1>3, <1>4
<1>10. QED
  BY <1>3, <1>6, <1>7, <1>8, <1>9

LEMMA SumAgree ==
  ASSUME NEW S, IsFiniteSet(S), NEW f, NEW g, \A x \in S : f[x] \in Nat /\ g[x] = f[x]
  PROVE  SumOver(f, S) = SumOver(g, S)
<1>1. SumOver(f, S) <= SumOver(g, S)
  BY SumMonotone
<1>2. SumOver(g, S) <= SumOver(f, S)
  BY SumMonotone
<1>3. SumOver(f, S) \in Nat /\ SumOver(g, S) \in Nat
  BY SumType
<1>4. QED
  BY <1>1, <1>2, <1>3

\* A subset sums to no more.
LEMMA SumSubset ==
  ASSUME NEW S, IsFiniteSet(S), NEW f, \A x \in S : f[x] \in Nat, NEW U \in SUBSET S
  PROVE  SumOver(f, U) <= SumOver(f, S)
<1> DEFINE T == {s \in SUBSET S : U \subseteq s /\ ~(SumOver(f, U) <= SumOver(f, s))}
<1>1. SUFFICES ASSUME T # {} PROVE FALSE
  OBVIOUS
<1>0. T \in SUBSET SUBSET S
  OBVIOUS
<1> HIDE DEF T
<1>2. PICK s \in T : \A u \in T : u \subseteq s => u = s
  BY <1>1, <1>0, SmallestSet
<1>3. s \in SUBSET S /\ U \subseteq s /\ ~(SumOver(f, U) <= SumOver(f, s)) /\ IsFiniteSet(s) /\ IsFiniteSet(U)
  BY FS_Subset DEF T
<1>4. SumOver(f, U) \in Nat /\ SumOver(f, s) \in Nat
  BY <1>3, SumType
<1>5. PICK y \in s : y \notin U
  <2>1. U # s
    BY <1>3, <1>4
  <2> QED
    BY <1>3, <2>1
<1> DEFINE r == s \ {y}
<1>6. r # s /\ r \in SUBSET S /\ IsFiniteSet(r) /\ U \subseteq r
  BY <1>3, <1>5, FS_Subset
<1>7. SumOver(f, s) = f[y] + SumOver(f, r)
  BY <1>3, <1>5, SumRemove
<1> HIDE DEF r
<1>8. SumOver(f, U) <= SumOver(f, r)
  BY <1>2, <1>6 DEF T, r
<1>9. SumOver(f, r) \in Nat /\ f[y] \in Nat
  BY <1>3, <1>5, <1>6, SumType
<1>10. QED
  BY <1>3, <1>4, <1>7, <1>8, <1>9

\* More at one place is as much more in the sum.
LEMMA SumUpdate ==
  ASSUME NEW S, IsFiniteSet(S), NEW f, NEW g, NEW x \in S, NEW n \in Nat,
         \A y \in S : f[y] \in Nat, g[x] = f[x] + n, \A y \in S : y # x => g[y] = f[y]
  PROVE  SumOver(g, S) = SumOver(f, S) + n
<1> DEFINE r == S \ {x}
<1>1. IsFiniteSet(r)
  BY FS_Subset
<1>2. SumOver(f, S) = f[x] + SumOver(f, r)
  BY SumRemove
<1>3. \A y \in S : g[y] \in Nat
  OBVIOUS
<1>4. SumOver(g, S) = g[x] + SumOver(g, r)
  BY <1>3, SumRemove
<1>5. \A y \in r : f[y] \in Nat /\ g[y] = f[y]
  OBVIOUS
<1> HIDE DEF r
<1>6. SumOver(f, r) = SumOver(g, r)
  BY <1>1, <1>5, SumAgree
<1>7. SumOver(f, r) \in Nat /\ f[x] \in Nat
  BY <1>1, <1>5, SumType
<1>8. QED
  BY <1>2, <1>4, <1>6, <1>7

-------------------------------------------------------------------------------
(* What leaves in an hour. *)

\* The minutes follow the instants.
LEMMA MinutesGrow ==
  ASSUME NEW a \in Nat, NEW b \in Nat, a <= b
  PROVE  MinuteOf(a) \in Nat /\ MinuteOf(b) \in Nat /\ MinuteOf(a) <= MinuteOf(b)
<1> DEFINE p == a \div Minute
           q == b \div Minute
<1>1. Minute \in Nat /\ Minute > 0
  BY PaceAssumption
<1>2. p \in Nat /\ q \in Nat /\ a >= p * Minute /\ b < (q + 1) * Minute
  BY <1>1
<1> HIDE DEF p, q
<1>3. p * Minute < (q + 1) * Minute
  BY <1>1, <1>2
<1>4. p < q + 1
  BY <1>1, <1>2, <1>3
<1>5. QED
  BY <1>2, <1>4 DEF p, q, MinuteOf

\* The instants of the last minutes but one are of minutes not yet dropped.
LEMMA HourIsKept ==
  ASSUME NEW t \in Nat, NEW a \in Nat, a > t - (WindowMinutes - 1) * Minute
  PROVE  MinuteOf(a) > MinuteOf(t) - WindowMinutes
<1> DEFINE p == a \div Minute
           q == t \div Minute
<1>1. Minute \in Nat /\ Minute > 0 /\ WindowMinutes \in Nat
  BY PaceAssumption
<1>2. p \in Nat /\ q \in Nat /\ t >= q * Minute /\ a < (p + 1) * Minute
  BY <1>1
<1> HIDE DEF p, q
<1>3. (p + 1) * Minute > q * Minute - (WindowMinutes - 1) * Minute
  BY <1>1, <1>2
<1>4. (p + 1) * Minute > (q - (WindowMinutes - 1)) * Minute
  BY <1>1, <1>2, <1>3
<1>5. p + 1 > q - (WindowMinutes - 1)
  BY <1>1, <1>2, <1>4
<1>6. QED
  BY <1>1, <1>2, <1>5 DEF p, q, MinuteOf

\* A finite set of naturals has its greatest.
LEMMA GreatestNat ==
  ASSUME NEW K, K \subseteq Nat, IsFiniteSet(K), K # {}
  PROVE  Max(K) \in K /\ \A n \in K : n <= Max(K)
<1> DEFINE T == {s \in SUBSET K : s # {} /\ ~\E x \in s : \A y \in s : x >= y}
<1>1. K \subseteq Nat /\ K # {} /\ IsFiniteSet(K)
  OBVIOUS
<1>2. T = {}
  <2>1. SUFFICES ASSUME T # {} PROVE FALSE
    OBVIOUS
  <2>2. T \in SUBSET SUBSET K
    OBVIOUS
  <2> HIDE DEF T
  <2>0. IsFiniteSet(K)
    BY <1>1
  <2>3. PICK s \in T : \A u \in T : u \subseteq s => u = s
    BY ONLY <2>0, <2>1, <2>2, SmallestSet
  <2>4. s \in SUBSET K /\ s # {} /\ ~\E x \in s : \A y \in s : x >= y
    BY DEF T
  <2>5. PICK y \in s : TRUE
    BY <2>4
  <2>6. s \ {y} \notin T
    BY <2>3
  <2>7. s \ {y} # {}
    BY <1>1, <2>4
  <2>8. PICK z \in s \ {y} : \A x \in s \ {y} : z >= x
    BY <2>4, <2>6, <2>7 DEF T
  <2>9. y \in Nat /\ z \in Nat /\ s \subseteq Nat
    BY <1>1, <2>4
  <2>10. CASE z >= y
    BY <2>4, <2>8, <2>9, <2>10
  <2>11. CASE y >= z
    <3>1. \A x \in s : y >= x
      BY <2>8, <2>9, <2>11
    <3> QED
      BY <2>4, <3>1
  <2> QED
    BY <2>9, <2>10, <2>11
<1>3. \E x \in K : \A y \in K : x >= y
  BY <1>1, <1>2
<1>4. Max(K) \in K /\ \A y \in K : Max(K) >= y
  BY <1>3 DEF Max
<1>5. QED
  BY <1>1, <1>4

LEMMA DearestCall ==
  Max(Costs) \in Nat /\ \A n \in Costs : n <= Max(Costs)
<1>1. Costs \in SUBSET Nat /\ Costs # {} /\ IsFiniteSet(Costs)
  BY PaceAssumption
<1> QED
  BY <1>1, GreatestNat

\* What has left since an instant, with what the meter holds, is at most what
\* the kept minutes since then have spent, and one call.
LeftSince(a) == {t \in Times : t >= a}
MinutesSince(a) == {m \in 0..MinuteOf(LastTime) : m >= MinuteOf(a)}
AtMeter == IF at = "meter" THEN cost ELSE 0

PaceShapes ==
  /\ PaceTypeOK
  /\ measured \in [Times -> Nat] /\ sent \in [Times -> Nat]
  /\ \A t \in Times : t > time => sent[t] = 0
  /\ at = "none" => attempts = 0
  /\ at \in {"budget", "meter"} => attempts <= Retries

PlaceIsHeld == at = "budget" => Sum(bucket) + cost <= Ceiling

PaidForButOne ==
  \A a \in 0..time : MinuteOf(a) > MinuteOf(time) - WindowMinutes =>
    SumOver(sent, LeftSince(a)) + AtMeter <= SumOver(bucket, MinutesSince(a)) + Max(Costs)

PaceInv == PaceShapes /\ PlaceIsHeld /\ PaidForButOne

\* The constants, as the sums need them: naturals and finite sets.
LEMMA PaceSets ==
  /\ {Minute, WindowMinutes, Burst} \subseteq Nat \ {0}
  /\ {Ceiling, SoftCeiling, MaxPace, Basket, SoftSeconds, HardSeconds, Retries, LastTime} \subseteq Nat
  /\ IsFiniteSet(Times) /\ Times \subseteq Nat /\ MinuteOf(LastTime) \in Nat
  /\ IsFiniteSet(0..MinuteOf(LastTime))
<1>1. LastTime \in Nat
  BY PaceAssumption
<1>2. MinuteOf(LastTime) \in Nat
  BY <1>1, MinutesGrow
<1>3. QED
  BY <1>1, <1>2, PaceAssumption, FS_Interval DEF Times

\* A sum of zeros.
LEMMA SumOfNone ==
  ASSUME NEW S, IsFiniteSet(S), NEW f, \A x \in S : f[x] = 0
  PROVE  SumOver(f, S) = 0
<1> DEFINE T == {s \in SUBSET S : SumOver(f, s) # 0}
<1>1. SUFFICES ASSUME T # {} PROVE FALSE
  OBVIOUS
<1>0. T \in SUBSET SUBSET S
  OBVIOUS
<1> HIDE DEF T
<1>2. PICK s \in T : \A u \in T : u \subseteq s => u = s
  BY <1>0, <1>1, SmallestSet
<1>3. s \in SUBSET S /\ SumOver(f, s) # 0 /\ IsFiniteSet(s)
  BY FS_Subset DEF T
<1>4. s # {}
  BY <1>3, SumEmpty
<1>5. Chosen(s) \in s /\ s \ {Chosen(s)} # s /\ s \ {Chosen(s)} \in SUBSET S
  BY <1>3, <1>4, ChosenIsMember
<1>6. SumOver(f, s \ {Chosen(s)}) = 0
  BY <1>2, <1>5 DEF T
<1>7. SumOver(f, s) = f[Chosen(s)] + SumOver(f, s \ {Chosen(s)})
  BY <1>3, <1>4, SumStep
<1>8. QED
  BY <1>3, <1>5, <1>6, <1>7

\* The sums of a well-shaped state are naturals, a part no more than the whole.
LEMMA PaceSums ==
  ASSUME PaceShapes
  PROVE  /\ \A a : LeftSince(a) \in SUBSET Times /\ IsFiniteSet(LeftSince(a)) /\ SumOver(sent, LeftSince(a)) \in Nat
         /\ \A a : /\ MinutesSince(a) \in SUBSET (0..MinuteOf(LastTime)) /\ IsFiniteSet(MinutesSince(a))
                   /\ SumOver(bucket, MinutesSince(a)) \in Nat
                   /\ SumOver(bucket, MinutesSince(a)) <= Sum(bucket)
         /\ Sum(bucket) \in Nat /\ DOMAIN bucket = 0..MinuteOf(LastTime)
<1>0. sent \in [Times -> Nat] /\ bucket \in [0..MinuteOf(LastTime) -> 0..Ceiling]
  BY DEF PaceShapes, PaceTypeOK
<1>1. sent \in [Times -> Nat] /\ bucket \in [0..MinuteOf(LastTime) -> 0..Ceiling] /\ 0..Ceiling \subseteq Nat
  BY <1>0, PaceSets
<1>2. DOMAIN bucket = 0..MinuteOf(LastTime) /\ \A m \in 0..MinuteOf(LastTime) : bucket[m] \in Nat
  BY <1>1
<1>3. ASSUME NEW a
      PROVE  LeftSince(a) \in SUBSET Times /\ IsFiniteSet(LeftSince(a)) /\ SumOver(sent, LeftSince(a)) \in Nat
  <2>1. LeftSince(a) \in SUBSET Times
    BY DEF LeftSince
  <2>2. IsFiniteSet(LeftSince(a))
    BY <2>1, PaceSets, FS_Subset
  <2>3. \A t \in LeftSince(a) : sent[t] \in Nat
    BY <1>1, <2>1
  <2> QED
    BY <2>1, <2>2, <2>3, SumType
<1>4. ASSUME NEW a
      PROVE  /\ MinutesSince(a) \in SUBSET (0..MinuteOf(LastTime)) /\ IsFiniteSet(MinutesSince(a))
             /\ SumOver(bucket, MinutesSince(a)) \in Nat
             /\ SumOver(bucket, MinutesSince(a)) <= SumOver(bucket, 0..MinuteOf(LastTime))
  <2>1. MinutesSince(a) \in SUBSET (0..MinuteOf(LastTime))
    BY DEF MinutesSince
  <2>2. IsFiniteSet(MinutesSince(a))
    BY <2>1, PaceSets, FS_Subset
  <2>3. \A m \in MinutesSince(a) : bucket[m] \in Nat
    BY <1>2, <2>1
  <2>4. SumOver(bucket, MinutesSince(a)) \in Nat
    BY <2>2, <2>3, SumType
  <2>5. IsFiniteSet(0..MinuteOf(LastTime))
    BY PaceSets
  <2>6. SumOver(bucket, MinutesSince(a)) <= SumOver(bucket, 0..MinuteOf(LastTime))
    BY ONLY <1>2, <2>1, <2>5, SumSubset
  <2> QED
    BY <2>1, <2>2, <2>4, <2>6
<1>5. SumOver(bucket, 0..MinuteOf(LastTime)) \in Nat
  BY <1>2, PaceSets, SumType
<1>6. QED
  BY <1>2, <1>3, <1>4, <1>5 DEF Sum

\* What is evicted leaves a smaller total and the last minutes as they were.
LEMMA EvictedFacts ==
  ASSUME PaceShapes
  PROVE  /\ Evicted \in [0..MinuteOf(LastTime) -> 0..Ceiling]
         /\ Sum(Evicted) \in Nat /\ Sum(Evicted) <= Sum(bucket)
         /\ \A a \in Nat : MinuteOf(a) > MinuteOf(time) - WindowMinutes =>
              SumOver(Evicted, MinutesSince(a)) = SumOver(bucket, MinutesSince(a))
<1>1. DOMAIN bucket = 0..MinuteOf(LastTime) /\ \A m \in 0..MinuteOf(LastTime) : bucket[m] \in 0..Ceiling
  BY PaceSums DEF PaceShapes, PaceTypeOK
<1>2. Ceiling \in Nat /\ time \in Nat /\ WindowMinutes \in Nat
  BY PaceSets DEF PaceShapes, PaceTypeOK
<1>3. Evicted \in [0..MinuteOf(LastTime) -> 0..Ceiling]
  BY <1>1, <1>2 DEF Evicted
<1>4. \A m \in 0..MinuteOf(LastTime) : Evicted[m] \in Nat /\ bucket[m] \in Nat /\ Evicted[m] <= bucket[m]
  BY <1>1, <1>2 DEF Evicted
<1>5. DOMAIN Evicted = 0..MinuteOf(LastTime) /\ IsFiniteSet(0..MinuteOf(LastTime))
  BY <1>3, PaceSets
<1>6. Sum(Evicted) \in Nat
  BY <1>4, <1>5, SumType DEF Sum
<1>7. Sum(Evicted) <= Sum(bucket)
  <2>1. SumOver(Evicted, 0..MinuteOf(LastTime)) <= SumOver(bucket, 0..MinuteOf(LastTime))
    BY ONLY <1>4, <1>5, SumMonotone
  <2> QED
    BY <1>1, <1>5, <2>1 DEF Sum
<1>8. ASSUME NEW a \in Nat, MinuteOf(a) > MinuteOf(time) - WindowMinutes
      PROVE  SumOver(Evicted, MinutesSince(a)) = SumOver(bucket, MinutesSince(a))
  <2>1. MinutesSince(a) \subseteq 0..MinuteOf(LastTime) /\ IsFiniteSet(MinutesSince(a))
    BY PaceSums
  <2>2. MinuteOf(a) \in Nat /\ MinuteOf(time) \in Nat /\ MinuteOf(LastTime) \in Nat
    <3>1. a <= a /\ time <= time
      BY <1>2
    <3> QED
      BY <1>2, <3>1, MinutesGrow, PaceSets
  <2>3. \A m \in MinutesSince(a) : Evicted[m] = bucket[m]
    BY <1>1, <1>2, <1>8, <2>2 DEF Evicted, MinutesSince, Kept
  <2>4. \A m \in MinutesSince(a) : Evicted[m] \in Nat /\ bucket[m] = Evicted[m]
    BY <1>4, <2>1, <2>3
  <2> QED
    BY ONLY <2>1, <2>4, SumAgree
<1>9. QED
  BY <1>3, <1>6, <1>7, <1>8

\* A process starts with nothing asked for.
LEMMA PaceStarts == PaceInit => PaceInv
<1> SUFFICES ASSUME PaceInit PROVE PaceInv
  OBVIOUS
<1>1. DOMAIN bucket = 0..MinuteOf(LastTime) /\ \A m \in DOMAIN bucket : bucket[m] = 0
  BY DEF PaceInit
<1>2. Sum(bucket) = 0
  BY <1>1, PaceSets, SumOfNone DEF Sum
<1>3. PaceShapes
  <2>1. time \in Times /\ tokens \in 0..Burst /\ until \in 0..(LastTime + Basket + MaxPace) /\ attempts \in 0..(Retries + 1)
    BY PaceSets DEF PaceInit, Times
  <2>2. bucket \in [0..MinuteOf(LastTime) -> 0..Ceiling] /\ Sum(bucket) <= Ceiling
    BY <1>2, PaceSets DEF PaceInit
  <2>3. /\ measured \in [Times -> Nat] /\ sent \in [Times -> Nat] /\ at = "none" /\ cost = 0 /\ attempts = 0
        /\ \A t \in Times : sent[t] = 0
    BY DEF PaceInit
  <2> QED
    BY <2>1, <2>2, <2>3 DEF PaceShapes, PaceTypeOK
<1>4. PlaceIsHeld
  BY DEF PaceInit, PlaceIsHeld
<1>5. PaidForButOne
  <2> SUFFICES ASSUME NEW a \in 0..time
               PROVE  SumOver(sent, LeftSince(a)) + AtMeter <= SumOver(bucket, MinutesSince(a)) + Max(Costs)
    BY DEF PaidForButOne
  <2>1. IsFiniteSet(LeftSince(a)) /\ LeftSince(a) \subseteq Times /\ SumOver(bucket, MinutesSince(a)) \in Nat
    BY <1>3, PaceSums
  <2>2. \A t \in LeftSince(a) : sent[t] = 0
    BY <2>1 DEF PaceInit
  <2>3. SumOver(sent, LeftSince(a)) = 0 /\ AtMeter = 0
    BY <2>1, <2>2, SumOfNone DEF AtMeter, PaceInit
  <2> QED
    BY <2>1, <2>3, DearestCall
<1>6. QED
  BY <1>3, <1>4, <1>5 DEF PaceInv

\* Dropping old minutes, and letting the meter go, breaks nothing.
LEMMA QuietPaid ==
  ASSUME PaceInv, time' = time, sent' = sent, at' # "meter", bucket' = Evicted \/ bucket' = bucket
  PROVE  PaidForButOne'
<1> SUFFICES ASSUME NEW a \in 0..time, MinuteOf(a) > MinuteOf(time) - WindowMinutes
             PROVE  SumOver(sent', LeftSince(a)) + AtMeter' <= SumOver(bucket', MinutesSince(a)) + Max(Costs)
  BY DEF PaidForButOne
<1>0. PaceShapes
  BY DEF PaceInv
<1>1. PaceShapes /\ time \in Nat /\ a \in Nat
  <2>1. time \in Times
    BY <1>0 DEF PaceShapes, PaceTypeOK
  <2>2. time \in Nat
    BY <2>1, PaceSets
  <2> QED
    BY <1>0, <2>2
<1>2. SumOver(sent, LeftSince(a)) + AtMeter <= SumOver(bucket, MinutesSince(a)) + Max(Costs)
  BY DEF PaceInv, PaidForButOne
<1>3. SumOver(bucket', MinutesSince(a)) = SumOver(bucket, MinutesSince(a))
  BY <1>1, EvictedFacts
<1>4. AtMeter' = 0
  BY DEF AtMeter
<1>5. AtMeter \in Nat
  <2>1. cost \in Nat
    BY <1>1, PaceAssumption DEF PaceShapes, PaceTypeOK
  <2> QED
    BY <2>1 DEF AtMeter
<1>6. SumOver(sent, LeftSince(a)) \in Nat /\ SumOver(bucket, MinutesSince(a)) \in Nat /\ Max(Costs) \in Nat
  BY <1>1, PaceSums, DearestCall
<1>7. SumOver(sent', LeftSince(a)) = SumOver(sent, LeftSince(a))
  OBVIOUS
<1>8. QED
  BY <1>2, <1>3, <1>4, <1>5, <1>6, <1>7

\* A call that ends, answered or refused, breaks nothing.
LEMMA GivingUpKeeps ==
  ASSUME PaceInv, GivesUp, UNCHANGED <<time, tokens, sent>>, measured' \in [Times -> Nat],
         bucket' = Evicted \/ bucket' = bucket
  PROVE  PaceInv'
<1>1. PaceShapes
  BY DEF PaceInv
<1>2. bucket' \in [0..MinuteOf(LastTime) -> 0..Ceiling] /\ Sum(bucket') <= Ceiling
  <2>1. Sum(bucket) <= Ceiling /\ bucket \in [0..MinuteOf(LastTime) -> 0..Ceiling]
    BY <1>1 DEF PaceShapes, PaceTypeOK
  <2>2. Sum(bucket) \in Nat /\ Sum(Evicted) \in Nat /\ Ceiling \in Nat
    BY <1>1, PaceSums, EvictedFacts, PaceSets
  <2> QED
    BY <1>1, <2>1, <2>2, EvictedFacts
<1>3. 0 \in 0..(LastTime + Basket + MaxPace) /\ 0 \in 0..(Retries + 1)
  BY PaceSets
<1>4. PaceShapes'
  BY <1>1, <1>2, <1>3, PaceAssumption DEF PaceShapes, PaceTypeOK, GivesUp
<1>5. PlaceIsHeld'
  BY DEF PlaceIsHeld, GivesUp
<1>6. PaidForButOne'
  BY QuietPaid DEF GivesUp
<1>7. QED
  BY <1>4, <1>5, <1>6 DEF PaceInv

\* A call, first or retried, holds a place only when the hour has room.
LEMMA AskingKeeps ==
  ASSUME PaceInv, NEW n \in Costs, attempts <= Retries, AsksBudget(n), UNCHANGED <<time, measured, tokens, sent>>
  PROVE  PaceInv'
<1>1. PaceShapes
  BY DEF PaceInv
<1>2. CASE ~HasRoom(n) /\ GivesUp
  <2>1. measured' \in [Times -> Nat]
    BY <1>1 DEF PaceShapes
  <2> QED
    BY <1>2, <2>1, GivingUpKeeps DEF AsksBudget
<1>3. CASE /\ HasRoom(n)
           /\ at' = "budget" /\ cost' = n
           /\ until' \in IF Sum(Evicted) >= SoftCeiling THEN time..(time + MaxPace) ELSE {time}
           /\ UNCHANGED attempts
  <2>1. bucket' = Evicted
    BY DEF AsksBudget
  <2>2. time \in 0..LastTime /\ {LastTime, Basket, MaxPace, Ceiling} \subseteq Nat /\ n \in Nat /\ n # 0
    BY <1>1, PaceSets, PaceAssumption DEF PaceShapes, PaceTypeOK, Times
  <2>3. until' \in 0..(LastTime + Basket + MaxPace)
    BY <1>3, <2>2
  <2>4. Sum(Evicted) + n <= Ceiling /\ Sum(Evicted) \in Nat /\ Evicted \in [0..MinuteOf(LastTime) -> 0..Ceiling]
    BY <1>1, <1>3, EvictedFacts DEF HasRoom
  <2>5. Sum(bucket') <= Ceiling
    BY <2>1, <2>2, <2>4
  <2>6. PaceShapes'
    BY <1>1, <1>3, <2>1, <2>2, <2>3, <2>4, <2>5 DEF PaceShapes, PaceTypeOK
  <2>7. PlaceIsHeld'
    BY <1>3, <2>1, <2>4 DEF PlaceIsHeld
  <2>8. PaidForButOne'
    BY <1>3, <2>1, QuietPaid
  <2> QED
    BY <2>6, <2>7, <2>8 DEF PaceInv
<1>4. QED
  BY <1>2, <1>3 DEF AsksBudget

\* Time sends nothing and spends nothing; its window of minutes only moves up.
LEMMA PassTimeKeeps ==
  ASSUME PaceInv, PassTime
  PROVE  PaceInv'
<1>1. PaceShapes
  BY DEF PaceInv
<1>2. time \in 0..LastTime /\ time' = time + 1 /\ time' \in 0..LastTime /\ time \in Nat /\ time' \in Nat
  BY <1>1, PaceSets DEF PaceShapes, PaceTypeOK, Times, PassTime
<1>3. PaceShapes'
  <2>1. tokens' \in 0..Burst
    BY <1>1, PaceSets DEF PaceShapes, PaceTypeOK, PassTime
  <2>2. \A t \in Times : t > time' => sent'[t] = 0
    BY <1>1, <1>2, PaceSets DEF PaceShapes, PassTime
  <2> QED
    BY <1>1, <1>2, <2>1, <2>2 DEF PaceShapes, PaceTypeOK, PassTime, Times
<1>4. PlaceIsHeld'
  BY DEF PaceInv, PlaceIsHeld, PassTime
<1>5. PaidForButOne'
  <2> SUFFICES ASSUME NEW a \in 0..time', MinuteOf(a) > MinuteOf(time') - WindowMinutes
               PROVE  SumOver(sent, LeftSince(a)) + AtMeter <= SumOver(bucket, MinutesSince(a)) + Max(Costs)
    BY DEF PaidForButOne, PassTime, AtMeter
  <2>1. CASE a \in 0..time
    <3>1. MinuteOf(time) \in Nat /\ MinuteOf(time') \in Nat /\ MinuteOf(time) <= MinuteOf(time') /\ MinuteOf(a) \in Nat
      <4>1. time <= time' /\ a <= time /\ a \in Nat
        BY <1>2, <2>1
      <4> QED
        BY <1>2, <4>1, MinutesGrow
    <3>2. MinuteOf(a) > MinuteOf(time) - WindowMinutes
      BY <3>1, PaceSets
    <3> QED
      BY <2>1, <3>2 DEF PaceInv, PaidForButOne
  <2>2. CASE a = time'
    <3>1. \A t \in LeftSince(a) : sent[t] = 0
      BY <1>1, <1>2, <2>2, PaceSets DEF PaceShapes, LeftSince
    <3>2. IsFiniteSet(LeftSince(a)) /\ SumOver(bucket, MinutesSince(a)) \in Nat
      BY <1>1, PaceSums
    <3>3. SumOver(sent, LeftSince(a)) = 0
      BY <3>1, <3>2, SumOfNone
    <3>4. AtMeter \in Nat /\ AtMeter <= Max(Costs)
      <4>1. cost \in Costs \cup {0}
        BY <1>1 DEF PaceShapes, PaceTypeOK
      <4>2. cost \in Nat /\ cost <= Max(Costs)
        BY <4>1, DearestCall, PaceAssumption
      <4> QED
        BY <4>2, DearestCall DEF AtMeter
    <3> QED
      BY <3>2, <3>3, <3>4, DearestCall
  <2> QED
    BY <1>2, <2>1, <2>2
<1>6. QED
  BY <1>3, <1>4, <1>5 DEF PaceInv

\* A call that spends books its cost on the minute it spends in.
LEMMA SpendKeeps ==
  ASSUME PaceInv, Spend
  PROVE  PaceInv'
<1> DEFINE D == 0..MinuteOf(LastTime)
           here == MinuteOf(time)
<1>1. PaceShapes
  BY DEF PaceInv
<1>2. time \in Nat /\ time \in 0..LastTime /\ LastTime \in Nat /\ Ceiling \in Nat /\ cost \in Nat /\ cost \in Costs
  BY <1>1, PaceSets, PaceAssumption DEF PaceShapes, PaceTypeOK, Times, Spend
<1>3. here \in D /\ here \in Nat
  <2>1. time <= LastTime
    BY <1>2
  <2> QED
    BY <1>2, <2>1, MinutesGrow
<1>4. /\ Evicted \in [D -> 0..Ceiling] /\ Evicted \in [D -> Nat] /\ IsFiniteSet(D)
      /\ Sum(Evicted) \in Nat /\ Sum(Evicted) <= Sum(bucket) /\ Sum(bucket) \in Nat
  <2>1. Evicted \in [D -> 0..Ceiling] /\ 0..Ceiling \subseteq Nat
    BY <1>1, <1>2, EvictedFacts
  <2> QED
    BY <1>1, <2>1, EvictedFacts, PaceSums, PaceSets
<1>5. bucket' = [Evicted EXCEPT ![here] = Evicted[here] + cost]
  BY DEF Spend
<1>6. Sum(bucket) + cost <= Ceiling
  BY DEF PaceInv, PlaceIsHeld, Spend
<1> HIDE DEF here, D
<1>7. ASSUME NEW S \in SUBSET D, here \in S
      PROVE  SumOver(bucket', S) = SumOver(Evicted, S) + cost
  <2>1. IsFiniteSet(S)
    BY <1>4, FS_Subset
  <2>2. /\ cost \in Nat /\ bucket'[here] = Evicted[here] + cost
        /\ \A m \in S : Evicted[m] \in Nat /\ (m # here => bucket'[m] = Evicted[m])
    BY <1>2, <1>4, <1>5, <1>7
  <2> QED
    BY ONLY <1>7, <2>1, <2>2, SumUpdate
<1>8. DOMAIN bucket' = D /\ DOMAIN Evicted = D
  BY <1>4, <1>5
<1>9. Sum(bucket') = Sum(Evicted) + cost
  BY <1>3, <1>7, <1>8 DEF Sum
<1>10. Sum(bucket') <= Ceiling
  BY <1>2, <1>4, <1>6, <1>9
<1>11. bucket' \in [D -> 0..Ceiling]
  <2>1. bucket' \in [D -> Nat]
    BY <1>2, <1>3, <1>4, <1>5
  <2>2. ASSUME NEW m \in D PROVE bucket'[m] <= Ceiling
    <3>1. SumOver(bucket', D) = bucket'[m] + SumOver(bucket', D \ {m})
      BY <1>4, <2>1, SumRemove
    <3>2. IsFiniteSet(D \ {m})
      BY <1>4, FS_Subset
    <3>3. SumOver(bucket', D \ {m}) \in Nat
      BY <2>1, <3>2, SumType
    <3>4. bucket'[m] \in Nat
      BY <2>1
    <3> QED
      BY <1>2, <1>8, <1>10, <3>1, <3>3, <3>4 DEF Sum
  <2> QED
    BY <1>2, <2>1, <2>2
<1>12. until' \in 0..(LastTime + Basket + MaxPace)
  <2>1. InBasket \subseteq 0..LastTime
    BY DEF InBasket, Times
  <2>2. Basket \in Nat /\ MaxPace \in Nat
    BY PaceSets
  <2>3. AgesOut \subseteq 0..(LastTime + Basket)
    BY <1>2, <2>1, <2>2 DEF AgesOut
  <2>4. \A t \in AgesOut : time..t \subseteq 0..(LastTime + Basket)
    BY <1>2, <2>2, <2>3
  <2>5. until' \in MeterWaits
    BY DEF Spend
  <2>6. until' \in {time} \/ until' \in AgesOut \/ \E t \in AgesOut : until' \in time..t
    BY <2>5 DEF MeterWaits
  <2>7. until' = time \/ until' \in 0..(LastTime + Basket)
    BY <2>3, <2>4, <2>6
  <2> QED
    BY <1>2, <2>2, <2>7
<1>13. PaceShapes'
  BY <1>1, <1>10, <1>11, <1>12 DEF PaceShapes, PaceTypeOK, Spend, D
<1>14. PlaceIsHeld'
  BY DEF PlaceIsHeld, Spend
<1>15. PaidForButOne'
  <2> SUFFICES ASSUME NEW a \in 0..time, MinuteOf(a) > MinuteOf(time) - WindowMinutes
               PROVE  SumOver(sent, LeftSince(a)) + cost <= SumOver(bucket', MinutesSince(a)) + Max(Costs)
    BY DEF PaidForButOne, Spend, AtMeter
  <2>1. SumOver(sent, LeftSince(a)) + AtMeter <= SumOver(bucket, MinutesSince(a)) + Max(Costs) /\ AtMeter = 0
    BY DEF PaceInv, PaidForButOne, AtMeter, Spend
  <2>2. a \in Nat /\ a <= time
    BY <1>2
  <2>3. here \in MinutesSince(a)
    BY <1>2, <1>3, <2>2, MinutesGrow DEF MinutesSince, here, D
  <2>4. MinutesSince(a) \in SUBSET D
    BY <1>1, PaceSums DEF D
  <2>5. SumOver(bucket', MinutesSince(a)) = SumOver(Evicted, MinutesSince(a)) + cost
    BY <1>7, <2>3, <2>4
  <2>6. SumOver(Evicted, MinutesSince(a)) = SumOver(bucket, MinutesSince(a))
    BY <1>1, <2>2, EvictedFacts
  <2>7. SumOver(sent, LeftSince(a)) \in Nat /\ SumOver(bucket, MinutesSince(a)) \in Nat /\ Max(Costs) \in Nat
    BY <1>1, PaceSums, DearestCall
  <2> QED
    BY <1>2, <2>1, <2>5, <2>6, <2>7
<1>16. QED
  BY <1>13, <1>14, <1>15 DEF PaceInv

\* A call that leaves is the one that was paid for.
LEMMA SendKeeps ==
  ASSUME PaceInv, SendAway
  PROVE  PaceInv'
<1>1. PaceShapes
  BY DEF PaceInv
<1>2. time \in Nat /\ time \in Times /\ cost \in Nat /\ {LastTime, Basket, MaxPace, Retries} \subseteq Nat
  BY <1>1, PaceSets, PaceAssumption DEF PaceShapes, PaceTypeOK
<1>3. sent \in [Times -> Nat] /\ sent' = [sent EXCEPT ![time] = sent[time] + cost]
  BY <1>1 DEF PaceShapes, SendAway
<1>4. PaceShapes'
  <2>1. tokens' \in 0..Burst
    BY <1>1, PaceSets DEF PaceShapes, PaceTypeOK, SendAway
  <2>2. attempts' \in 0..(Retries + 1)
    BY <1>1, <1>2 DEF PaceShapes, PaceTypeOK, SendAway
  <2>3. sent' \in [Times -> Nat]
    BY <1>2, <1>3
  <2>4. \A t \in Times : t > time => sent'[t] = 0
    BY <1>1, <1>2, <1>3 DEF PaceShapes
  <2>5. until' \in 0..(LastTime + Basket + MaxPace)
    BY <1>2 DEF SendAway
  <2>6. /\ time' = time /\ bucket' = bucket /\ measured' = measured /\ cost' = cost
        /\ at = "meter" /\ at' = "out"
    BY DEF SendAway
  <2> QED
    BY <1>1, <2>1, <2>2, <2>3, <2>4, <2>5, <2>6 DEF PaceShapes, PaceTypeOK
<1>5. PlaceIsHeld'
  BY DEF PlaceIsHeld, SendAway
<1>6. PaidForButOne'
  <2> SUFFICES ASSUME NEW a \in 0..time, MinuteOf(a) > MinuteOf(time) - WindowMinutes
               PROVE  SumOver(sent', LeftSince(a)) <= SumOver(bucket, MinutesSince(a)) + Max(Costs)
    <3>1. AtMeter' = 0 /\ time' = time /\ bucket' = bucket
      BY DEF AtMeter, SendAway
    <3>2. ASSUME NEW a \in 0..time PROVE SumOver(sent', LeftSince(a)) \in Nat
      <4>1. \A t \in LeftSince(a) : sent'[t] \in Nat
        BY <1>2, <1>3 DEF LeftSince
      <4> QED
        BY <1>1, <4>1, PaceSums, SumType
    <3> QED
      BY <3>1, <3>2 DEF PaidForButOne
  <2>1. SumOver(sent, LeftSince(a)) + cost <= SumOver(bucket, MinutesSince(a)) + Max(Costs)
    BY DEF PaceInv, PaidForButOne, AtMeter, SendAway
  <2>4. time \in LeftSince(a)
    BY <1>2 DEF LeftSince
  <2>2. time \in LeftSince(a) /\ LeftSince(a) \in SUBSET Times /\ IsFiniteSet(LeftSince(a))
    BY <1>1, <2>4, PaceSums
  <2>3. SumOver(sent', LeftSince(a)) = SumOver(sent, LeftSince(a)) + cost
    <3>1. /\ cost \in Nat /\ sent'[time] = sent[time] + cost
          /\ \A t \in LeftSince(a) : sent[t] \in Nat /\ (t # time => sent'[t] = sent[t])
      BY <1>2, <1>3, <2>2
    <3> QED
      BY ONLY <2>2, <3>1, SumUpdate
  <2> QED
    BY <2>1, <2>3
<1>7. QED
  BY <1>4, <1>5, <1>6 DEF PaceInv

\* Every step keeps the invariant.
LEMMA PaceStep == PaceInv /\ [PaceNext]_paceVars => PaceInv'
<1> SUFFICES ASSUME PaceInv, [PaceNext]_paceVars PROVE PaceInv'
  OBVIOUS
<1>1. PaceShapes
  BY DEF PaceInv
<1>2. CASE PassTime
  BY <1>2, PassTimeKeeps
<1>3. ASSUME CallPortal PROVE PaceInv'
  <2>1. PICK n \in Costs : AsksBudget(n)
    BY <1>3 DEF CallPortal
  <2>2. attempts <= Retries
    BY <1>1, <1>3, PaceSets DEF PaceShapes, CallPortal
  <2>3. UNCHANGED <<time, measured, tokens, sent>>
    BY <1>3 DEF CallPortal
  <2> QED
    BY <2>1, <2>2, <2>3, AskingKeeps
<1>4. CASE Spend
  BY <1>4, SpendKeeps
<1>5. CASE SendAway
  BY <1>5, SendKeeps
<1>6. ASSUME Succeed PROVE PaceInv'
  <2>1. PICK s \in Seconds : measured' = [measured EXCEPT ![time] = measured[time] + s]
    BY <1>6 DEF Succeed
  <2>2. measured \in [Times -> Nat] /\ time \in Times /\ s \in Nat
    BY <1>1, PaceAssumption DEF PaceShapes, PaceTypeOK
  <2>3. measured' \in [Times -> Nat]
    BY <2>1, <2>2
  <2>4. GivesUp /\ UNCHANGED <<time, tokens, sent>> /\ bucket' = bucket
    BY <1>6 DEF Succeed
  <2> QED
    BY <2>3, <2>4, GivingUpKeeps
<1>7. ASSUME FailCall PROVE PaceInv'
  <2>1. at = "out" /\ UNCHANGED <<time, measured, tokens, sent>>
    BY <1>7 DEF FailCall
  <2>2. CASE GivesUp /\ UNCHANGED bucket
    <3>1. measured' \in [Times -> Nat]
      BY <1>1, <2>1 DEF PaceShapes
    <3> QED
      BY <2>1, <2>2, <3>1, GivingUpKeeps
  <2>3. CASE attempts <= Retries /\ TriesAgain
    <3>1. cost \in Costs
      BY <1>1, <2>1 DEF PaceShapes, PaceTypeOK
    <3> QED
      BY <2>1, <2>3, <3>1, AskingKeeps DEF TriesAgain
  <2> QED
    BY <1>7, <2>2, <2>3 DEF FailCall
<1>8. CASE UNCHANGED paceVars
  BY <1>8 DEF paceVars, PaceInv, PaceShapes, PaceTypeOK, PlaceIsHeld, PaidForButOne, AtMeter
<1>9. QED
  BY <1>2, <1>3, <1>4, <1>5, <1>6, <1>7, <1>8 DEF PaceNext

\* What left in the hour is what its minutes spent and the call paid before.
LEMMA PaidForIsBounded == PaceInv => HourIsBounded
<1> SUFFICES ASSUME PaceInv PROVE HourIsBounded
  OBVIOUS
<1> DEFINE first == time - (WindowMinutes - 1) * Minute + 1
           hour == {t \in Times : t > time - (WindowMinutes - 1) * Minute /\ t <= time}
<1>1. PaceShapes
  BY DEF PaceInv
<1>2. time \in Nat /\ Ceiling \in Nat /\ WindowMinutes \in Nat \ {0} /\ Minute \in Nat \ {0} /\ Times \subseteq Nat
  BY <1>1, PaceSets DEF PaceShapes, PaceTypeOK
<1>3. first \in Int
  BY <1>2
<1>4. hour \in SUBSET Times /\ IsFiniteSet(hour)
  BY PaceSets, FS_Subset
<1>5. \A t \in hour : t \in Nat /\ first <= t /\ t <= time
  BY <1>2
<1>6. ASSUME hour = {} PROVE SumOver(sent, hour) <= Ceiling + Max(Costs)
  <2>1. SumOver(sent, hour) = 0
    BY <1>6, SumEmpty
  <2> HIDE DEF hour
  <2> QED
    BY <1>2, <2>1, DearestCall
<1>7. ASSUME hour # {} PROVE SumOver(sent, hour) <= Ceiling + Max(Costs)
  <2>1. \E a \in 0..time : a >= first /\ \A t \in hour : t >= a
    <3> HIDE DEF hour
    <3>1. CASE first <= 0
      <4>1. 0 \in 0..time /\ 0 >= first /\ \A t \in hour : t >= 0
        BY <1>2, <1>3, <1>5, <3>1
      <4> QED
        BY <4>1
    <3>2. CASE first > 0
      <4>1. first \in 0..time
        <5> HIDE DEF first
        <5> QED BY <1>2, <1>3, <1>5, <1>7, <3>2
      <4>2. first >= first /\ \A t \in hour : t >= first
        <5> HIDE DEF first
        <5> QED BY <1>3, <1>5
      <4> QED
        BY <4>1, <4>2
    <3> HIDE DEF first
    <3> QED
      BY <1>3, <3>1, <3>2
  <2>2. PICK a \in 0..time : a >= first /\ \A t \in hour : t >= a
    BY <2>1
  <2>3. a \in Nat /\ a > time - (WindowMinutes - 1) * Minute
    <3> DEFINE back == (WindowMinutes - 1) * Minute
    <3>1. back \in Int
      BY <1>2
    <3>2. a \in Nat /\ a >= time - back + 1
      BY <2>2
    <3> HIDE DEF back
    <3>3. a > time - back
      BY <1>2, <3>1, <3>2
    <3> QED
      BY <3>2, <3>3 DEF back
  <2>4. MinuteOf(a) > MinuteOf(time) - WindowMinutes
    BY <1>2, <2>3, HourIsKept
  <2>5. SumOver(sent, LeftSince(a)) + AtMeter <= SumOver(bucket, MinutesSince(a)) + Max(Costs)
    BY <2>4 DEF PaceInv, PaidForButOne
  <2>6. hour \in SUBSET LeftSince(a)
    BY <2>2 DEF LeftSince
  <2>7. \A t \in LeftSince(a) : sent[t] \in Nat
    BY <1>1 DEF PaceShapes, LeftSince
  <2> HIDE DEF hour, first
  <2>8. SumOver(sent, hour) <= SumOver(sent, LeftSince(a))
    BY <1>1, <2>6, <2>7, PaceSums, SumSubset
  <2>9. AtMeter \in Nat
    <3>1. cost \in Nat
      BY <1>1, PaceAssumption DEF PaceShapes, PaceTypeOK
    <3> QED
      BY <3>1 DEF AtMeter
  <2>10. SumOver(bucket, MinutesSince(a)) <= Ceiling
    <3>1. /\ SumOver(bucket, MinutesSince(a)) <= Sum(bucket) /\ SumOver(bucket, MinutesSince(a)) \in Nat
          /\ Sum(bucket) \in Nat
      BY <1>1, PaceSums
    <3>2. Sum(bucket) <= Ceiling
      BY <1>1 DEF PaceShapes, PaceTypeOK
    <3> QED
      BY <1>2, <3>1, <3>2
  <2>11. SumOver(sent, LeftSince(a)) \in Nat /\ SumOver(bucket, MinutesSince(a)) \in Nat /\ Max(Costs) \in Nat
    BY <1>1, PaceSums, DearestCall
  <2>12. SumOver(sent, hour) \in Nat
    BY <1>4, <2>6, <2>7, SumType
  <2> QED
    BY <1>2, <2>5, <2>8, <2>9, <2>10, <2>11, <2>12
<1>8. QED
  BY <1>6, <1>7 DEF HourIsBounded

(***************************************************************************)
(* The budget's buckets never hold more than the ceiling, whatever the     *)
(* calls carry and however often they are tried again.                     *)
(***************************************************************************)
THEOREM BudgetIsWellFormed == PaceSpec => []PaceTypeOK
<1>1. PaceInv => PaceTypeOK
  BY DEF PaceInv, PaceShapes
<1>2. QED
  BY <1>1, PaceStarts, PaceStep, PTL DEF PaceSpec

(***************************************************************************)
(* What leaves in any hour but a minute is at most the ceiling and one     *)
(* call, for every ceiling, every length of a minute and of the window.    *)
(***************************************************************************)
THEOREM HourIsBoundedAlways == PaceSpec => []HourIsBounded
BY PaceStarts, PaceStep, PaidForIsBounded, PTL DEF PaceSpec

-------------------------------------------------------------------------------
(* The counted days. *)

\* A count is dated by the moment its rows were read, a pass's day is not
\* ahead, and what is stored was read before the count at hand began.
CountInv ==
  /\ moment \in Nat /\ today \in Int /\ started \in Int /\ atDay \in Int
  /\ counting \in {"idle", "plan", "next", "count"}
  /\ readAt \in [Days -> Int] /\ counted \in [Days -> [at : Int, rules : Int]] /\ rules \in Int
  /\ \A d \in Days : counted[d].at = readAt[d] /\ readAt[d] <= moment
  /\ dueDays \subseteq Days
  /\ counting # "idle" => today * DayLength <= moment
  /\ counting = "count" => atDay \in Days /\ started <= moment /\ \A d \in Days : readAt[d] <= started
  /\ closed \subseteq Days /\ DaysAreClosed

LEMMA CountInvInit == CountsInit => CountInv
BY CountAssumption DEF CountsInit, CountInv, DaysAreClosed, Uncounted

\* A day of the pass's week that has ended and is not due was read after it.
LEMMA NotDueIsClosed ==
  ASSUME CountInv, counting = "plan", NEW d \in Days, Ended(d), ~DayDue(d)
  PROVE  readAt[d] >= EndOf(d)
<1> USE CountAssumption
<1>1. /\ d \in Int /\ today \in Int /\ moment \in Nat /\ readAt[d] \in Int /\ counted[d].at = readAt[d]
      /\ today * DayLength <= moment /\ EndOf(d) + LiveEvery <= moment /\ d <= today /\ InWeek(d)
  BY DEF CountInv, Ended, Days
<1>2. ~Stale(d, IF LiveDay(d) THEN LiveEvery ELSE WeekEvery)
  BY <1>1 DEF DayDue
<1>3. CASE LiveDay(d)
  <2>1. moment - readAt[d] < LiveEvery
    BY <1>1, <1>2, <1>3 DEF Stale
  <2>2. EndOf(d) \in Int
    BY <1>1 DEF EndOf
  <2> QED
    BY <1>1, <2>1, <2>2
<1>4. CASE ~LiveDay(d)
  <2>1. moment - readAt[d] < WeekEvery
    BY <1>1, <1>2, <1>4 DEF Stale
  <2>2. d + 2 <= today
    BY <1>1, <1>4 DEF LiveDay
  <2>3. (d + 2) * DayLength <= today * DayLength
    BY <1>1, <2>2
  <2>4. (d + 2) * DayLength = EndOf(d) + DayLength /\ EndOf(d) \in Int /\ today * DayLength \in Int
    BY <1>1 DEF EndOf
  <2> QED
    BY <1>1, <2>1, <2>3, <2>4
<1> QED
  BY <1>3, <1>4

LEMMA CountInvStep == CountInv /\ [CountsNext]_countVars => CountInv'
<1> SUFFICES ASSUME CountInv, [CountsNext]_countVars PROVE CountInv'
  OBVIOUS
<1> USE CountAssumption
<1>1. CASE Moment \/ Fed \/ NewRules \/ UNCHANGED countVars
  BY <1>1 DEF Moment, Fed, NewRules, countVars, CountInv, DaysAreClosed
<1>2. CASE BeginCounts
  <2>1. DayOf(moment) \in Int /\ DayOf(moment) * DayLength <= moment
    BY DEF CountInv, DayOf
  <2> QED
    BY <1>2, <2>1 DEF BeginCounts, CountInv, DaysAreClosed
<1>3. CASE PlanCounts
  <2>1. \A d \in closed' : d \in Days /\ readAt[d] >= EndOf(d)
    BY <1>3, NotDueIsClosed DEF PlanCounts, CountInv, DaysAreClosed
  <2>2. dueDays' \subseteq Days
    BY <1>3 DEF PlanCounts, ThisPass
  <2> QED
    BY <1>3, <2>1, <2>2 DEF PlanCounts, CountInv, DaysAreClosed
<1>4. CASE CountDay
  BY <1>4 DEF CountDay, CountInv, DaysAreClosed, Days
<1>5. CASE StoreDay
  <2>1. /\ atDay \in Days /\ started <= moment /\ started \in Int /\ moment \in Nat
        /\ \A d \in Days : readAt[d] \in Int /\ readAt[d] <= started
    BY <1>5 DEF StoreDay, CountInv
  <2>2. /\ counted' = [counted EXCEPT ![atDay] = [at |-> started, rules |-> rules]]
        /\ readAt' = [readAt EXCEPT ![atDay] = started]
    BY <1>5 DEF StoreDay, DatedBy
  <2>3. /\ readAt' \in [Days -> Int] /\ counted' \in [Days -> [at : Int, rules : Int]]
        /\ \A d \in Days : readAt'[d] = (IF d = atDay THEN started ELSE readAt[d])
    BY <2>1, <2>2 DEF CountInv
  <2>4. \A d \in Days : counted'[d].at = readAt'[d] /\ readAt'[d] <= moment
    BY <2>1, <2>2, <2>3 DEF CountInv
  <2>5. \A d \in Days : EndOf(d) \in Int
    BY DEF EndOf, Days
  <2>6. \A d \in closed' : d \in Days /\ readAt'[d] >= EndOf(d)
    <3>1. ASSUME NEW d \in closed PROVE d \in Days /\ readAt'[d] >= EndOf(d)
      <4>1. d \in Days /\ readAt[d] >= EndOf(d)
        BY <3>1 DEF CountInv, DaysAreClosed
      <4>2. readAt'[d] >= readAt[d] /\ readAt'[d] \in Int
        BY <4>1, <2>1, <2>3
      <4> QED
        BY <4>1, <4>2, <2>1, <2>5
    <3>2. ASSUME EndOf(atDay) + LiveEvery <= started PROVE readAt'[atDay] >= EndOf(atDay)
      BY <2>1, <2>3, <2>5, <3>2
    <3> QED
      BY <1>5, <2>1, <3>1, <3>2 DEF StoreDay
  <2> QED
    BY <1>5, <2>1, <2>3, <2>4, <2>6 DEF StoreDay, CountInv, DaysAreClosed
<1>6. CASE WholePass \/ CountsFail
  BY <1>6 DEF WholePass, CountsFail, EndCounts, CountInv, DaysAreClosed
<1> QED
  BY <1>1, <1>2, <1>3, <1>4, <1>5, <1>6 DEF CountsNext

(***************************************************************************)
(* A day dealt with after it is over is stored as it was when it was over  *)
(* (bezkvalDaysDue, refreshBezkval), for any day, week and pass.           *)
(***************************************************************************)
THEOREM DaysAreClosedAlways == CountsSpec => []DaysAreClosed
<1>1. CountInv => DaysAreClosed
  BY DEF CountInv
<1> QED
  BY <1>1, CountInvInit, CountInvStep, PTL DEF CountsSpec

-------------------------------------------------------------------------------
(* The forest of keys. *)

Keys == DayContacts \cup DayDeals \cup NumberKeys

\* A parent is a key of the forest, and no greater.
Ordered(f) ==
  /\ DOMAIN f \subseteq Keys /\ f = [k \in DOMAIN f |-> f[k]]
  /\ \A k \in DOMAIN f : f[k] \in DOMAIN f /\ f[k] <= k

\* The keys have a greatest, or there are none.
LEMMA KeysAreBounded ==
  /\ Keys \subseteq Nat /\ IsFiniteSet(Keys)
  /\ \E top \in Nat : \A k \in Keys : k <= top
<1>1. Keys \subseteq Nat /\ IsFiniteSet(Keys)
  BY ClientAssumption DEF Keys
<1>2. CASE Keys = {}
  BY <1>1, <1>2
<1>3. CASE Keys # {}
  BY <1>1, <1>3, GreatestNat
<1> QED
  BY <1>1, <1>2, <1>3

RootsTo(f, g) == g = [k \in DOMAIN f |-> IF f[k] = k THEN k ELSE g[f[k]]]

\* The function Root chooses exists: up to a least number without one, the
\* numbers below would give one.
LEMMA RootsExist ==
  ASSUME NEW f, Ordered(f)
  PROVE  \E g : RootsTo(f, g)
<1> DEFINE Under(n) == {k \in DOMAIN f : k < n}
           Fits(n, g) == g = [k \in Under(n) |-> IF f[k] = k THEN k ELSE g[f[k]]]
           T == {n \in Nat : ~\E g : Fits(n, g)}
<1>1. DOMAIN f \subseteq Nat /\ \A k \in DOMAIN f : f[k] \in DOMAIN f /\ f[k] <= k /\ k \in Nat /\ f[k] \in Nat
  BY KeysAreBounded DEF Ordered
<1>2. T = {}
  <2>1. SUFFICES ASSUME T # {} PROVE FALSE
    OBVIOUS
  <2>2. T \in SUBSET Nat
    OBVIOUS
  <2>3. PICK n \in T : \A m \in T : n <= m
    <3> HIDE DEF T
    <3> QED BY <2>1, <2>2, LeastNat
  <2>4. n \in Nat /\ ~\E g : Fits(n, g)
    BY <2>3
  <2>5. n # 0
    <3>1. ASSUME n = 0 PROVE Fits(n, [k \in {} |-> k])
      <4>1. Under(n) = {}
        BY <1>1, <3>1
      <4> QED
        BY <4>1
    <3> QED
      BY <2>4, <3>1
  <2>6. n - 1 \in Nat /\ n - 1 \notin T
    <3>1. n \in Nat /\ n # 0 /\ \A m \in T : n <= m
      BY <2>3, <2>4, <2>5
    <3> HIDE DEF T
    <3> QED BY <3>1
  <2>7. PICK g : Fits(n - 1, g)
    BY <2>6
  <2> DEFINE h == [k \in Under(n) |-> IF f[k] = k THEN k ELSE g[f[k]]]
  <2>8. ASSUME NEW k \in Under(n), f[k] # k
        PROVE  h[f[k]] = g[f[k]]
    <3>1. f[k] \in Under(n - 1) /\ f[k] \in Under(n)
      BY <1>1, <2>4, <2>8
    <3>2. g[f[k]] = IF f[f[k]] = f[k] THEN f[k] ELSE g[f[f[k]]]
      BY <2>7, <3>1
    <3>3. h[f[k]] = IF f[f[k]] = f[k] THEN f[k] ELSE g[f[f[k]]]
      BY <3>1
    <3> QED
      BY <3>2, <3>3
  <2>9. Fits(n, h)
    BY <2>8
  <2> QED
    BY <2>4, <2>9
<1>3. PICK top \in Nat : \A k \in Keys : k <= top
  BY KeysAreBounded
<1>4. top + 1 \in Nat /\ Under(top + 1) = DOMAIN f
  BY <1>1, <1>3 DEF Ordered
<1>5. PICK g : Fits(top + 1, g)
  BY <1>2, <1>4
<1> QED
  BY <1>4, <1>5 DEF RootsTo

\* A root is its own, or its parent's.
LEMMA RootStep ==
  ASSUME NEW f, Ordered(f), NEW k \in DOMAIN f
  PROVE  Root(f, k) = IF f[k] = k THEN k ELSE Root(f, f[k])
<1> DEFINE g == CHOOSE g : RootsTo(f, g)
<1>1. RootsTo(f, g)
  BY RootsExist
<1>2. \A j : Root(f, j) = g[j]
  BY DEF Root, RootsTo
<1>3. f[k] \in DOMAIN f
  BY DEF Ordered
<1> HIDE DEF g
<1> QED
  BY <1>1, <1>2, <1>3 DEF RootsTo

\* A least key of the forest that fails is the tool of what follows.
LEMMA LeastKey ==
  ASSUME NEW f, Ordered(f), NEW T \in SUBSET DOMAIN f, T # {}
  PROVE  \E k \in T : /\ f[k] \in DOMAIN f /\ k \in Nat /\ f[k] \in Nat /\ f[k] <= k
                      /\ f[k] # k => f[k] \notin T
<1>1. DOMAIN f \subseteq Nat /\ T \in SUBSET Nat
  BY KeysAreBounded DEF Ordered
<1>2. PICK k \in T : \A j \in T : k <= j
  BY <1>1, LeastNat
<1>3. f[k] \in DOMAIN f /\ f[k] <= k /\ k \in Nat /\ f[k] \in Nat
  BY <1>1 DEF Ordered
<1>4. f[k] # k => f[k] \notin T
  BY <1>2, <1>3
<1> QED
  BY <1>3, <1>4

\* A root is a key of the forest, no greater than those under it, and its own
\* parent.
LEMMA RootFacts ==
  ASSUME NEW f, Ordered(f), NEW k \in DOMAIN f
  PROVE  /\ Root(f, k) \in DOMAIN f /\ Root(f, k) <= k /\ f[Root(f, k)] = Root(f, k)
         /\ Root(f, f[k]) = Root(f, k) /\ Root(f, Root(f, k)) = Root(f, k)
         /\ (Root(f, k) = k <=> f[k] = k)
         /\ k \in Nat /\ Root(f, k) \in Nat
<1> DEFINE IsRoot(j) == Root(f, j) \in DOMAIN f /\ Root(f, j) <= j /\ f[Root(f, j)] = Root(f, j)
           T == {j \in DOMAIN f : ~IsRoot(j)}
<1>1. DOMAIN f \subseteq Nat
  BY KeysAreBounded DEF Ordered
<1>2. T = {}
  <2>1. SUFFICES ASSUME T # {} PROVE FALSE
    OBVIOUS
  <2>2. T \in SUBSET DOMAIN f
    OBVIOUS
  <2>3. PICK j \in T : /\ f[j] \in DOMAIN f /\ j \in Nat /\ f[j] \in Nat /\ f[j] <= j
                       /\ f[j] # j => f[j] \notin T
    <3> HIDE DEF T
    <3> QED BY <2>1, <2>2, LeastKey
  <2>4. Root(f, j) = IF f[j] = j THEN j ELSE Root(f, f[j])
    BY RootStep
  <2>5. CASE f[j] = j
    BY <2>3, <2>4, <2>5
  <2>6. CASE f[j] # j
    <3>1. IsRoot(f[j])
      BY <2>3, <2>6
    <3>2. Root(f, f[j]) \in Nat
      BY <1>1, <3>1
    <3> QED
      BY <2>3, <2>4, <2>6, <3>1, <3>2
  <2> QED
    BY <2>5, <2>6
<1>3. IsRoot(k)
  BY <1>2
<1>4. f[k] \in DOMAIN f /\ f[k] <= k /\ f[k] \in Nat /\ k \in Nat /\ Root(f, k) \in Nat
  BY <1>1, <1>3 DEF Ordered
<1>5. Root(f, k) = IF f[k] = k THEN k ELSE Root(f, f[k])
  BY RootStep
<1>6. Root(f, Root(f, k)) = Root(f, k)
  BY <1>3, RootStep
<1>7. IsRoot(f[k])
  BY <1>2, <1>4
<1>8. Root(f, f[k]) = Root(f, k)
  BY <1>5
<1>9. f[k] # k => f[k] < k
  BY <1>4
<1>10. Root(f, k) = k <=> f[k] = k
  BY <1>3, <1>5
<1> QED
  BY <1>3, <1>4, <1>6, <1>8, <1>10

\* A forest whose parents lie in the old trees, and whose roots are old ones.
LEMMA SameRoots ==
  ASSUME NEW f, Ordered(f), NEW g, Ordered(g), DOMAIN g = DOMAIN f,
         \A k \in DOMAIN f : Root(f, g[k]) = Root(f, k) /\ (g[k] = k => f[k] = k)
  PROVE  \A k \in DOMAIN f : Root(g, k) = Root(f, k)
<1> DEFINE T == {k \in DOMAIN g : Root(g, k) # Root(f, k)}
<1>1. SUFFICES ASSUME T # {} PROVE FALSE
  OBVIOUS
<1>2. T \in SUBSET DOMAIN g
  OBVIOUS
<1>3. PICK k \in T : g[k] \in DOMAIN g /\ (g[k] # k => g[k] \notin T)
  <2> HIDE DEF T
  <2> QED BY <1>1, <1>2, LeastKey
<1>4. Root(g, k) = IF g[k] = k THEN k ELSE Root(g, g[k])
  BY RootStep
<1>5. g[k] = k => Root(f, k) = k
  BY RootFacts
<1>6. g[k] # k => Root(g, g[k]) = Root(f, g[k])
  BY <1>3
<1> QED
  BY <1>3, <1>4, <1>5, <1>6

\* Keys the forest did not have are roots of their own.
LEMMA AddedRoots ==
  ASSUME NEW f, Ordered(f), NEW S \in SUBSET Keys
  PROVE  /\ Ordered(Add(f, S)) /\ DOMAIN Add(f, S) = DOMAIN f \cup S
         /\ \A k \in DOMAIN f \cup S : Root(Add(f, S), k) = IF k \in DOMAIN f THEN Root(f, k) ELSE k
<1> DEFINE g == Add(f, S)
<1>1. /\ DOMAIN g = DOMAIN f \cup S /\ g = [k \in DOMAIN g |-> g[k]]
      /\ \A k \in DOMAIN g : g[k] = IF k \in DOMAIN f THEN f[k] ELSE k
  BY DEF Add
<1> HIDE DEF g
<1>2. Ordered(g)
  <2>1. Keys \subseteq Nat
    BY KeysAreBounded
  <2> QED
    BY <1>1, <2>1 DEF Ordered
<1> DEFINE T == {k \in DOMAIN g : Root(g, k) # IF k \in DOMAIN f THEN Root(f, k) ELSE k}
<1>3. T = {}
  <2>1. SUFFICES ASSUME T # {} PROVE FALSE
    OBVIOUS
  <2>2. T \in SUBSET DOMAIN g
    OBVIOUS
  <2>3. PICK k \in T : g[k] \in DOMAIN g /\ (g[k] # k => g[k] \notin T)
    <3> HIDE DEF T
    <3> QED BY <1>2, <2>1, <2>2, LeastKey
  <2>4. Root(g, k) = IF g[k] = k THEN k ELSE Root(g, g[k])
    BY <1>2, RootStep
  <2>5. k \in DOMAIN f
    BY <1>1, <2>4
  <2>6. g[k] = f[k] /\ f[k] \in DOMAIN f /\ Root(f, k) = (IF f[k] = k THEN k ELSE Root(f, f[k]))
    BY <1>1, <2>5, RootStep DEF Ordered
  <2>7. g[k] # k => Root(g, g[k]) = Root(f, g[k])
    BY <2>3, <2>6
  <2> QED
    BY <2>4, <2>5, <2>6, <2>7
<1> QED
  BY <1>1, <1>2, <1>3 DEF g

OnWayTo(f, key, g) ==
  g = [k \in DOMAIN f |-> k = key \/ \E j \in DOMAIN f : j > k /\ f[j] = k /\ g[j]]

\* The function Find chooses exists too, from the greatest key down.
LEMMA WaysExist ==
  ASSUME NEW f, Ordered(f), NEW key
  PROVE  \E g : OnWayTo(f, key, g)
<1>1. DOMAIN f \subseteq Nat
  BY KeysAreBounded DEF Ordered
<1>2. PICK top \in Nat : \A k \in DOMAIN f : k <= top
  BY KeysAreBounded DEF Ordered
<1> DEFINE Over(n) == {k \in DOMAIN f : k + n > top}
           Fits(n, g) == g = [k \in Over(n) |-> k = key \/ \E j \in DOMAIN f : j > k /\ f[j] = k /\ g[j]]
           T == {n \in Nat : ~\E g : Fits(n, g)}
<1>3. T = {}
  <2>1. SUFFICES ASSUME T # {} PROVE FALSE
    OBVIOUS
  <2>2. T \in SUBSET Nat
    OBVIOUS
  <2>3. PICK n \in T : \A m \in T : n <= m
    <3> HIDE DEF T
    <3> QED BY <2>1, <2>2, LeastNat
  <2>4. n \in Nat /\ ~\E g : Fits(n, g)
    BY <2>3
  <2>5. n # 0
    <3>1. ASSUME n = 0 PROVE Fits(n, [k \in {} |-> k])
      <4>1. Over(n) = {}
        BY <1>1, <1>2, <3>1
      <4> QED
        BY <4>1
    <3> QED
      BY <2>4, <3>1
  <2>6. n - 1 \in Nat /\ n - 1 \notin T
    <3>1. n \in Nat /\ n # 0 /\ \A m \in T : n <= m
      BY <2>3, <2>4, <2>5
    <3> HIDE DEF T
    <3> QED BY <3>1
  <2>7. PICK g : Fits(n - 1, g)
    BY <2>6
  <2> DEFINE h == [k \in Over(n) |-> k = key \/ \E j \in DOMAIN f : j > k /\ f[j] = k /\ g[j]]
  <2>8. ASSUME NEW k \in Over(n), NEW j \in DOMAIN f, j > k
        PROVE  h[j] = g[j]
    <3>1. j \in Over(n - 1) /\ j \in Over(n)
      BY <1>1, <1>2, <2>4, <2>8
    <3>2. g[j] = (j = key \/ \E i \in DOMAIN f : i > j /\ f[i] = j /\ g[i])
      BY <2>7, <3>1
    <3>3. h[j] = (j = key \/ \E i \in DOMAIN f : i > j /\ f[i] = j /\ g[i])
      BY <3>1
    <3> QED
      BY <3>2, <3>3
  <2>9. Fits(n, h)
    <3>1. \A k \in Over(n) :
            (k = key \/ \E j \in DOMAIN f : j > k /\ f[j] = k /\ g[j])
            = (k = key \/ \E j \in DOMAIN f : j > k /\ f[j] = k /\ h[j])
      <4> HIDE DEF h
      <4> QED BY <2>8
    <3> QED
      BY <3>1
  <2> QED
    BY <2>4, <2>9
<1>4. top + 1 \in Nat /\ Over(top + 1) = DOMAIN f
  BY <1>1
<1>5. PICK g : Fits(top + 1, g)
  BY <1>3, <1>4
<1> QED
  BY <1>4, <1>5 DEF OnWayTo

\* Whatever is on the way to a key lies in its tree.
LEMMA WaysStayInTree ==
  ASSUME NEW f, Ordered(f), NEW key \in DOMAIN f, NEW g, OnWayTo(f, key, g)
  PROVE  \A k \in DOMAIN f : g[k] => Root(f, k) = Root(f, key)
<1>1. DOMAIN f \subseteq Nat
  BY KeysAreBounded DEF Ordered
<1> DEFINE T == {k \in DOMAIN f : g[k] /\ Root(f, k) # Root(f, key)}
<1>2. SUFFICES ASSUME T # {} PROVE FALSE
  OBVIOUS
<1>3. T \subseteq Nat /\ IsFiniteSet(T)
  <2>1. T \subseteq Keys /\ IsFiniteSet(Keys)
    BY KeysAreBounded DEF Ordered
  <2> HIDE DEF T
  <2> QED
    BY <2>1, KeysAreBounded, FS_Subset
<1>4. Max(T) \in T /\ \A k \in T : k <= Max(T)
  <2> HIDE DEF T
  <2> QED BY <1>2, <1>3, GreatestNat
<1>5. PICK k \in T : \A j \in T : j <= k
  <2> HIDE DEF T
  <2> QED BY <1>4
<1>6. k \in DOMAIN f /\ g[k] /\ Root(f, k) # Root(f, key) /\ k # key
  BY <1>5
<1>7. PICK j \in DOMAIN f : j > k /\ f[j] = k /\ g[j]
  BY <1>6 DEF OnWayTo
<1>8. Root(f, j) = Root(f, k)
  BY <1>7, RootFacts
<1>9. j \in T
  BY <1>6, <1>7, <1>8
<1>10. j \in Nat /\ k \in Nat /\ j <= k
  <2> HIDE DEF T
  <2> QED BY <1>1, <1>5, <1>6, <1>9
<1> QED
  BY <1>7, <1>10

\* Looking for a root leaves every root as it was.
LEMMA FoundRoots ==
  ASSUME NEW f, Ordered(f), NEW key \in DOMAIN f
  PROVE  /\ Ordered(Find(f, key)) /\ DOMAIN Find(f, key) = DOMAIN f
         /\ \A k \in DOMAIN f : Root(Find(f, key), k) = Root(f, k)
<1> DEFINE way == CHOOSE g : OnWayTo(f, key, g)
           h == [k \in DOMAIN f |-> IF way[k] THEN Root(f, key) ELSE f[k]]
<1>1. OnWayTo(f, key, way)
  BY WaysExist
<1>2. Find(f, key) = h
  BY DEF Find, OnWayTo
<1> HIDE DEF way
<1>3. \A k \in DOMAIN f : way[k] => Root(f, k) = Root(f, key)
  BY <1>1, WaysStayInTree
<1>4. \A k \in DOMAIN f : h[k] = f[k] \/ h[k] = Root(f, k)
  BY <1>3
<1>5. DOMAIN h = DOMAIN f /\ h = [k \in DOMAIN h |-> h[k]]
  OBVIOUS
<1> HIDE DEF h
<1>6. \A k \in DOMAIN f : /\ h[k] \in DOMAIN f /\ h[k] <= k
                          /\ Root(f, h[k]) = Root(f, k) /\ (h[k] = k => f[k] = k)
  <2> TAKE k \in DOMAIN f
  <2>1. CASE h[k] = f[k]
    BY <2>1, RootFacts DEF Ordered
  <2>2. CASE h[k] = Root(f, k)
    BY <2>2, RootFacts
  <2> QED
    BY <1>4, <2>1, <2>2
<1>7. Ordered(h)
  BY <1>5, <1>6 DEF Ordered
<1> QED
  BY <1>2, <1>5, <1>6, <1>7, SameRoots

\* A root hung under a smaller one takes its tree along.
LEMMA LinkedRoots ==
  ASSUME NEW f, Ordered(f), NEW hi \in DOMAIN f, NEW lo \in DOMAIN f,
         f[hi] = hi, f[lo] = lo, lo # hi, lo <= hi,
         NEW g, DOMAIN g = DOMAIN f, g = [k \in DOMAIN g |-> g[k]],
         \A k \in DOMAIN f : g[k] = IF k = hi THEN lo ELSE f[k]
  PROVE  /\ Ordered(g)
         /\ \A k \in DOMAIN f : Root(g, k) = IF Root(f, k) = hi THEN lo ELSE Root(f, k)
<1>1. Ordered(g)
  BY DEF Ordered
<1> DEFINE T == {k \in DOMAIN g : Root(g, k) # IF Root(f, k) = hi THEN lo ELSE Root(f, k)}
<1>2. T = {}
  <2>1. SUFFICES ASSUME T # {} PROVE FALSE
    OBVIOUS
  <2>2. T \in SUBSET DOMAIN g
    OBVIOUS
  <2>3. PICK k \in T : g[k] \in DOMAIN g /\ (g[k] # k => g[k] \notin T)
    <3> HIDE DEF T
    <3> QED BY <1>1, <2>1, <2>2, LeastKey
  <2>4. k \in DOMAIN f /\ Root(g, k) = IF g[k] = k THEN k ELSE Root(g, g[k])
    BY <1>1, RootStep
  <2>5. CASE k = hi
    <3>1. g[lo] = lo /\ Root(g, lo) = lo /\ g[hi] = lo
      BY <1>1, RootStep
    <3>2. Root(f, hi) = hi
      BY RootFacts
    <3> QED
      BY <2>3, <2>4, <2>5, <3>1, <3>2
  <2>6. CASE k # hi
    <3>1. g[k] = f[k] /\ Root(f, f[k]) = Root(f, k) /\ (Root(f, k) = k <=> f[k] = k)
      BY <2>4, <2>6, RootFacts
    <3>2. CASE g[k] = k
      BY <2>3, <2>4, <2>6, <3>1, <3>2
    <3>3. CASE g[k] # k
      <4>1. Root(g, g[k]) = IF Root(f, g[k]) = hi THEN lo ELSE Root(f, g[k])
        BY <2>3, <3>3
      <4> QED
        BY <2>3, <2>4, <3>1, <3>3, <4>1
    <3> QED
      BY <3>2, <3>3
  <2> QED
    BY <2>5, <2>6
<1> QED
  BY <1>1, <1>2

\* The trees fall into C and the rest.
Respects(f, C) == \A k \in DOMAIN f : k \in C <=> Root(f, k) \in C

\* g joins the trees of f in which the keys S lie, and no others.
Joins(g, f, S) ==
  /\ Ordered(g) /\ DOMAIN g = DOMAIN f
  /\ \A x, y \in DOMAIN f : Root(f, x) = Root(f, y) => Root(g, x) = Root(g, y)
  /\ \A x, y \in S : Root(g, x) = Root(g, y)
  /\ \A C \in SUBSET Keys : (S \subseteq C \/ S \cap C = {}) /\ Respects(f, C) => Respects(g, C)

\* The two roots a union compares.
LEMMA PairBounds ==
  ASSUME NEW a \in Nat, NEW b \in Nat, a # b
  PROVE  /\ {Max({a, b}), Min({a, b})} = {a, b} /\ Min({a, b}) # Max({a, b}) /\ Min({a, b}) <= Max({a, b})
<1>1. CASE a < b
  <2>1. Max({a, b}) = b
    BY <1>1 DEF Max
  <2>2. Min({a, b}) = a
    BY <1>1 DEF Min
  <2> QED
    BY <1>1, <2>1, <2>2
<1>2. CASE b < a
  <2>1. Max({a, b}) = a
    BY <1>2 DEF Max
  <2>2. Min({a, b}) = b
    BY <1>2 DEF Min
  <2> QED
    BY <1>2, <2>1, <2>2
<1> QED
  BY <1>1, <1>2

\* A union joins the trees of two keys.
LEMMA UnionJoins ==
  ASSUME NEW f, Ordered(f), NEW a \in DOMAIN f, NEW b \in DOMAIN f
  PROVE  Joins(Union(f, a, b), f, {a, b})
<1> DEFINE both == Find(Find(f, a), b)
           ra == Root(f, a)
           rb == Root(f, b)
           u == Union(f, a, b)
<1>1. /\ Ordered(both) /\ DOMAIN both = DOMAIN f
      /\ \A k \in DOMAIN f : Root(both, k) = Root(f, k)
  <2>1. /\ Ordered(Find(f, a)) /\ DOMAIN Find(f, a) = DOMAIN f
        /\ \A k \in DOMAIN f : Root(Find(f, a), k) = Root(f, k)
    BY FoundRoots
  <2> QED
    BY <2>1, FoundRoots
<1>2. /\ ra \in DOMAIN f /\ rb \in DOMAIN f /\ ra \in Nat /\ rb \in Nat
      /\ both[ra] = ra /\ both[rb] = rb
  <2>1. ra \in DOMAIN f /\ rb \in DOMAIN f /\ ra \in Nat /\ rb \in Nat /\ Root(f, ra) = ra /\ Root(f, rb) = rb
    BY RootFacts
  <2> QED
    BY <1>1, <2>1, RootFacts
<1>3. u = IF ra = rb THEN both ELSE [both EXCEPT ![Max({ra, rb})] = Min({ra, rb})]
  BY DEF Union
<1> HIDE DEF both, u
<1>4. /\ Ordered(u) /\ DOMAIN u = DOMAIN f
      /\ \E lo \in {ra, rb} : \A k \in DOMAIN f : Root(u, k) = IF Root(f, k) \in {ra, rb} THEN lo ELSE Root(f, k)
  <2>1. CASE ra = rb
    BY <1>1, <1>3, <2>1
  <2>2. CASE ra # rb
    <3> DEFINE hi == Max({ra, rb})
               lo == Min({ra, rb})
    <3>1. {hi, lo} = {ra, rb} /\ lo # hi /\ lo <= hi
      BY <1>2, <2>2, PairBounds
    <3> HIDE DEF hi, lo
    <3>2. hi \in DOMAIN both /\ lo \in DOMAIN both /\ both[hi] = hi /\ both[lo] = lo
      BY <1>1, <1>2, <3>1
    <3>3. u = [both EXCEPT ![hi] = lo]
      BY <1>3, <2>2 DEF hi, lo
    <3>4. /\ DOMAIN u = DOMAIN both /\ u = [k \in DOMAIN u |-> u[k]]
          /\ \A k \in DOMAIN both : u[k] = IF k = hi THEN lo ELSE both[k]
      BY <3>2, <3>3
    <3>5. /\ Ordered(u)
          /\ \A k \in DOMAIN both : Root(u, k) = IF Root(both, k) = hi THEN lo ELSE Root(both, k)
      BY <1>1, <3>1, <3>2, <3>4, LinkedRoots
    <3>6. lo \in {ra, rb} /\ \A k \in DOMAIN f : Root(u, k) = IF Root(f, k) \in {ra, rb} THEN lo ELSE Root(f, k)
      BY <1>1, <3>1, <3>5
    <3> QED
      BY <1>1, <3>4, <3>5, <3>6
  <2> QED
    BY <2>1, <2>2
<1>5. PICK lo \in {ra, rb} : \A k \in DOMAIN f : Root(u, k) = IF Root(f, k) \in {ra, rb} THEN lo ELSE Root(f, k)
  BY <1>4
<1>6. \A x, y \in DOMAIN f : Root(f, x) = Root(f, y) => Root(u, x) = Root(u, y)
  BY <1>5
<1>7. \A x, y \in {a, b} : Root(u, x) = Root(u, y)
  BY <1>5
<1>8. ASSUME NEW C \in SUBSET Keys, {a, b} \subseteq C \/ {a, b} \cap C = {}, Respects(f, C)
      PROVE  Respects(u, C)
  <2>1. (ra \in C <=> rb \in C) /\ (lo \in C <=> ra \in C)
    BY <1>5, <1>8 DEF Respects
  <2> QED
    BY <1>4, <1>5, <1>8, <2>1 DEF Respects
<1> QED
  BY <1>4, <1>6, <1>7, <1>8 DEF Joins, u

\* One union after others that share a key with it.
LEMMA JoinsMore ==
  ASSUME NEW f, NEW g, NEW h, NEW S, NEW m \in S, NEW x, S \subseteq DOMAIN f, x \in DOMAIN f,
         Joins(g, f, S), Joins(h, g, {m, x})
  PROVE  Joins(h, f, S \cup {x})
<1>1. Ordered(h) /\ DOMAIN h = DOMAIN f
  BY DEF Joins
<1>2. \A y, z \in DOMAIN f : Root(f, y) = Root(f, z) => Root(h, y) = Root(h, z)
  BY DEF Joins
<1>3. \A y \in S \cup {x} : Root(h, y) = Root(h, m)
  BY DEF Joins
<1>4. ASSUME NEW C \in SUBSET Keys, (S \cup {x}) \subseteq C \/ (S \cup {x}) \cap C = {}, Respects(f, C)
      PROVE  Respects(h, C)
  <2>1. Respects(g, C)
    <3>1. S \subseteq C \/ S \cap C = {}
      BY <1>4
    <3> QED
      BY <1>4, <3>1 DEF Joins
  <2>2. {m, x} \subseteq C \/ {m, x} \cap C = {}
    BY <1>4
  <2> QED
    BY <2>1, <2>2 DEF Joins
<1> QED
  BY <1>1, <1>2, <1>3, <1>4 DEF Joins

Unions(f, m, S, g) ==
  g = [s \in SUBSET S |-> IF s = {} THEN f ELSE Union(g[s \ {Chosen(s)}], m, Chosen(s))]

\* The function the fold chooses exists, by the same argument over the sizes of
\* the subsets.
LEMMA UnionsExist ==
  ASSUME NEW S, IsFiniteSet(S), NEW f, NEW m
  PROVE  \E g : Unions(f, m, S, g)
<1> DEFINE Small(n) == {s \in SUBSET S : Cardinality(s) < n}
           Fits(n, g) == g = [s \in Small(n) |-> IF s = {} THEN f ELSE Union(g[s \ {Chosen(s)}], m, Chosen(s))]
           T == {n \in Nat : ~\E g : Fits(n, g)}
<1>1. \A s \in SUBSET S : IsFiniteSet(s) /\ Cardinality(s) \in Nat /\ Cardinality(s) <= Cardinality(S)
  BY FS_Subset, FS_CardinalityType
<1>2. T = {}
  <2>1. SUFFICES ASSUME T # {} PROVE FALSE
    OBVIOUS
  <2>2. T \in SUBSET Nat
    OBVIOUS
  <2>3. PICK n \in T : \A k \in T : n <= k
    <3> HIDE DEF T
    <3> QED BY <2>1, <2>2, LeastNat
  <2>4. n \in Nat /\ ~\E g : Fits(n, g)
    BY <2>3
  <2>5. n # 0
    <3>1. ASSUME n = 0 PROVE Fits(n, [s \in {} |-> s])
      <4>1. Small(n) = {}
        BY <1>1, <3>1
      <4> QED
        BY <4>1
    <3> QED
      BY <2>4, <3>1
  <2>6. n - 1 \in Nat /\ n - 1 \notin T
    <3>1. n \in Nat /\ n # 0 /\ \A k \in T : n <= k
      BY <2>3, <2>4, <2>5
    <3> HIDE DEF T
    <3> QED BY <3>1
  <2>7. PICK g : Fits(n - 1, g)
    BY <2>6
  <2> DEFINE h == [s \in Small(n) |-> IF s = {} THEN f ELSE Union(g[s \ {Chosen(s)}], m, Chosen(s))]
  <2>8. ASSUME NEW s \in Small(n), s # {}
        PROVE  h[s \ {Chosen(s)}] = g[s \ {Chosen(s)}]
    <3> DEFINE r == s \ {Chosen(s)}
    <3>1. Chosen(s) \in s /\ IsFiniteSet(s)
      BY <1>1, <2>8, ChosenIsMember
    <3>2. r \in SUBSET S /\ Cardinality(r) = Cardinality(s) - 1
      BY <3>1, FS_RemoveElement
    <3> HIDE DEF r
    <3>3. r \in Small(n - 1) /\ r \in Small(n)
      BY <1>1, <2>4, <3>2
    <3>4. g[r] = IF r = {} THEN f ELSE Union(g[r \ {Chosen(r)}], m, Chosen(r))
      BY <2>7, <3>3
    <3>5. h[r] = IF r = {} THEN f ELSE Union(g[r \ {Chosen(r)}], m, Chosen(r))
      BY <3>3
    <3> HIDE DEF h
    <3> QED
      BY <3>4, <3>5 DEF r
  <2>9. Fits(n, h)
    BY <2>8
  <2> QED
    BY <2>4, <2>9
<1>3. Cardinality(S) + 1 \in Nat /\ Small(Cardinality(S) + 1) = SUBSET S
  BY <1>1, FS_CardinalityType
<1>4. PICK g : Fits(Cardinality(S) + 1, g)
  BY <1>2, <1>3
<1> QED
  BY <1>3, <1>4 DEF Unions

\* A fold of unions with one key joins the trees of all.
LEMMA FoldJoins ==
  ASSUME NEW f, Ordered(f), NEW m \in DOMAIN f, NEW S \in SUBSET DOMAIN f, IsFiniteSet(S)
  PROVE  Joins(FoldSet(LAMBDA key, forest : Union(forest, m, key), f, S), f, S \cup {m})
<1> DEFINE g == CHOOSE g : Unions(f, m, S, g)
<1>1. Unions(f, m, S, g)
  BY UnionsExist
<1>2. FoldSet(LAMBDA key, forest : Union(forest, m, key), f, S) = g[S]
  BY DEF FoldSet, MapThenFoldSet, Unions, Chosen
<1> HIDE DEF g
<1> DEFINE T == {s \in SUBSET S : ~Joins(g[s], f, s \cup {m})}
<1>3. T = {}
  <2>1. SUFFICES ASSUME T # {} PROVE FALSE
    OBVIOUS
  <2>2. T \in SUBSET SUBSET S
    OBVIOUS
  <2> HIDE DEF T
  <2>3. PICK s \in T : \A u \in T : u \subseteq s => u = s
    BY <2>1, <2>2, SmallestSet
  <2>4. s \in SUBSET S /\ ~Joins(g[s], f, s \cup {m})
    BY DEF T
  <2>5. g[s] = IF s = {} THEN f ELSE Union(g[s \ {Chosen(s)}], m, Chosen(s))
    BY <1>1, <2>4 DEF Unions
  <2>6. CASE s = {}
    <3>1. Joins(f, f, {m})
      BY DEF Joins
    <3> QED
      BY <2>4, <2>5, <2>6, <3>1
  <2>7. CASE s # {}
    <3> DEFINE x == Chosen(s)
               r == s \ {x}
    <3>1. x \in s /\ r \in SUBSET S /\ r # s /\ r \subseteq s
      BY <2>4, <2>7, ChosenIsMember
    <3>2. Joins(g[r], f, r \cup {m})
      <4>1. r \notin T
        BY <2>3, <3>1
      <4> QED
        BY <3>1, <4>1 DEF T
    <3>3. g[s] = Union(g[r], m, x)
      BY <2>5, <2>7
    <3>4. s \cup {m} = (r \cup {m}) \cup {x}
      BY <3>1
    <3> HIDE DEF x, r
    <3>5. Joins(g[s], g[r], {m, x})
      <4>1. Ordered(g[r]) /\ DOMAIN g[r] = DOMAIN f /\ x \in DOMAIN f
        BY <2>4, <3>1, <3>2 DEF Joins
      <4> QED
        BY <3>3, <4>1, UnionJoins
    <3>6. m \in r \cup {m} /\ (r \cup {m}) \subseteq DOMAIN f /\ x \in DOMAIN f
      BY <2>4, <3>1
    <3>7. Joins(g[s], f, (r \cup {m}) \cup {x})
      BY <3>2, <3>5, <3>6, JoinsMore
    <3> QED
      BY <2>4, <3>4, <3>7
  <2> QED
    BY <2>6, <2>7
<1> QED
  BY <1>2, <1>3

-------------------------------------------------------------------------------
(* A day's clients. *)

Tied == DayDeals \ untied

\* The trees are the people: the keys of a deal tied are in one tree, and no
\* tree leaves a set of keys that every such deal is in or out of.
ClientShapes ==
  /\ contactOf \in [DayDeals -> DayContacts \cup {NoKey}]
  /\ numbersOf \in [DayContacts -> SUBSET NumberKeys]
  /\ ownNumber \in [DayDeals -> NumberKeys \cup {NoKey}]

TreesArePeople ==
  /\ Ordered(parent)
  /\ \A d \in Tied : Ties(d) \subseteq DOMAIN parent
  /\ \A d \in Tied : \A x, y \in Ties(d) : Root(parent, x) = Root(parent, y)
  /\ \A C \in SUBSET Keys :
       (\A d \in Tied : Ties(d) \subseteq C \/ Ties(d) \cap C = {}) => Respects(parent, C)

\* What a deal is known by.
LEMMA DealKeysFacts ==
  ASSUME ClientShapes, NEW d \in DayDeals
  PROVE  /\ ContactSet(d) \subseteq DayContacts /\ NumberSet(d) \subseteq NumberKeys
         /\ DealKeys(d) \subseteq Ties(d) /\ DealKeys(d) # {} /\ Ties(d) \subseteq Keys
         /\ IsFiniteSet(Ties(d)) /\ IsFiniteSet(DealKeys(d))
         /\ Min(DealKeys(d)) \in DealKeys(d)
<1>1. ContactSet(d) \subseteq DayContacts
  BY DEF ClientShapes, ContactSet
<1>2. NumberSet(d) \subseteq NumberKeys
  <2>1. \A c \in ContactSet(d) : numbersOf[c] \subseteq NumberKeys
    BY <1>1 DEF ClientShapes
  <2>2. {ownNumber[d]} \ {NoKey} \subseteq NumberKeys
    BY DEF ClientShapes
  <2>3. ASSUME NEW p \in NumberSet(d) PROVE p \in NumberKeys
    <3>1. p \in UNION {numbersOf[c] : c \in ContactSet(d)} \/ p \in {ownNumber[d]} \ {NoKey}
      BY DEF NumberSet
    <3>2. p \in UNION {numbersOf[c] : c \in ContactSet(d)} => \E c \in ContactSet(d) : p \in numbersOf[c]
      OBVIOUS
    <3> QED
      BY <2>1, <2>2, <3>1, <3>2
  <2> QED
    BY <2>3
<1>3. DealKeys(d) \subseteq Ties(d) /\ DealKeys(d) # {}
  BY DEF DealKeys, Ties
<1>4. Ties(d) \subseteq Keys
  BY <1>1, <1>2 DEF DealKeys, Ties, Keys
<1>5. IsFiniteSet(Ties(d)) /\ IsFiniteSet(DealKeys(d))
  BY <1>3, <1>4, KeysAreBounded, FS_Subset
<1>6. Min(DealKeys(d)) \in DealKeys(d)
  <2>1. DealKeys(d) \in SUBSET Nat /\ DealKeys(d) # {}
    BY <1>3, <1>4, KeysAreBounded
  <2>2. \E x \in DealKeys(d) : \A y \in DealKeys(d) : x <= y
    BY ONLY <2>1, LeastNat
  <2> QED
    BY <2>2 DEF Min
<1> QED
  BY <1>1, <1>2, <1>3, <1>4, <1>5, <1>6

\* A deal is tied, and its keys' trees with it.
LEMMA TieJoins ==
  ASSUME ClientShapes, TreesArePeople, NEW d \in DayDeals, Tie(d)
  PROVE  TreesArePeople'
<1> DEFINE m == Min(DealKeys(d))
           base == Add(parent, Ties(d))
           S == Ties(d) \ {m}
<1>1. m \in Ties(d) /\ Ties(d) \in SUBSET Keys /\ IsFiniteSet(Ties(d))
  BY DealKeysFacts
<1>2. /\ Ordered(base) /\ DOMAIN base = DOMAIN parent \cup Ties(d)
      /\ \A k \in DOMAIN parent \cup Ties(d) :
           Root(base, k) = IF k \in DOMAIN parent THEN Root(parent, k) ELSE k
  <2>1. Ordered(parent) /\ Ties(d) \in SUBSET Keys
    BY <1>1 DEF TreesArePeople
  <2> QED
    BY <2>1, AddedRoots
<1>3. parent' = FoldSet(LAMBDA key, forest : Union(forest, m, key), base, S)
  BY DEF Tie
<1> HIDE DEF m, base
<1>4. Joins(parent', base, Ties(d))
  <2>1. S \in SUBSET DOMAIN base /\ m \in DOMAIN base /\ IsFiniteSet(S) /\ S \cup {m} = Ties(d)
    BY <1>1, <1>2, FS_Subset
  <2>2. Joins(FoldSet(LAMBDA key, forest : Union(forest, m, key), base, S), base, S \cup {m})
    BY <1>2, <2>1, FoldJoins
  <2> QED
    BY <1>3, <2>1, <2>2
<1>5. /\ untied' = untied \ {d} /\ Tied' = Tied \cup {d}
      /\ \A e \in DayDeals : Ties(e)' = Ties(e)
  <2>1. untied' = untied \ {d} /\ UNCHANGED <<contactOf, numbersOf, ownNumber>>
    BY DEF Tie
  <2>2. ASSUME NEW e \in DayDeals PROVE Ties(e)' = Ties(e)
    <3>1. ContactSet(e)' = ContactSet(e) /\ NumberSet(e)' = NumberSet(e)
      BY <2>1 DEF ContactSet, NumberSet
    <3> QED
      BY <3>1 DEF Ties, DealKeys
  <2> QED
    BY <2>1, <2>2 DEF Tied
<1>6. Ordered(parent') /\ DOMAIN parent' = DOMAIN parent \cup Ties(d)
  BY <1>2, <1>4 DEF Joins
<1>7. Tied \subseteq DayDeals
  BY DEF Tied
<1>8. \A e \in Tied' : Ties(e)' \subseteq DOMAIN parent'
  BY <1>5, <1>6, <1>7 DEF TreesArePeople
<1>9. ASSUME NEW e \in Tied', NEW x \in Ties(e)', NEW y \in Ties(e)'
      PROVE  Root(parent', x) = Root(parent', y)
  <2>1. CASE e = d
    BY <1>4, <1>5, <1>9, <2>1 DEF Joins
  <2>2. CASE e # d
    <3>1. e \in Tied /\ x \in Ties(e) /\ y \in Ties(e)
      BY <1>5, <1>7, <1>9, <2>2
    <3>2. Root(parent, x) = Root(parent, y) /\ x \in DOMAIN parent /\ y \in DOMAIN parent
      BY <3>1 DEF TreesArePeople
    <3>3. Root(base, x) = Root(base, y)
      BY <1>2, <3>2
    <3> QED
      BY <1>2, <1>4, <3>2, <3>3 DEF Joins
  <2> QED
    BY <2>1, <2>2
<1>10. ASSUME NEW C \in SUBSET Keys, \A e \in Tied' : Ties(e)' \subseteq C \/ Ties(e)' \cap C = {}
       PROVE  Respects(parent', C)
  <2>1. \A e \in Tied : Ties(e) \subseteq C \/ Ties(e) \cap C = {}
    BY <1>5, <1>7, <1>10
  <2>2. Ties(d) \subseteq C \/ Ties(d) \cap C = {}
    BY <1>5, <1>10
  <2>3. Respects(parent, C)
    BY <2>1 DEF TreesArePeople
  <2>4. Respects(base, C)
    BY <1>2, <2>3 DEF Respects
  <2> QED
    BY <1>4, <2>2, <2>4 DEF Joins
<1>11. Keys' = Keys
  BY DEF Keys
<1> QED
  BY <1>6, <1>8, <1>9, <1>10, <1>11 DEF TreesArePeople, Ordered, Respects

\* Once all are tied, the deals of one tree.
Class(d) == {e \in DayDeals : RootOf(e) = RootOf(d)}

ClientOf(deals, status) == [
  deals |-> deals,
  phones |-> Together(deals).phones,
  contactIds |-> Together(deals).contactIds,
  key |-> Together(deals).key,
  status |-> status]

StatusOf(deals) == Newest({earlier[c] : c \in Same(Together(deals))})

\* A client is a tree, told from the others by it alone.
ClientsAreTrees ==
  /\ clients # {} => untied = {} /\ clients = {ClientOf(Class(d), StatusOf(Class(d))) : d \in DayDeals}
  /\ clients = {} => \A c \in DayContacts : earlier[c] = "none"

ClientsInv == ClientShapes /\ TreesArePeople /\ ClientsAreTrees

\* Deals that share a key are in one tree.
LEMMA OneTree ==
  ASSUME ClientShapes, TreesArePeople, untied = {}, NEW d \in DayDeals, NEW e \in DayDeals,
         NEW x, x \in Ties(d), x \in Ties(e)
  PROVE  RootOf(d) = RootOf(e) /\ Class(d) = Class(e)
<1>1. d \in Tied /\ e \in Tied
  BY DEF Tied
<1>2. Min(DealKeys(d)) \in Ties(d) /\ Min(DealKeys(e)) \in Ties(e)
  BY DealKeysFacts
<1>3. RootOf(d) = RootOf(e)
  BY <1>1, <1>2 DEF TreesArePeople, RootOf
<1> QED
  BY <1>3 DEF Class

\* What two deals share is a number or a contact.
LEMMA SharedKinds ==
  ASSUME ClientShapes, NEW d \in DayDeals, NEW e \in DayDeals, d # e,
         NEW x, x \in Ties(d), x \in Ties(e)
  PROVE  (x \in NumberSet(d) /\ x \in NumberSet(e)) \/ (x \in ContactSet(d) /\ x \in ContactSet(e))
<1>1. /\ ContactSet(d) \subseteq DayContacts /\ NumberSet(d) \subseteq NumberKeys
      /\ ContactSet(e) \subseteq DayContacts /\ NumberSet(e) \subseteq NumberKeys
  BY DealKeysFacts
<1>2. /\ DayContacts \cap DayDeals = {} /\ DayContacts \cap NumberKeys = {}
      /\ DayDeals \cap NumberKeys = {}
  <2>1. DayContacts \subseteq Nat /\ DayDeals \subseteq Nat /\ NumberKeys \subseteq Nat
    BY ClientAssumption
  <2>2. /\ \A c \in DayContacts, f \in DayDeals : c < f
        /\ \A c \in DayContacts, p \in NumberKeys : c < p
        /\ \A f \in DayDeals, p \in NumberKeys : f < p
    BY ClientAssumption
  <2> QED
    BY <2>1, <2>2
<1>3. x \in NumberSet(d) \/ x \in ContactSet(d) \/ x = d
  BY DEF Ties, DealKeys
<1>4. x \in NumberSet(e) \/ x \in ContactSet(e) \/ x = e
  BY DEF Ties, DealKeys
<1> QED
  BY <1>1, <1>2, <1>3, <1>4


\* Who shares nothing outside is a set of keys no deal crosses.
LEMMA ClassIsOnePerson ==
  ASSUME ClientShapes, TreesArePeople, untied = {}, NEW d \in DayDeals
  PROVE  OnePerson(Class(d))
<1>1. Class(d) \subseteq DayDeals /\ Tied = DayDeals
  BY DEF Class, Tied
<1>2. \A e \in Class(d) : Class(e) = Class(d) /\ RootOf(e) = RootOf(d)
  BY DEF Class
<1>3. ASSUME NEW e \in Class(d), NEW f \in DayDeals \ Class(d)
      PROVE  NumberSet(e) \cap NumberSet(f) = {} /\ ContactSet(e) \cap ContactSet(f) = {}
  <2>1. e \in DayDeals /\ f \in DayDeals
    BY <1>1, <1>3
  <2>2. ASSUME NEW x, x \in Ties(e), x \in Ties(f) PROVE FALSE
    <3>1. RootOf(e) = RootOf(f)
      BY <2>1, <2>2, OneTree
    <3> QED
      BY <1>2, <1>3, <3>1 DEF Class
  <2>3. NumberSet(e) \subseteq Ties(e) /\ NumberSet(f) \subseteq Ties(f)
    BY DEF Ties, DealKeys
  <2>4. ContactSet(e) \subseteq Ties(e) /\ ContactSet(f) \subseteq Ties(f)
    BY DEF Ties
  <2> QED
    BY <2>2, <2>3, <2>4
<1>4. ASSUME NEW some \in (SUBSET Class(d)) \ {{}, Class(d)}, Apart(some, Class(d) \ some)
      PROVE  FALSE
  <2> DEFINE C == {x \in Keys : \E e \in some : x \in Ties(e)}
  <2>1. PICK e1 \in some, e2 \in Class(d) \ some : TRUE
    BY <1>4
  <2>2. some \subseteq DayDeals /\ e1 \in DayDeals /\ e2 \in DayDeals
    BY <1>1, <1>4
  <2>3. \A e \in some : Ties(e) \subseteq C
    BY <2>2, DealKeysFacts
  <2>4. ASSUME NEW f \in DayDeals \ some, NEW x \in Ties(f) \cap C
        PROVE  FALSE
    <3>1. PICK e \in some : x \in Ties(e)
      BY <2>4
    <3>2. e \in DayDeals /\ e # f /\ e \in Class(d)
      BY <1>4, <2>2, <2>4, <3>1
    <3>3. Class(f) = Class(e)
      BY <2>4, <3>1, <3>2, OneTree
    <3>4. f \in Class(f)
      BY <2>4 DEF Class
    <3>5. f \in Class(d) \ some
      BY <1>2, <2>4, <3>2, <3>3, <3>4
    <3>6. (x \in NumberSet(e) /\ x \in NumberSet(f)) \/ (x \in ContactSet(e) /\ x \in ContactSet(f))
      BY <2>4, <3>1, <3>2, SharedKinds
    <3>7. NumberSet(e) \cap NumberSet(f) = {} /\ ContactSet(e) \cap ContactSet(f) = {}
      BY <1>4, <3>1, <3>5 DEF Apart
    <3> QED
      BY <3>6, <3>7
  <2>5. Respects(parent, C)
    <3>1. \A f \in Tied : Ties(f) \subseteq C \/ Ties(f) \cap C = {}
      BY <1>1, <2>3, <2>4
    <3>2. C \in SUBSET Keys
      OBVIOUS
    <3> HIDE DEF C
    <3> QED
      BY <3>1, <3>2 DEF TreesArePeople
  <2>6. /\ Min(DealKeys(e1)) \in Ties(e1) /\ Ties(e1) \subseteq DOMAIN parent
        /\ Min(DealKeys(e2)) \in Ties(e2) /\ Ties(e2) \subseteq DOMAIN parent
    BY <1>1, <2>2, DealKeysFacts DEF TreesArePeople
  <2>7. Root(parent, Min(DealKeys(e1))) = Root(parent, Min(DealKeys(e2)))
    BY <1>2, <1>4, <2>1 DEF RootOf
  <2>8. Min(DealKeys(e1)) \in C
    BY <2>1, <2>3, <2>6
  <2>9. Min(DealKeys(e2)) \notin C
    BY <2>1, <2>2, <2>4, <2>6
  <2> HIDE DEF C
  <2> QED
    BY <2>5, <2>6, <2>7, <2>8, <2>9 DEF Respects
<1> QED
  BY <1>3, <1>4 DEF OnePerson, Apart

\* A client's key is one of its deals'.
LEMMA KeyOfItsOwn ==
  ASSUME ClientShapes, NEW d \in DayDeals
  PROVE  \E e \in Class(d) : Together(Class(d)).key \in Ties(e)
<1> DEFINE K == Class(d)
           some == IF \A e \in K : NumberSet(e) = {} THEN UNION {DealKeys(e) : e \in K}
                   ELSE UNION {NumberSet(e) : e \in K}
<1>1. K \subseteq DayDeals /\ d \in K
  BY DEF Class
<1>2. Together(K).key = Min(some)
  BY DEF Together
<1> HIDE DEF K
<1>3. \A x \in some : \E e \in K : x \in Ties(e)
  BY DEF Ties, DealKeys
<1>4. some # {}
  BY <1>1, DealKeysFacts
<1>5. some \subseteq Nat
  BY <1>1, <1>3, DealKeysFacts, KeysAreBounded
<1> HIDE DEF some
<1>6. \E x \in some : \A y \in some : x <= y
  BY <1>4, <1>5, LeastNat
<1>7. Min(some) \in some
  BY <1>6 DEF Min
<1> QED
  BY <1>2, <1>3, <1>7 DEF K

\* Two clients with one key, or one contact, are one.
LEMMA ClassesMeet ==
  ASSUME ClientShapes, TreesArePeople, untied = {}, NEW d \in DayDeals, NEW e \in DayDeals
  PROVE  /\ Together(Class(d)).key = Together(Class(e)).key => Class(d) = Class(e)
         /\ Class(d) \cap Class(e) # {} => Class(d) = Class(e)
         /\ Together(Class(d)).contactIds \cap Together(Class(e)).contactIds # {} => Class(d) = Class(e)
<1>1. \A f \in Class(d) : f \in DayDeals /\ Class(f) = Class(d)
  BY DEF Class
<1>2. \A f \in Class(e) : f \in DayDeals /\ Class(f) = Class(e)
  BY DEF Class
<1>3. ASSUME NEW f \in Class(d), NEW g \in Class(e), NEW x, x \in Ties(f), x \in Ties(g)
      PROVE  Class(d) = Class(e)
  <2>1. Class(f) = Class(g)
    BY <1>1, <1>2, <1>3, OneTree
  <2> QED
    BY <1>1, <1>2, <2>1
<1>4. ASSUME Together(Class(d)).key = Together(Class(e)).key
      PROVE  Class(d) = Class(e)
  <2>1. PICK f \in Class(d) : Together(Class(d)).key \in Ties(f)
    BY KeyOfItsOwn
  <2>2. PICK g \in Class(e) : Together(Class(e)).key \in Ties(g)
    BY KeyOfItsOwn
  <2> QED
    BY <1>3, <1>4, <2>1, <2>2
<1>5. Class(d) \cap Class(e) # {} => Class(d) = Class(e)
  BY <1>1, <1>2
<1>6. ASSUME NEW c \in Together(Class(d)).contactIds, c \in Together(Class(e)).contactIds
      PROVE  Class(d) = Class(e)
  <2>1. PICK f \in Class(d) : c \in ContactSet(f)
    BY <1>6 DEF Together
  <2>2. PICK g \in Class(e) : c \in ContactSet(g)
    BY <1>6 DEF Together
  <2> QED
    BY <1>3, <2>1, <2>2 DEF Ties
<1> QED
  BY <1>4, <1>5, <1>6

\* Of the contacts looked up, those a client is told by are its own.
LEMMA BehindIsSame ==
  ASSUME ClientsInv, NEW client \in clients
  PROVE  Behind(client) = Same(client)
<1>1. untied = {} /\ clients = {ClientOf(Class(d), StatusOf(Class(d))) : d \in DayDeals}
  BY DEF ClientsInv, ClientsAreTrees
<1>2. PICK d \in DayDeals : client = ClientOf(Class(d), StatusOf(Class(d)))
  BY <1>1
<1>3. client.phones = Together(Class(d)).phones /\ client.contactIds = Together(Class(d)).contactIds
  BY <1>2 DEF ClientOf
<1>4. Class(d) \subseteq DayDeals
  BY DEF Class
<1>5. client.phones = UNION {NumberSet(e) : e \in Class(d)} /\ client.contactIds = UNION {ContactSet(e) : e \in Class(d)}
  BY <1>3 DEF Together
<1>6. client.contactIds \subseteq DayContacts
  <2>1. \A e \in Class(d) : ContactSet(e) \subseteq DayContacts
    BY <1>4, DealKeysFacts DEF ClientsInv
  <2> QED
    BY <1>5, <2>1
<1>7. CASE client.phones = {}
  <2>1. \A c \in client.contactIds : c \in Numberless
    BY <1>7 DEF Numberless
  <2>2. \A c \in client.contactIds : c \in Owners
    BY <1>6, <2>1 DEF Owners
  <2> QED
    BY <1>6, <1>7, <2>2 DEF Behind, Same, Owners
<1>8. CASE client.phones # {}
  <2>1. ASSUME NEW c \in DayContacts, numbersOf[c] \cap client.phones # {}
        PROVE  c \in Owners
    <3>1. PICK p \in numbersOf[c] : p \in client.phones
      BY <2>1
    <3>2. TailOf[p] \in Tails
      BY <3>1 DEF Tails
    <3> QED
      BY <3>1, <3>2 DEF Owners
  <2>2. ASSUME NEW c \in Owners, c \in client.contactIds, numbersOf[c] \cap client.phones = {}
        PROVE  FALSE
    <3>1. PICK e \in Class(d) : c \in ContactSet(e)
      BY <1>5, <2>2
    <3>2. numbersOf[c] \subseteq NumberSet(e)
      BY <3>1 DEF NumberSet
    <3>3. numbersOf[c] = {}
      BY <1>5, <2>2, <3>1, <3>2
    <3>4. c \in Numberless
      BY <2>2, <3>3 DEF Owners
    <3>5. PICK other \in clients : other.phones = {} /\ c \in other.contactIds
      BY <3>4 DEF Numberless
    <3>6. PICK f \in DayDeals : other = ClientOf(Class(f), StatusOf(Class(f)))
      BY <1>1, <3>5
    <3>7. other.phones = Together(Class(f)).phones /\ other.contactIds = Together(Class(f)).contactIds
      BY <3>6 DEF ClientOf
    <3>8. Class(d) = Class(f)
      BY <1>1, <1>3, <2>2, <3>5, <3>7, ClassesMeet DEF ClientsInv
    <3> QED
      BY <1>3, <1>8, <3>5, <3>7, <3>8
  <2> QED
    BY <1>8, <2>1, <2>2 DEF Behind, Same, Owners
<1> QED
  BY <1>7, <1>8


-------------------------------------------------------------------------------
(* The day, step by step. *)

\* A day begins with no tree.
LEMMA ClientsStart == ClientsInit => ClientsInv
<1> SUFFICES ASSUME ClientsInit PROVE ClientsInv
  OBVIOUS
<1>1. ClientShapes /\ ClientsAreTrees
  BY DEF ClientsInit, ClientShapes, ClientsAreTrees
<1>2. Ordered(parent) /\ DOMAIN parent = {} /\ Tied = {}
  BY DEF ClientsInit, Ordered, Tied
<1> QED
  BY <1>1, <1>2 DEF ClientsInv, TreesArePeople, Respects

\* What the deals bring never changes.
LEMMA DealsStay ==
  ASSUME UNCHANGED <<contactOf, numbersOf, ownNumber>>
  PROVE  /\ ClientShapes' = ClientShapes /\ Keys' = Keys
         /\ \A d : Ties(d)' = Ties(d) /\ DealKeys(d)' = DealKeys(d) /\ NumberSet(d)' = NumberSet(d) /\ ContactSet(d)' = ContactSet(d)
         /\ \A deals : Together(deals)' = Together(deals)
<1>1. ASSUME NEW d
      PROVE  Ties(d)' = Ties(d) /\ DealKeys(d)' = DealKeys(d) /\ NumberSet(d)' = NumberSet(d) /\ ContactSet(d)' = ContactSet(d)
  <2>1. ContactSet(d)' = ContactSet(d)
    BY DEF ContactSet
  <2>2. NumberSet(d)' = NumberSet(d)
    BY <2>1 DEF NumberSet
  <2> QED
    BY <2>1, <2>2 DEF Ties, DealKeys
<1>2. ASSUME NEW deals PROVE Together(deals)' = Together(deals)
  BY <1>1 DEF Together
<1>3. ClientShapes' = ClientShapes /\ Keys' = Keys
  BY DEF ClientShapes, Keys
<1> QED
  BY <1>1, <1>2, <1>3

\* Nor do the trees, when nothing is tied.
LEMMA TreesStay ==
  ASSUME TreesArePeople, UNCHANGED <<contactOf, numbersOf, ownNumber, untied, parent>>
  PROVE  TreesArePeople' /\ \A d : Class(d)' = Class(d)
<1>1. Tied' = Tied /\ Keys' = Keys /\ \A d : Ties(d)' = Ties(d) /\ DealKeys(d)' = DealKeys(d)
  BY DealsStay DEF Tied
<1>2. Ordered(parent)'
  BY <1>1 DEF TreesArePeople, Ordered
<1>3. TreesArePeople'
  BY <1>1, <1>2 DEF TreesArePeople, Respects
<1>4. \A d : RootOf(d)' = RootOf(d)
  BY <1>1 DEF RootOf
<1> QED
  BY <1>3, <1>4 DEF Class

\* Every step of the day keeps them.
LEMMA ClientsStep == ClientsInv /\ [ClientsNext]_clientVars => ClientsInv'
<1> SUFFICES ASSUME ClientsInv, [ClientsNext]_clientVars PROVE ClientsInv'
  OBVIOUS
<1>1. ClientShapes /\ TreesArePeople /\ ClientsAreTrees
  BY DEF ClientsInv
<1>2. UNCHANGED <<contactOf, numbersOf, ownNumber>>
  BY DEF ClientsNext, Tie, Group, Look, clientVars
<1>3. ClientShapes' /\ \A deals : Together(deals)' = Together(deals)
  BY <1>1, <1>2, DealsStay
<1>4. ASSUME NEW d \in DayDeals, Tie(d)
      PROVE  ClientsInv'
  <2>1. TreesArePeople'
    BY <1>1, <1>4, TieJoins
  <2>2. clients = {} /\ UNCHANGED <<clients, earlier>>
    BY <1>1, <1>4 DEF Tie, ClientsAreTrees
  <2>3. ClientsAreTrees'
    BY <1>1, <2>2 DEF ClientsAreTrees
  <2> QED
    BY <1>3, <2>1, <2>3 DEF ClientsInv
<1>5. ASSUME Group
      PROVE  ClientsInv'
  <2>1. untied = {} /\ clients = {} /\ UNCHANGED <<earlier, untied, parent>>
    BY <1>5 DEF Group
  <2>2. TreesArePeople' /\ \A d : Class(d)' = Class(d)
    BY <1>1, <1>2, <2>1, TreesStay
  <2>3. clients' = {Together(Class(d)) : d \in DayDeals}
    BY <1>5 DEF Group, Class
  <2>4. \A c \in DayContacts : earlier[c] = "none" /\ earlier'[c] = "none"
    BY <1>1, <2>1 DEF ClientsAreTrees
  <2>5. ASSUME NEW d \in DayDeals
        PROVE  Together(Class(d)) = ClientOf(Class(d), StatusOf(Class(d)))'
    <3>1. \A deals : StatusOf(deals)' = "new"
      <4>1. ASSUME NEW deals PROVE {earlier[c] : c \in Same(Together(deals))}' \subseteq {"none"}
        BY <2>4 DEF Same
      <4> QED
        BY <4>1 DEF StatusOf, Newest
    <3>2. ClientOf(Class(d), StatusOf(Class(d)))' = ClientOf(Class(d), "new")
      BY <1>3, <2>2, <3>1 DEF ClientOf
    <3> QED
      BY <3>2 DEF ClientOf, Together
  <2>6. clients' = {ClientOf(Class(d), StatusOf(Class(d))) : d \in DayDeals}'
    BY <2>3, <2>5
  <2>7. ClientsAreTrees'
    BY <2>1, <2>4, <2>6 DEF ClientsAreTrees
  <2> QED
    BY <1>3, <2>2, <2>7 DEF ClientsInv
<1>6. ASSUME Look
      PROVE  ClientsInv'
  <2>1. untied = {} /\ clients # {} /\ UNCHANGED <<untied, parent>>
    BY <1>1, <1>6 DEF Look, ClientsAreTrees
  <2>2. TreesArePeople' /\ \A d : Class(d)' = Class(d)
    BY <1>1, <1>2, <2>1, TreesStay
  <2>3. clients = {ClientOf(Class(d), StatusOf(Class(d))) : d \in DayDeals}
    BY <1>1, <2>1 DEF ClientsAreTrees
  <2>4. clients' = {[client EXCEPT !.status = Novelty(client, earlier')] : client \in clients}
    BY <1>6 DEF Look
  <2>5. ASSUME NEW d \in DayDeals
        PROVE  LET client == ClientOf(Class(d), StatusOf(Class(d)))
               IN  [client EXCEPT !.status = Novelty(client, earlier')] = ClientOf(Class(d), StatusOf(Class(d)))'
    <3> DEFINE client == ClientOf(Class(d), StatusOf(Class(d)))
    <3>1. Behind(client) = Same(client)
      BY <2>3, BehindIsSame
    <3>2. Same(client) = Same(Together(Class(d)))
      BY DEF Same, ClientOf
    <3>3. \A deals : Same(Together(deals))' = Same(Together(deals))
      BY <1>2, <1>3 DEF Same
    <3>4. Novelty(client, earlier') = StatusOf(Class(d))'
      <4>1. StatusOf(Class(d))' = Newest({earlier'[c] : c \in Same(Together(Class(d)))})
        BY <2>2, <3>3 DEF StatusOf
      <4>2. Novelty(client, earlier') = Newest({earlier'[c] : c \in Behind(client)})
        BY DEF Novelty
      <4> HIDE DEF client
      <4> QED
        BY <3>1, <3>2, <4>1, <4>2
    <3>5. [client EXCEPT !.status = Novelty(client, earlier')] = ClientOf(Class(d), Novelty(client, earlier'))
      BY DEF ClientOf
    <3>6. ClientOf(Class(d), StatusOf(Class(d)))' = ClientOf(Class(d), StatusOf(Class(d))')
      BY <1>3, <2>2 DEF ClientOf
    <3> QED
      BY <3>4, <3>5, <3>6
  <2>6. clients' = {ClientOf(Class(d), StatusOf(Class(d))) : d \in DayDeals}'
    <3>1. clients' = {LET client == ClientOf(Class(d), StatusOf(Class(d)))
                      IN  [client EXCEPT !.status = Novelty(client, earlier')] : d \in DayDeals}
      BY <2>3, <2>4
    <3> QED
      BY <2>5, <3>1
  <2>7. clients' # {}
    BY <2>1, <2>4
  <2>8. ClientsAreTrees'
    BY <2>1, <2>6, <2>7 DEF ClientsAreTrees
  <2> QED
    BY <1>3, <2>2, <2>8 DEF ClientsInv
<1>7. ASSUME UNCHANGED clientVars
      PROVE  ClientsInv'
  <2>1. UNCHANGED <<untied, parent, clients, earlier>>
    BY <1>7 DEF clientVars
  <2>2. TreesArePeople' /\ \A d : Class(d)' = Class(d)
    BY <1>1, <1>2, <2>1, TreesStay
  <2>3. \A deals : StatusOf(deals)' = StatusOf(deals)
    BY <1>2, <1>3, <2>1 DEF StatusOf, Same
  <2>4. \A d : ClientOf(Class(d), StatusOf(Class(d)))' = ClientOf(Class(d), StatusOf(Class(d)))
    BY <1>3, <2>2, <2>3 DEF ClientOf
  <2>5. ClientsAreTrees'
    BY <1>1, <2>1, <2>4 DEF ClientsAreTrees
  <2> QED
    BY <1>3, <2>2, <2>5 DEF ClientsInv
<1> QED
  BY <1>4, <1>5, <1>6, <1>7 DEF ClientsNext

\* The trees are the people the property speaks of.
LEMMA TreesGiveThePeople == ClientsInv => ClientsAreThePeople /\ ForestIsOrdered
<1> SUFFICES ASSUME ClientsInv PROVE ClientsAreThePeople /\ ForestIsOrdered
  OBVIOUS
<1>1. ForestIsOrdered
  BY DEF ClientsInv, TreesArePeople, Ordered, ForestIsOrdered
<1>2. ASSUME clients # {}
      PROVE  /\ UNION {client.deals : client \in clients} = DayDeals
             /\ \A client \in clients : OnePerson(client.deals)
             /\ \A one, other \in clients :
                  one # other => one.key # other.key /\ one.deals \cap other.deals = {}
             /\ \A client \in clients : client.status = Newest({earlier[c] : c \in Same(client)})
  <2>1. untied = {} /\ clients = {ClientOf(Class(d), StatusOf(Class(d))) : d \in DayDeals}
    BY <1>2 DEF ClientsInv, ClientsAreTrees
  <2>2. ClientShapes /\ TreesArePeople
    BY DEF ClientsInv
  <2>3. \A d \in DayDeals : d \in Class(d) /\ Class(d) \subseteq DayDeals
    BY DEF Class
  <2>4. \A d \in DayDeals : LET client == ClientOf(Class(d), StatusOf(Class(d)))
                            IN  client.deals = Class(d) /\ client.key = Together(Class(d)).key
    BY DEF ClientOf
  <2>5. UNION {client.deals : client \in clients} = DayDeals
    BY <2>1, <2>3, <2>4
  <2>6. \A client \in clients : OnePerson(client.deals)
    BY <2>1, <2>2, <2>4, ClassIsOnePerson
  <2>7. ASSUME NEW one \in clients, NEW other \in clients, one # other
        PROVE  one.key # other.key /\ one.deals \cap other.deals = {}
    <3>1. PICK d \in DayDeals : one = ClientOf(Class(d), StatusOf(Class(d)))
      BY <2>1
    <3>2. PICK e \in DayDeals : other = ClientOf(Class(e), StatusOf(Class(e)))
      BY <2>1
    <3>3. Class(d) # Class(e)
      BY <2>7, <3>1, <3>2
    <3>4. Together(Class(d)).key # Together(Class(e)).key /\ Class(d) \cap Class(e) = {}
      BY <2>1, <2>2, <3>3, ClassesMeet
    <3> QED
      BY <2>4, <3>1, <3>2, <3>4
  <2>8. ASSUME NEW client \in clients
        PROVE  client.status = Newest({earlier[c] : c \in Same(client)})
    <3>1. PICK d \in DayDeals : client = ClientOf(Class(d), StatusOf(Class(d)))
      BY <2>1
    <3>2. Same(client) = Same(Together(Class(d))) /\ client.status = StatusOf(Class(d))
      BY <3>1 DEF ClientOf, Same
    <3> QED
      BY <3>2 DEF StatusOf
  <2> QED
    BY <2>5, <2>6, <2>7, <2>8
<1> QED
  BY <1>1, <1>2 DEF ClientsAreThePeople

(***************************************************************************)
(* A day's clients are the people linked by numbers and contacts, each     *)
(* with a key of its own and called new or repeat by all its numbers, for  *)
(* any deals, contacts and numbers and whatever the order of the deals.    *)
(***************************************************************************)
THEOREM ClientsAreThePeopleAlways == ClientsSpec => []ClientsAreThePeople
BY ClientsStart, ClientsStep, TreesGiveThePeople, PTL DEF ClientsSpec

\* A host's parts share nothing, and each of them starts as it does alone.
LEMMA PortalPartsRunAlone == MCSpec => SweepsSpec /\ PaceSpec /\ ClientsSpec
<1>1. MCInit => SweepsInit /\ PaceInit /\ ClientsInit
  BY DEF MCInit
<1>2. [MCNext]_<<vars, sweepVars, paceVars, clientVars, countVars, part>>
      => [SweepsNext]_sweepVars /\ [PaceNext]_paceVars /\ [ClientsNext]_clientVars
  BY DEF MCNext
<1> QED
  BY <1>1, <1>2, PTL DEF MCSpec, SweepsSpec, PaceSpec, ClientsSpec

(***************************************************************************)
(* Whichever of the portal's parts runs, every one keeps its types, the    *)
(* budget the places it has given out and the forest its order.            *)
(***************************************************************************)
THEOREM PortalIsWellFormed == MCSpec => []PortalTypeOK
<1>1. SweepsSpec => []SweepsTypeOK
  BY InitSweeps, StepSweeps, PTL DEF SweepsSpec, SweepsInv
<1>2. ClientsSpec => []ForestIsOrdered
  BY ClientsStart, ClientsStep, TreesGiveThePeople, PTL DEF ClientsSpec
<1>3. SweepsTypeOK /\ PaceTypeOK /\ ForestIsOrdered => PortalTypeOK
  BY DEF PortalTypeOK
<1> QED
  BY <1>1, <1>2, <1>3, BudgetIsWellFormed, PortalPartsRunAlone, PTL
===============================================================================
