------------------------------- MODULE OpenChats -------------------------------
(***************************************************************************)
(* The open chats of the lead watch (refreshOpenLineChats): each pass      *)
(* replaces a table by what the portal holds open above an activity id     *)
(* that follows about a day behind.                                        *)
(*                                                                         *)
(* The portal mints an activity per instant, of number 2t, and a chat      *)
(* opened in that instant is the next, 2t + 1.                             *)
(***************************************************************************)
EXTENDS Integers, FiniteSets

CONSTANTS
  ChatWindow,   \* CHAT_WINDOW_MS
  AnchorEvery,  \* CHAT_ANCHOR_EVERY_MS
  HoldFor,      \* CHAT_HOLD_MS
  FewGone,      \* The ten of chatGoneLimit
  PassTime,     \* Bound: how long a pass may take.
  MaxChats,     \* Bound: chats open at once.
  LastInstant   \* Bound: the clock, which begins a window in.

ASSUME ChatAssumption ==
  /\ ChatWindow \in Nat \ {0} /\ AnchorEvery \in Nat \ {0} /\ HoldFor \in Nat /\ FewGone \in Nat
  /\ PassTime \in Nat /\ PassTime < ChatWindow /\ MaxChats \in Nat /\ LastInstant \in Nat /\ ChatWindow < LastInstant

VARIABLES
  \* The portal:
  instant,
  head,       \* The newest activity id.
  talking,    \* The chats a person holds open.
  sighted,    \* Whether the webhook user can see the open lines.
  \* The database:
  table,      \* The chats stored.
  bookmark,   \* ChatsState: floor, dated, anchors, heldAt.
  \* The pass:
  stage, passNow,
  state,      \* Its copy of the bookmark.
  live,       \* The answer to fetchChats.
  \* For the properties:
  datedReads, \* Dated reads sent.
  blindStart, \* Activities under the floor a pass took for want of a better.
  doubtedAt,  \* When a pass last held its deletion.
  controlled  \* The control read of this pass saw the lines.

portal == <<instant, head, talking, sighted>>
memo == <<datedReads, blindStart, doubtedAt, controlled>>
chatVars == <<portal, table, bookmark, stage, passNow, state, live, memo>>

None == -1
NoState == [floor |-> None, dated |-> FALSE, anchors |-> {}, heldAt |-> None]

ChatAt(t) == 2 * t + 1
OpenedAt(c) == c \div 2

\* A first pass finds nobody talking, or the chats of the day before.
ChatsInit ==
  /\ instant = ChatWindow + 1 /\ head = 2 * instant /\ sighted = TRUE
  /\ talking \in {{}, {ChatAt(t) : t \in 1..ChatWindow}}
  /\ table = {} /\ bookmark = NoState
  /\ stage = "idle" /\ passNow = 0 /\ state = NoState /\ live = {}
  /\ datedReads = 0 /\ blindStart = None /\ doubtedAt = None /\ controlled = FALSE

-------------------------------------------------------------------------------
(* The portal. *)

OpenChat ==
  /\ Cardinality(talking) < MaxChats /\ head # ChatAt(instant)
  /\ head' = ChatAt(instant) /\ talking' = talking \cup {ChatAt(instant)}
  /\ UNCHANGED <<instant, sighted, table, bookmark, stage, passNow, state, live, memo>>

CloseChat ==
  /\ \E c \in talking : talking' = talking \ {c}
  /\ UNCHANGED <<instant, head, sighted, table, bookmark, stage, passNow, state, live, memo>>

\* The webhook user loses sight of the open lines between two passes, or is
\* given it back.
Permission ==
  /\ stage = "idle" /\ sighted' = ~sighted
  /\ UNCHANGED <<instant, head, talking, table, bookmark, stage, passNow, state, live, memo>>

Instant ==
  /\ instant < LastInstant
  /\ stage # "idle" => instant < passNow + PassTime
  /\ instant' = instant + 1 /\ head' = 2 * instant'
  /\ UNCHANGED <<talking, sighted, table, bookmark, stage, passNow, state, live, memo>>

-------------------------------------------------------------------------------
(* The floor. *)

\* The pass's clock is read before the calls' pass, which goes first.
BeginChats ==
  /\ stage = "idle" /\ stage' = (IF bookmark.floor = None THEN "floor" ELSE "anchor")
  /\ passNow' = instant /\ state' = bookmark
  /\ UNCHANGED <<portal, table, bookmark, live, memo>>

Noted == TRUE

\* "dated" is written before the dated read is sent.
SayDated ==
  /\ stage = "floor" /\ ~state.dated /\ stage' = "dated"
  /\ state' = [state EXCEPT !.dated = TRUE]
  /\ bookmark' = IF Noted THEN state' ELSE bookmark
  /\ UNCHANGED <<portal, table, passNow, live, memo>>

\* Under the first activity of the window; or the read fails.
DatedRead ==
  /\ stage = "dated" /\ datedReads' = datedReads + 1
  /\ \/ /\ state' = [state EXCEPT !.floor = 2 * (passNow - ChatWindow) - 1] /\ bookmark' = state'
        /\ stage' = "anchor"
     \/ stage' = "head" /\ UNCHANGED <<state, bookmark>>
  /\ UNCHANGED <<portal, table, passNow, live, blindStart, doubtedAt, controlled>>

\* Mutant: the floor moves up to the newest anchor.
AgedAtOnce(anchors, t) == anchors

Aged(anchors, t) == {a \in anchors : t - a.at >= ChatWindow}

Reached(anchors, t) == {a \in Aged(anchors, t) : \A b \in Aged(anchors, t) : b.at <= a.at}

\* advanceChatWindow, with the anchors noted, perhaps one more: up to the last
\* that is a window old, if any is.
Advanced(s, anchors, t) ==
  IF Aged(anchors, t) = {} THEN {[s EXCEPT !.anchors = anchors]}
  ELSE {[s EXCEPT !.anchors = {b \in anchors : b.at >= a.at},
                  !.floor = IF a.id > @ THEN a.id ELSE @] : a \in Reached(anchors, t)}

Anchored(s) == s.anchors \cup {[id |-> head, at |-> passNow]}

\* No dated read, or none again: the newest id.
HeadFloor ==
  /\ stage = "head" \/ (stage = "floor" /\ state.dated)
  /\ \E s \in Advanced(state, Anchored(state), passNow) : state' = [s EXCEPT !.floor = head]
  /\ bookmark' = state'
  /\ stage' = "anchor" /\ blindStart' = head
  /\ UNCHANGED <<portal, table, passNow, live, datedReads, doubtedAt, controlled>>

\* chatAnchorDue
AnchorDue == \A a \in state.anchors : passNow - a.at >= AnchorEvery

\* The hour's anchor, and the floor.  A refused anchor is owed again.
Anchor ==
  /\ stage = "anchor" /\ stage' = "fetch"
  /\ \/ AnchorDue /\ state' \in Advanced(state, Anchored(state), passNow)
     \/ state' \in Advanced(state, state.anchors, passNow)
  /\ UNCHANGED <<portal, table, bookmark, passNow, live, memo>>

-------------------------------------------------------------------------------
(* The answer. *)

OpenAbove == {c \in talking : c > state.floor}
InWindow == {c \in table : c > state.floor}

\* fetchOpenLineChats: whole, cut short, or empty to who sees no lines.
FetchChats ==
  /\ stage = "fetch"
  /\ live' \in IF sighted THEN SUBSET OpenAbove ELSE {{}}
  /\ stage' = (IF live' = {} /\ InWindow # {} THEN "control" ELSE "replace")
  /\ UNCHANGED <<portal, table, bookmark, passNow, state, memo>>

\* anyOpenLineChat: the bot always holds chats open.  None seen, the pass fails.
LinesAreSeen == sighted

Control ==
  /\ stage = "control"
  /\ LinesAreSeen
  /\ stage' = "replace" /\ controlled' = TRUE
  /\ UNCHANGED <<portal, table, bookmark, passNow, state, live, datedReads, blindStart, doubtedAt>>

\* chatGoneLimit
GoneLimit(n) == IF FewGone > (n + 1) \div 2 THEN FewGone ELSE (n + 1) \div 2

\* Mutant: a hold waits for its confirmation for ever.
ConfirmingEver == controlled \/ state.heldAt # None

Confirming == controlled \/ (state.heldAt # None /\ passNow - state.heldAt <= HoldFor)

Gone == InWindow \ live

\* chatsGone
Holds == ~Confirming /\ Cardinality(Gone) > GoneLimit(Cardinality(InWindow))

Replace ==
  /\ stage = "replace" /\ stage' = "write"
  /\ table' = IF Holds THEN table \cup live ELSE live
  /\ state' = [state EXCEPT !.heldAt = IF Holds THEN passNow ELSE None]
  /\ doubtedAt' = (IF Holds THEN passNow ELSE doubtedAt)
  /\ UNCHANGED <<portal, bookmark, passNow, live, datedReads, blindStart, controlled>>

EndChats ==
  /\ stage' = "idle" /\ passNow' = 0 /\ state' = NoState /\ live' = {} /\ controlled' = FALSE

WriteChats ==
  /\ stage = "write" /\ EndChats
  /\ bookmark' = state
  /\ UNCHANGED <<portal, table, datedReads, blindStart, doubtedAt>>

\* A read or a write fails, or the process dies.
ChatsFail ==
  /\ stage # "idle" /\ EndChats
  /\ UNCHANGED <<portal, table, bookmark, datedReads, blindStart, doubtedAt>>

ChatsNext ==
  \/ OpenChat \/ CloseChat \/ Permission \/ Instant
  \/ BeginChats \/ SayDated \/ DatedRead \/ HeadFloor \/ Anchor
  \/ FetchChats \/ Control \/ Replace \/ WriteChats \/ ChatsFail

ChatsSpec == ChatsInit /\ [][ChatsNext]_chatVars

-------------------------------------------------------------------------------
(* Properties. *)

ChatsTypeOK ==
  /\ instant \in (ChatWindow + 1)..LastInstant /\ head \in {2 * instant, ChatAt(instant)}
  /\ talking \cup table \cup live \subseteq 0..head /\ passNow \in 0..instant
  /\ \A s \in {bookmark, state} :
       /\ s.floor \in {None} \cup 0..head /\ s.dated \in BOOLEAN
       /\ \A a \in s.anchors : a.id \in 0..head /\ a.at \in 0..instant
       /\ \A a, b \in s.anchors : a # b =>
            \/ a.at + AnchorEvery <= b.at /\ a.id <= b.id
            \/ b.at + AnchorEvery <= a.at /\ b.id <= a.id
       /\ s.heldAt \in {None} \cup 0..instant
  /\ stage \in {"idle", "floor", "dated", "head", "anchor", "fetch", "control", "replace", "write"}

(***************************************************************************)
(* The dated read is sent once in a database's life, whatever comes of it  *)
(* and whenever the process dies.                                          *)
(***************************************************************************)
DatedReadOnce == datedReads <= 1

(***************************************************************************)
(* A chat opened within the window, less the time a pass takes, is watched *)
(* while it is open: the floor does not pass it, however long the anchors  *)
(* were refused and whichever of them was lost with the pass that read it. *)
(***************************************************************************)
DayIsWatched ==
  stage = "fetch" => \A c \in talking :
    OpenedAt(c) > passNow - ChatWindow + PassTime /\ c > blindStart => c \in OpenAbove

(***************************************************************************)
(* The open chats are looked for from the right floor: one dated read      *)
(* ever, and anchors that never climb past a chat of the window.           *)
(***************************************************************************)
WatchIsKept == DatedReadOnce /\ DayIsWatched

Deletes == stage = "replace" /\ ~(table \subseteq table')

(***************************************************************************)
(* More of the chats than close in two minutes go only when the control    *)
(* read sees the lines, or another answer was doubted within HoldFor: no   *)
(* answer cut short empties the table by itself, wherever passes fail.     *)
(***************************************************************************)
OneAnswerIsDoubted ==
  [][Deletes /\ Cardinality(Gone) > GoneLimit(Cardinality(InWindow))
     => controlled \/ (doubtedAt # None /\ passNow - doubtedAt <= HoldFor)]_chatVars

(***************************************************************************)
(* Who cannot see the lines closes no chat: while the permission is gone   *)
(* the chats of the window stay in the table, however many passes run.     *)
(***************************************************************************)
BlindnessKeepsChats ==
  [][~sighted /\ stage = "replace" => InWindow \subseteq table']_chatVars

(***************************************************************************)
(* An answer empties the table only on evidence: not a large one doubted   *)
(* by nobody, and none that the permission was missing for.                *)
(***************************************************************************)
ChatsCloseOnEvidence == OneAnswerIsDoubted /\ BlindnessKeepsChats

===============================================================================
