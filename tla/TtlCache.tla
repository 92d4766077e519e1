------------------------------- MODULE TtlCache -------------------------------
(***************************************************************************)
(* One key of a ttlCache: readers (get), a warmer that may own the key     *)
(* (refresh), and the builds they start.  Code between two awaits is one   *)
(* action.  Builds are numbered in the order they start, 0 being none;     *)
(* an answer is the build it came from.  clear is for tests.               *)
(***************************************************************************)
EXTENDS Integers, FiniteSets

CONSTANTS
  Ttl, OwnTtl,  \* ttlMs, of the cache and of the warmer.
  Stale,        \* staleMs
  MaxBuilds     \* Bound: builds started.

ASSUME CacheAssumption ==
  /\ Ttl \in Nat \ {0} /\ OwnTtl \in Nat \ {0} /\ Stale \in Nat
  /\ MaxBuilds \in Nat

VARIABLES
  \* The entry in the map:
  held,       \* The build whose promise is its value.
  age,        \* Time since "at".
  own,        \* Whether its ttl is the warmer's.
  rebuilding, \* The build whose promise is its rebuilding.
  settled,
  copied,     \* Whether the entry is a copy the warmer made.
  \* The builds:
  started,    \* How many.
  phase,      \* phase[b]: a first build or a rebuild that runs, or how it ended.
  mine,       \* Builds that run for the very object in the map.
  landsOwn,   \* Rebuilds the warmer started.
  joined      \* Builds the warmer has found running, and awaits.

entry == <<held, age, own, rebuilding, settled, copied>>
vars == <<entry, started, phase, mine, landsOwn, joined>>

Build == 1..MaxBuilds

Init ==
  /\ held = 0 /\ age = 0 /\ own = FALSE /\ rebuilding = 0 /\ settled = FALSE
  /\ copied = FALSE
  /\ started = 0 /\ phase = [b \in Build |-> "none"]
  /\ mine = {} /\ landsOwn = {} /\ joined = {}

TtlOf == IF own THEN OwnTtl ELSE Ttl
Good == held # 0 /\ age < TtlOf
Showable == held # 0 /\ age < TtlOf + Stale
TooOld == ~Showable

\* Bound: past the longest ttl and the grace, older is the same.
MaxAge == (IF OwnTtl > Ttl THEN OwnTtl ELSE Ttl) + Stale

Start(b, kind) ==
  /\ b = started + 1 /\ b <= MaxBuilds
  /\ started' = b
  /\ phase' = [phase EXCEPT ![b] = kind]

\* fresh
StartFirst(b, ownTtl) ==
  /\ Start(b, "first")
  /\ held' = b /\ age' = 0 /\ own' = ownTtl /\ settled' = FALSE /\ copied' = FALSE
  /\ rebuilding' = IF Stale > 0 THEN b ELSE 0
  /\ mine' = {b}
  /\ UNCHANGED <<landsOwn, joined>>

\* rebuild, when none is there to share.
StartRebuild(b, ownTtl) ==
  /\ Start(b, "rebuild")
  /\ rebuilding' = b
  /\ mine' = mine \cup {b}
  /\ landsOwn' = IF ownTtl THEN landsOwn \cup {b} ELSE landsOwn
  /\ UNCHANGED <<held, age, own, settled, copied, joined>>

-------------------------------------------------------------------------------
(* Readers, and a warmer that owns nothing: what the rest of get and       *)
(* refresh do is hand out or await a promise.                              *)

Behind(b) ==
  /\ Showable /\ ~Good /\ rebuilding = 0
  /\ StartRebuild(b, FALSE)

Miss(b) ==
  /\ TooOld
  /\ StartFirst(b, FALSE)

Get(b) == Behind(b) \/ Miss(b)

\* Mutant: the sweep takes an entry that is being rebuilt.
SweepAll ==
  /\ held # 0 /\ TooOld
  /\ held' = 0 /\ age' = 0 /\ own' = FALSE /\ rebuilding' = 0 /\ settled' = FALSE /\ copied' = FALSE
  /\ mine' = {}
  /\ UNCHANGED <<started, phase, landsOwn, joined>>

\* A miss on any other key sweeps this one.
Sweep ==
  /\ held # 0 /\ TooOld /\ rebuilding = 0
  /\ held' = 0 /\ age' = 0 /\ own' = FALSE /\ settled' = FALSE /\ copied' = FALSE
  /\ mine' = {}
  /\ UNCHANGED <<rebuilding, started, phase, landsOwn, joined>>

-------------------------------------------------------------------------------
(* The warmer that owns the key. *)

\* The promise an owned refresh awaits.
Awaited == IF rebuilding # 0 THEN rebuilding ELSE held

\* The entry is replaced by a copy with the warmer's ttl: no build that runs
\* knows the copy.
RefreshJoins ==
  /\ held # 0 /\ (~settled \/ rebuilding # 0)
  /\ CASE phase[Awaited] \in {"first", "rebuild"} ->
            joined' = joined \cup {Awaited} /\ UNCHANGED <<own, copied, mine>>
       [] phase[Awaited] = "ok" ->
            own' = TRUE /\ copied' = TRUE /\ mine' = {} /\ UNCHANGED joined
       [] OTHER -> UNCHANGED <<own, copied, mine, joined>>
  /\ UNCHANGED <<held, age, rebuilding, settled, started, phase, landsOwn>>

RefreshStarts(b) ==
  \/ held = 0 /\ StartFirst(b, TRUE)
  \/ held # 0 /\ settled /\ rebuilding = 0 /\ StartRebuild(b, TRUE)

OwnedRefresh == RefreshJoins \/ \E b \in Build : RefreshStarts(b)

-------------------------------------------------------------------------------
(* The end of a build. *)

\* Mutant: a rebuild lands whatever the map holds by then.
LandsAnywhere(b) == phase[b] = "rebuild"

\* A rebuild lands only on the entry it was started for.
Lands(b) == phase[b] = "rebuild" /\ b \in mine

BuildEnds(b, how) ==
  /\ phase[b] \in {"first", "rebuild"}
  /\ phase' = [phase EXCEPT ![b] = how]
  /\ joined' = joined \ {b}
  /\ UNCHANGED <<started, landsOwn>>

BuildOk(b) ==
  LET copies == b \in joined /\ held' # 0 IN
  /\ BuildEnds(b, "ok")
  /\ held' = IF Lands(b) THEN b ELSE held
  /\ age' = IF Lands(b) THEN 0 ELSE age
  /\ own' = (copies \/ IF Lands(b) THEN b \in landsOwn ELSE own)
  /\ copied' = (copies \/ (copied /\ ~Lands(b)))
  /\ IF Lands(b) \/ b \in mine
     THEN rebuilding' = 0 /\ settled' = TRUE
     ELSE UNCHANGED <<rebuilding, settled>>
  /\ mine' = IF copies \/ Lands(b) THEN {} ELSE mine \ {b}

\* Mutant: only the object the build was started for is looked for.
FirstFailsByObject(b) ==
  /\ phase[b] = "first"
  /\ BuildEnds(b, "failed")
  /\ IF b \in mine
     THEN /\ held' = 0 /\ age' = 0 /\ own' = FALSE /\ rebuilding' = 0 /\ settled' = FALSE /\ copied' = FALSE
          /\ mine' = {}
     ELSE UNCHANGED <<entry, mine>>

\* Its entry goes, unless a later one has taken its place.
FirstFails(b) ==
  /\ phase[b] = "first"
  /\ BuildEnds(b, "failed")
  /\ IF held = b
     THEN /\ held' = 0 /\ age' = 0 /\ own' = FALSE /\ rebuilding' = 0 /\ settled' = FALSE /\ copied' = FALSE
          /\ mine' = {}
     ELSE UNCHANGED <<entry, mine>>

\* The old answer stays, and may be rebuilt again.
RebuildFails(b) ==
  /\ phase[b] = "rebuild"
  /\ BuildEnds(b, "failed")
  /\ rebuilding' = IF b \in mine THEN 0 ELSE rebuilding
  /\ mine' = mine \ {b}
  /\ UNCHANGED <<held, age, own, settled, copied>>

Tick ==
  /\ held # 0 /\ age < MaxAge
  /\ age' = age + 1
  /\ UNCHANGED <<held, own, rebuilding, settled, copied, started, phase, mine, landsOwn, joined>>

Next ==
  \/ Tick \/ Sweep \/ OwnedRefresh
  \/ \E b \in Build : Get(b) \/ BuildOk(b) \/ FirstFails(b) \/ RebuildFails(b)

Spec == Init /\ [][Next]_vars

-------------------------------------------------------------------------------
(* Properties. *)

Running == {b \in Build : phase[b] \in {"first", "rebuild"}}

TypeOK ==
  /\ held \in 0..started /\ rebuilding \in 0..started /\ started \in 0..MaxBuilds
  /\ age \in 0..MaxAge /\ own \in BOOLEAN /\ settled \in BOOLEAN /\ copied \in BOOLEAN
  /\ phase \in [Build -> {"none", "first", "rebuild", "ok", "failed"}]
  /\ mine \subseteq Running /\ joined \subseteq Running /\ landsOwn \subseteq Build
  /\ held = 0 => rebuilding = 0

(***************************************************************************)
(* A rejection is never cached, whichever build of several ends first, and *)
(* whatever the warmer copied meanwhile.                                   *)
(***************************************************************************)
NoRejectionIsHeld == held # 0 => phase[held] \in {"first", "ok"}

(***************************************************************************)
(* An answer is replaced only by one whose build started later: a build    *)
(* that took long never brings old numbers back.                           *)
(***************************************************************************)
AnswersMoveForward == [][held' \in {0, held} \/ held' > held]_vars

(***************************************************************************)
(* While an answer may still be shown, only a good answer takes its place: *)
(* no failure of a build, of its own or of another, takes it away.         *)
(***************************************************************************)
ShowableIsKept ==
  [][Showable /\ phase[held] = "ok" /\ held' # held => held' # 0 /\ phase'[held'] = "ok"]_vars

(***************************************************************************)
(* Readers never lose by a change of the entry: no older numbers come      *)
(* back, and no good answer that may be shown goes for a failure.          *)
(***************************************************************************)
AnswersAreKept == AnswersMoveForward /\ ShowableIsKept

(***************************************************************************)
(* What the newest build brings is what readers are shown, unless the      *)
(* warmer has copied the entry: it is dropped for none that started before *)
(* it, and not by the sweep.                                               *)
(***************************************************************************)
NewestLands ==
  [][\A b \in Build :
       phase[b] = "rebuild" /\ phase'[b] = "ok" /\ b = started /\ ~copied => held' = b]_vars

Offers == held # 0 /\ (~settled \/ rebuilding # 0)

(***************************************************************************)
(* A build that an entry offers to share runs, and will take the offer     *)
(* back when it ends, however it ends (get rebuilds once per expiry).      *)
(***************************************************************************)
OffersAreLive == Offers /\ ~copied => Awaited \in Running /\ Awaited \in mine

(***************************************************************************)
(* What the map holds may be handed out: an answer or a build that runs,   *)
(* and the build an entry offers to share is one that will take the offer  *)
(* back, whatever expired, failed or was copied meanwhile (get, rebuild,   *)
(* refresh).                                                               *)
(***************************************************************************)
EntriesAreSound == NoRejectionIsHeld /\ OffersAreLive

(***************************************************************************)
(* Nobody awaits a promise settled long ago instead of building: refresh   *)
(* with owned "always rebuilds (joining one already running)".             *)
(***************************************************************************)
JoinedBuildRuns == Offers => Awaited \in Running

===============================================================================
