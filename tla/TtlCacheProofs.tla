--------------------------- MODULE TtlCacheProofs ---------------------------
(***************************************************************************)
(* What readers of a ttlCache may count on, for every ttl, whoever owns    *)
(* the key and however long each build takes.                              *)
(***************************************************************************)
EXTENDS TtlCache, TLAPS

\* A rebuild that may still land started after the answer it would replace.
RebuildsAreNewer == \A b \in mine : phase[b] = "rebuild" => b > held

\* A first build that knows the entry is its value.
FirstsAreHeld == \A b \in mine : phase[b] = "first" => held = b

\* A build that has not started has not ended.
BuildsStartInOrder == \A b \in Build : b > started => phase[b] = "none"

\* What an entry that is no copy offers, it was told of.
OffersAreKnown ==
  held # 0 /\ ~copied =>
    /\ settled \/ held \in mine
    /\ rebuilding = 0 \/ rebuilding \in mine

CacheInv ==
  /\ TypeOK /\ BuildsStartInOrder /\ NoRejectionIsHeld
  /\ RebuildsAreNewer /\ FirstsAreHeld /\ OffersAreKnown

LEMMA MaxAgeNat == MaxAge \in Nat
  BY CacheAssumption DEF MaxAge

LEMMA InitInv == Init => CacheInv
<1> SUFFICES ASSUME Init PROVE CacheInv
  OBVIOUS
<1> USE DEF Init
<1>1. started \in 0..MaxBuilds /\ held \in 0..started /\ rebuilding \in 0..started
  BY CacheAssumption
<1>2. age \in 0..MaxAge
  BY MaxAgeNat
<1>3. TypeOK
  BY <1>1, <1>2 DEF TypeOK, Running
<1> QED
  BY <1>3 DEF CacheInv, BuildsStartInOrder, NoRejectionIsHeld, RebuildsAreNewer, FirstsAreHeld,
              OffersAreKnown

\* What a build that starts does to the counters.
LEMMA StartFacts ==
  ASSUME CacheInv, NEW b \in Build, NEW kind \in {"first", "rebuild"}, Start(b, kind)
  PROVE  /\ b > held /\ b > started /\ b \in Nat \ {0}
         /\ started' = b /\ started' \in 0..MaxBuilds
         /\ 0..started \subseteq 0..started' /\ b \in 0..started' /\ 0 \in 0..started'
         /\ phase' \in [Build -> {"none", "first", "rebuild", "ok", "failed"}]
         /\ phase'[b] = kind /\ \A c \in Build \ {b} : phase'[c] = phase[c]
         /\ BuildsStartInOrder'
         /\ Running' = Running \cup {b}
<1>1. b > started /\ b > held /\ b \in Nat \ {0} /\ started' = b /\ started' \in 0..MaxBuilds
  BY CacheAssumption DEF CacheInv, TypeOK, Start, Build
<1>2. 0..started \subseteq 0..started' /\ b \in 0..started' /\ 0 \in 0..started'
  BY <1>1 DEF CacheInv, TypeOK
<1>3. /\ phase' \in [Build -> {"none", "first", "rebuild", "ok", "failed"}]
      /\ phase'[b] = kind /\ \A c \in Build \ {b} : phase'[c] = phase[c]
  BY DEF CacheInv, TypeOK, Start
<1>4. BuildsStartInOrder'
  BY <1>1, <1>3, CacheAssumption DEF CacheInv, TypeOK, BuildsStartInOrder, Build
<1>5. Running' = Running \cup {b}
  BY <1>3 DEF Running
<1> QED BY <1>1, <1>2, <1>3, <1>4, <1>5

LEMMA StartFirstInv ==
  ASSUME CacheInv, NEW b \in Build, NEW o \in BOOLEAN, StartFirst(b, o)
  PROVE  CacheInv' /\ held' = b /\ b > held
<1>1. Start(b, "first")
  BY DEF StartFirst
<1>2. b > held /\ b # 0 /\ BuildsStartInOrder' /\ phase'[b] = "first"
  BY <1>1, StartFacts
<1>3. held' \in 0..started' /\ rebuilding' \in 0..started' /\ started' \in 0..MaxBuilds
  BY <1>1, StartFacts DEF StartFirst
<1>4. mine' \subseteq Running' /\ joined' \subseteq Running' /\ landsOwn' \subseteq Build
  BY <1>1, StartFacts DEF StartFirst, CacheInv, TypeOK
<1>5. TypeOK'
  <2>1. age' \in 0..MaxAge
    BY MaxAgeNat DEF StartFirst
  <2>2. phase' \in [Build -> {"none", "first", "rebuild", "ok", "failed"}]
    BY <1>1, StartFacts
  <2>3. own' \in BOOLEAN /\ settled' \in BOOLEAN /\ copied' \in BOOLEAN /\ held' # 0
    BY <1>2 DEF StartFirst
  <2> QED BY <1>3, <1>4, <2>1, <2>2, <2>3 DEF TypeOK
<1>6. NoRejectionIsHeld' /\ RebuildsAreNewer' /\ FirstsAreHeld' /\ OffersAreKnown'
  BY <1>2 DEF StartFirst, NoRejectionIsHeld, RebuildsAreNewer, FirstsAreHeld, OffersAreKnown
<1> QED BY <1>2, <1>5, <1>6 DEF CacheInv, StartFirst

LEMMA StartRebuildInv ==
  ASSUME CacheInv, NEW b \in Build, NEW o \in BOOLEAN, StartRebuild(b, o), held # 0
  PROVE  CacheInv' /\ held' = held
<1>1. Start(b, "rebuild") /\ held' = held
  BY DEF StartRebuild
<1>2. b > held /\ BuildsStartInOrder' /\ held # b
  BY <1>1, StartFacts
<1>3. held' \in 0..started' /\ rebuilding' \in 0..started' /\ started' \in 0..MaxBuilds
  BY <1>1, StartFacts DEF StartRebuild, CacheInv, TypeOK
<1>4. mine' \subseteq Running' /\ joined' \subseteq Running' /\ landsOwn' \subseteq Build
  BY <1>1, StartFacts DEF StartRebuild, CacheInv, TypeOK
<1>5. TypeOK'
  <2>1. phase' \in [Build -> {"none", "first", "rebuild", "ok", "failed"}]
    BY <1>1, StartFacts
  <2>2. /\ age' \in 0..MaxAge /\ own' \in BOOLEAN /\ settled' \in BOOLEAN
        /\ copied' \in BOOLEAN /\ held' # 0
    BY DEF StartRebuild, CacheInv, TypeOK
  <2> QED BY <1>3, <1>4, <2>1, <2>2 DEF TypeOK
<1>6. \A c \in Build \ {b} : phase'[c] = phase[c]
  BY <1>1, StartFacts
<1>7. held \in Build
  BY CacheAssumption DEF CacheInv, TypeOK, Build
<1>8. NoRejectionIsHeld'
  BY <1>1, <1>2, <1>6, <1>7 DEF NoRejectionIsHeld, CacheInv
<1>9. RebuildsAreNewer' /\ FirstsAreHeld'
  <2>1. mine \subseteq Build
    BY DEF CacheInv, TypeOK, Running
  <2> QED
    BY <1>1, <1>2, <1>6, <2>1, StartFacts DEF RebuildsAreNewer, FirstsAreHeld, CacheInv, StartRebuild
<1>10. OffersAreKnown'
  BY DEF StartRebuild, OffersAreKnown, CacheInv
<1> QED BY <1>1, <1>2, <1>5, <1>8, <1>9, <1>10 DEF CacheInv

LEMMA RefreshJoinsInv ==
  ASSUME CacheInv, RefreshJoins
  PROVE  CacheInv' /\ held' = held
<1> USE DEF CacheInv, TypeOK, RefreshJoins
<1>1. Awaited \in Build
  BY CacheAssumption DEF Awaited, Build
<1>2. TypeOK'
  BY <1>1, MaxAgeNat DEF Running
<1>3. BuildsStartInOrder' /\ NoRejectionIsHeld' /\ RebuildsAreNewer' /\ FirstsAreHeld'
  BY DEF BuildsStartInOrder, NoRejectionIsHeld, RebuildsAreNewer, FirstsAreHeld
<1>4. OffersAreKnown'
  BY DEF OffersAreKnown
<1> QED BY <1>2, <1>3, <1>4

\* What the end of a build does to the others.
LEMMA EndFacts ==
  ASSUME CacheInv, NEW b \in Build, NEW how \in {"ok", "failed"}, BuildEnds(b, how)
  PROVE  /\ b <= started /\ b \in 0..started /\ b # 0
         /\ phase' \in [Build -> {"none", "first", "rebuild", "ok", "failed"}]
         /\ phase'[b] = how /\ \A c \in Build \ {b} : phase'[c] = phase[c]
         /\ BuildsStartInOrder'
         /\ Running' = Running \ {b}
         /\ joined' \subseteq Running' /\ landsOwn' \subseteq Build
         /\ started' = started
<1>1. /\ phase' \in [Build -> {"none", "first", "rebuild", "ok", "failed"}]
      /\ phase'[b] = how /\ \A c \in Build \ {b} : phase'[c] = phase[c]
      /\ started' = started
  BY DEF CacheInv, TypeOK, BuildEnds
<1>2. b <= started /\ b \in 0..started /\ b # 0
  BY CacheAssumption DEF CacheInv, TypeOK, BuildEnds, BuildsStartInOrder, Build
<1>3. BuildsStartInOrder'
  BY <1>1, <1>2, CacheAssumption DEF CacheInv, TypeOK, BuildsStartInOrder, Build
<1>4. Running' = Running \ {b}
  BY <1>1 DEF Running
<1>5. joined' \subseteq Running' /\ landsOwn' \subseteq Build
  BY <1>4 DEF CacheInv, TypeOK, BuildEnds
<1> QED BY <1>1, <1>2, <1>3, <1>4, <1>5

LEMMA BuildOkInv ==
  ASSUME CacheInv, NEW b \in Build, BuildOk(b)
  PROVE  /\ CacheInv'
         /\ held' = held \/ (held' = b /\ b > held /\ phase'[held'] = "ok")
<1>1. BuildEnds(b, "ok")
  BY DEF BuildOk
<1>2. /\ held' = IF Lands(b) THEN b ELSE held
      /\ age' = IF Lands(b) THEN 0 ELSE age
      /\ rebuilding' \in {0, rebuilding} /\ settled' \in {TRUE, settled} /\ own' \in BOOLEAN
      /\ copied' \in BOOLEAN
      /\ mine' \subseteq mine \ {b} /\ (mine' = {} \/ held' = held)
  BY DEF BuildOk, CacheInv, TypeOK
<1>3. held' = held \/ (held' = b /\ b > held /\ phase'[held'] = "ok")
  BY <1>1, <1>2, EndFacts DEF Lands, CacheInv, RebuildsAreNewer
<1>4. TypeOK'
  <2>1. held' \in 0..started' /\ rebuilding' \in 0..started' /\ started' \in 0..MaxBuilds
    BY <1>1, <1>2, EndFacts DEF CacheInv, TypeOK
  <2>2. own' \in BOOLEAN /\ settled' \in BOOLEAN /\ copied' \in BOOLEAN
    BY <1>2 DEF CacheInv, TypeOK
  <2>5. age' \in 0..MaxAge
    BY <1>2, MaxAgeNat DEF CacheInv, TypeOK
  <2>3. mine' \subseteq Running'
    BY <1>1, <1>2, EndFacts DEF CacheInv, TypeOK
  <2>4. held' = 0 => rebuilding' = 0
    BY <1>1, <1>2, EndFacts DEF CacheInv, TypeOK
  <2> QED BY <1>1, <2>1, <2>2, <2>3, <2>4, <2>5, EndFacts DEF TypeOK
<1>5. NoRejectionIsHeld'
  <2>1. held # 0 => held \in Build
    BY CacheAssumption DEF CacheInv, TypeOK, Build
  <2> QED BY <1>1, <1>3, <2>1, EndFacts DEF NoRejectionIsHeld, CacheInv
<1>6. RebuildsAreNewer' /\ FirstsAreHeld'
  <2>1. mine \subseteq Build
    BY DEF CacheInv, TypeOK, Running
  <2> QED BY <1>1, <1>2, <2>1, EndFacts DEF RebuildsAreNewer, FirstsAreHeld, CacheInv
<1>7. OffersAreKnown'
  <2>1. CASE b \in mine
    BY <2>1 DEF BuildOk, OffersAreKnown
  <2>2. CASE b \notin mine
    <3>1. ~Lands(b)
      BY <2>2 DEF Lands
    <3> QED BY <2>2, <3>1 DEF BuildOk, OffersAreKnown, CacheInv
  <2> QED BY <2>1, <2>2
<1> QED BY <1>1, <1>3, <1>4, <1>5, <1>6, <1>7, EndFacts DEF CacheInv

\* A failure takes away the entry it is the value of, and no other.
LEMMA BuildFailsInv ==
  ASSUME CacheInv, NEW b \in Build, FirstFails(b) \/ RebuildFails(b)
  PROVE  CacheInv' /\ (held' = held \/ (held' = 0 /\ phase[held] = "first"))
<1>1. BuildEnds(b, "failed")
  BY DEF FirstFails, RebuildFails
<1>2. /\ \/ held' = held /\ age' = age
         \/ held' = 0 /\ age' = 0 /\ rebuilding' = 0 /\ held = b /\ phase[b] = "first"
      /\ rebuilding' \in {0, rebuilding} /\ settled' \in {FALSE, settled} /\ own' \in {FALSE, own}
      /\ copied' \in {FALSE, copied}
      /\ mine' = {} \/ (held' = held /\ mine' \subseteq mine)
  BY DEF FirstFails, RebuildFails, entry
<1>3. held' = held => held' # b
  BY <1>1, EndFacts DEF FirstFails, RebuildFails, CacheInv, NoRejectionIsHeld
<1>4. mine' \subseteq Running'
  <2>1. b \notin mine'
    BY <1>1, <1>2, EndFacts DEF FirstFails, RebuildFails, BuildEnds, CacheInv, FirstsAreHeld
  <2> QED BY <1>1, <1>2, <2>1, EndFacts DEF CacheInv, TypeOK
<1>5. TypeOK'
  <2>1. held' \in 0..started' /\ rebuilding' \in 0..started' /\ started' \in 0..MaxBuilds
    BY <1>1, <1>2, EndFacts DEF CacheInv, TypeOK
  <2>2. own' \in BOOLEAN /\ settled' \in BOOLEAN /\ copied' \in BOOLEAN
    BY <1>2 DEF CacheInv, TypeOK
  <2>3. age' \in 0..MaxAge
    BY <1>2, MaxAgeNat DEF CacheInv, TypeOK
  <2>4. held' = 0 => rebuilding' = 0
    BY <1>2 DEF CacheInv, TypeOK
  <2> QED BY <1>1, <1>4, <2>1, <2>2, <2>3, <2>4, EndFacts DEF TypeOK
<1>6. NoRejectionIsHeld'
  <2>1. held # 0 => held \in Build
    BY CacheAssumption DEF CacheInv, TypeOK, Build
  <2> QED BY <1>1, <1>2, <1>3, <2>1, EndFacts DEF NoRejectionIsHeld, CacheInv
<1>7. RebuildsAreNewer' /\ FirstsAreHeld'
  <2>1. mine \subseteq Build
    BY DEF CacheInv, TypeOK, Running
  <2> QED
    BY <1>1, <1>2, <2>1, EndFacts DEF RebuildsAreNewer, FirstsAreHeld, CacheInv
<1>8. OffersAreKnown'
  <2>1. CASE FirstFails(b)
    BY <2>1 DEF FirstFails, OffersAreKnown, CacheInv, FirstsAreHeld, entry
  <2>2. CASE RebuildFails(b)
    <3>1. b \in mine => held # b
      BY <2>2 DEF RebuildFails, CacheInv, RebuildsAreNewer, TypeOK
    <3> QED BY <2>2, <3>1 DEF RebuildFails, OffersAreKnown, CacheInv
  <2> QED BY <2>1, <2>2
<1> QED BY <1>1, <1>2, <1>5, <1>6, <1>7, <1>8, EndFacts DEF CacheInv

LEMMA AgeingInv ==
  ASSUME CacheInv, Tick \/ Sweep \/ UNCHANGED vars
  PROVE  CacheInv' /\ (held' = held \/ held' = 0)
<1> USE DEF CacheInv, TypeOK, Tick, Sweep, vars, entry
<1>1. TypeOK'
  <2>1. CASE Tick
    BY <2>1, MaxAgeNat DEF Running
  <2>2. CASE Sweep
    <3>1. age' \in 0..MaxAge /\ held' \in 0..started'
      BY <2>2, MaxAgeNat
    <3>2. mine' \subseteq Running' /\ joined' \subseteq Running'
      BY <2>2 DEF Running
    <3> QED BY <2>2, <3>1, <3>2
  <2>3. CASE UNCHANGED vars
    BY <2>3 DEF Running
  <2> QED BY <2>1, <2>2, <2>3
<1>2. BuildsStartInOrder' /\ NoRejectionIsHeld' /\ RebuildsAreNewer' /\ FirstsAreHeld'
  BY DEF BuildsStartInOrder, NoRejectionIsHeld, RebuildsAreNewer, FirstsAreHeld
<1>3. OffersAreKnown'
  BY DEF OffersAreKnown
<1> QED BY <1>1, <1>2, <1>3

\* What a step may do to the answer held.
Replaced ==
  \/ held' = held
  \/ held' = 0 /\ (TooOld \/ phase[held] # "ok")
  \/ held' > held /\ (TooOld \/ phase'[held'] = "ok")

LEMMA StepInv == CacheInv /\ [Next]_vars => CacheInv' /\ Replaced
<1> SUFFICES ASSUME CacheInv, [Next]_vars PROVE CacheInv' /\ Replaced
  OBVIOUS
<1>1. CASE Tick \/ Sweep \/ UNCHANGED vars
  BY <1>1, AgeingInv DEF Replaced, Tick, Sweep, vars, entry
<1>2. CASE RefreshJoins
  BY <1>2, RefreshJoinsInv DEF Replaced
<1>3. ASSUME NEW b \in Build, RefreshStarts(b)
      PROVE  CacheInv' /\ Replaced
  <2>1. CASE StartFirst(b, TRUE) /\ held = 0
    BY <2>1, StartFirstInv DEF Replaced, TooOld, Showable
  <2>2. CASE StartRebuild(b, TRUE) /\ held # 0
    BY <2>2, StartRebuildInv DEF Replaced
  <2> QED BY <1>3, <2>1, <2>2 DEF RefreshStarts
<1>4. ASSUME NEW b \in Build, Get(b)
      PROVE  CacheInv' /\ Replaced
  <2>1. CASE Miss(b)
    BY <2>1, StartFirstInv DEF Replaced, Miss
  <2>2. CASE Behind(b)
    BY <2>2, StartRebuildInv DEF Replaced, Behind, Showable
  <2> QED BY <1>4, <2>1, <2>2 DEF Get
<1>5. ASSUME NEW b \in Build, BuildOk(b)
      PROVE  CacheInv' /\ Replaced
  BY <1>5, BuildOkInv DEF Replaced
<1>6. ASSUME NEW b \in Build, FirstFails(b) \/ RebuildFails(b)
      PROVE  CacheInv' /\ Replaced
  BY <1>6, BuildFailsInv DEF Replaced
<1> QED BY <1>1, <1>2, <1>3, <1>4, <1>5, <1>6 DEF Next, OwnedRefresh

LEMMA CacheInvHolds == Spec => []CacheInv
  BY InitInv, StepInv, PTL DEF Spec

(***************************************************************************)
(* The fields of an entry, and the builds that know it, have their types   *)
(* (ttlCache's Entry).                                                     *)
(***************************************************************************)
THEOREM CacheTypeCorrect == Spec => []TypeOK
<1>1. CacheInv => TypeOK
  BY DEF CacheInv
<1> QED BY CacheInvHolds, <1>1, PTL

(***************************************************************************)
(* No reader is handed a rejection kept from an earlier build (fresh, and  *)
(* its comparison of the promise it would evict).                          *)
(***************************************************************************)
THEOREM NoRejectionIsHeldAlways == Spec => []NoRejectionIsHeld
<1>1. CacheInv => NoRejectionIsHeld
  BY DEF CacheInv
<1> QED BY CacheInvHolds, <1>1, PTL

(***************************************************************************)
(* A build on offer in an entry that get or refresh built runs, and knows  *)
(* the entry (fresh and rebuild, which take their offer back at the end).  *)
(***************************************************************************)
THEOREM OffersAreLiveAlways == Spec => []OffersAreLive
<1>1. CacheInv => OffersAreLive
  BY DEF CacheInv, TypeOK, OffersAreKnown, OffersAreLive, Offers, Awaited
<1> QED BY CacheInvHolds, <1>1, PTL

(***************************************************************************)
(* A slow build never brings old numbers back (rebuild, which lands only   *)
(* on the entry it was started for).                                       *)
(***************************************************************************)
THEOREM AnswersMoveForwardHolds == Spec => AnswersMoveForward
<1>1. CacheInv /\ [Next]_vars => [held' \in {0, held} \/ held' > held]_vars
  BY StepInv DEF Replaced
<1> QED BY CacheInvHolds, <1>1, PTL DEF Spec, AnswersMoveForward

(***************************************************************************)
(* A failure never takes away an answer that may still be shown.           *)
(***************************************************************************)
THEOREM ShowableIsKeptHolds == Spec => ShowableIsKept
<1>1. CacheInv /\ [Next]_vars =>
        [Showable /\ phase[held] = "ok" /\ held' # held => held' # 0 /\ phase'[held'] = "ok"]_vars
  <2> SUFFICES ASSUME CacheInv, [Next]_vars, Showable, phase[held] = "ok", held' # held
               PROVE  held' # 0 /\ phase'[held'] = "ok"
    OBVIOUS
  <2>1. held \in Nat
    BY DEF CacheInv, TypeOK
  <2> QED BY StepInv, <2>1 DEF Replaced, TooOld
<1> QED BY CacheInvHolds, <1>1, PTL DEF Spec, ShowableIsKept

(***************************************************************************)
(* No reader is handed a rejection or a build that ended, for any ttl,     *)
(* grace and number of builds.                                             *)
(***************************************************************************)
THEOREM EntriesAreSoundAlways == Spec => []EntriesAreSound
BY NoRejectionIsHeldAlways, OffersAreLiveAlways, PTL DEF EntriesAreSound

(***************************************************************************)
(* No change of an entry costs its readers anything, for any ttl, grace    *)
(* and number of builds.                                                   *)
(***************************************************************************)
THEOREM AnswersAreKeptAlways == Spec => AnswersAreKept
BY AnswersMoveForwardHolds, ShowableIsKeptHolds, PTL DEF AnswersAreKept

\* A rebuild that knows the entry is the one it waits for.
OneRebuild == \A b \in mine : phase[b] = "rebuild" => rebuilding = b

\* No build starts behind a first one.
FirstIsNewest ==
  held # 0 /\ phase[held] = "first" => started = held /\ ~settled /\ (Stale = 0 \/ rebuilding = held)

\* The newest build, when it is a rebuild, is the one the entry waits for.
NewestIsAwaited ==
  started # 0 /\ phase[started] = "rebuild" =>
    held # 0 /\ rebuilding = started /\ (copied \/ started \in mine)

NewestInv == CacheInv /\ OneRebuild /\ FirstIsNewest /\ NewestIsAwaited

LEMMA NewestInvInit == Init => NewestInv
BY InitInv DEF NewestInv, OneRebuild, FirstIsNewest, NewestIsAwaited, Init

\* Of a step, what the newest build's fate rests on.
LEMMA NewestTypes ==
  ASSUME CacheInv
  PROVE  /\ held \in Nat /\ started \in Nat /\ rebuilding \in Nat /\ held <= started /\ started <= MaxBuilds
         /\ held # 0 => held \in Build
         /\ started # 0 => started \in Build
         /\ \A b \in mine : b \in Build /\ phase[b] \in {"first", "rebuild"} /\ (phase[b] = "first" => held = b)
         /\ phase \in [Build -> {"none", "first", "rebuild", "ok", "failed"}]
<1>1. started \in 0..MaxBuilds /\ held \in 0..started /\ rebuilding \in 0..started /\ MaxBuilds \in Nat
  BY CacheAssumption DEF CacheInv, TypeOK
<1>2. started \in Nat /\ held \in Nat /\ rebuilding \in Nat /\ held <= started /\ started <= MaxBuilds
  BY <1>1
<1>3. (held # 0 => held \in Build) /\ (started # 0 => started \in Build)
  BY <1>1, <1>2 DEF Build
<1>4. \A b \in mine : b \in Build /\ phase[b] \in {"first", "rebuild"} /\ (phase[b] = "first" => held = b)
  BY DEF CacheInv, TypeOK, Running, FirstsAreHeld
<1> QED
  BY <1>2, <1>3, <1>4 DEF CacheInv, TypeOK

LEMMA NewestStart ==
  ASSUME NewestInv, NEW b \in Build, NEW ownTtl \in BOOLEAN,
         \/ StartFirst(b, ownTtl)
         \/ StartRebuild(b, ownTtl) /\ rebuilding = 0 /\ held # 0 /\ phase[held] # "first"
  PROVE  OneRebuild' /\ FirstIsNewest' /\ NewestIsAwaited'
<1>0. /\ held \in Nat /\ started \in Nat /\ held <= started /\ b = started + 1 /\ started' = b
      /\ phase \in [Build -> {"none", "first", "rebuild", "ok", "failed"}]
  BY NewestTypes DEF NewestInv, StartFirst, StartRebuild, Start
<1>1. CASE StartFirst(b, ownTtl)
  <2>1. /\ held' = b /\ settled' = FALSE /\ mine' = {b} /\ phase'[b] = "first"
        /\ rebuilding' = IF Stale > 0 THEN b ELSE 0
    BY <1>0, <1>1 DEF StartFirst, Start
  <2>2. Stale = 0 \/ rebuilding' = b
    BY <2>1, CacheAssumption
  <2> QED
    BY <1>0, <2>1, <2>2 DEF OneRebuild, FirstIsNewest, NewestIsAwaited
<1>2. CASE StartRebuild(b, ownTtl) /\ rebuilding = 0 /\ held # 0 /\ phase[held] # "first"
  <2>1. /\ rebuilding' = b /\ mine' = mine \cup {b} /\ held' = held /\ phase'[b] = "rebuild"
        /\ \A c \in Build \ {b} : phase'[c] = phase[c]
    BY <1>0, <1>2 DEF StartRebuild, Start
  <2>2. \A c \in mine : phase[c] # "rebuild" /\ c \in Build
    BY <1>2, NewestTypes DEF NewestInv, OneRebuild, Build
  <2>3. held \in Build /\ held # b
    BY <1>0, <1>2, NewestTypes DEF NewestInv
  <2>4. OneRebuild' /\ FirstIsNewest'
    BY <1>2, <2>1, <2>2, <2>3 DEF OneRebuild, FirstIsNewest
  <2>5. NewestIsAwaited'
    BY <1>0, <1>2, <2>1 DEF NewestIsAwaited
  <2> QED
    BY <2>4, <2>5
<1> QED
  BY <1>1, <1>2

LEMMA NewestOk ==
  ASSUME NewestInv, NEW b \in Build, BuildOk(b)
  PROVE  OneRebuild' /\ FirstIsNewest' /\ NewestIsAwaited'
<1>0. /\ phase[b] \in {"first", "rebuild"} /\ phase'[b] = "ok" /\ started' = started
      /\ \A c \in Build \ {b} : phase'[c] = phase[c]
  BY NewestTypes DEF NewestInv, BuildOk, BuildEnds
<1>1. /\ held' = IF Lands(b) THEN b ELSE held
      /\ IF Lands(b) \/ b \in mine THEN rebuilding' = 0 /\ settled' = TRUE ELSE UNCHANGED <<rebuilding, settled>>
      /\ mine' \in {{}, mine \ {b}}
      /\ (copied' \/ mine' = mine \ {b} \/ Lands(b)) /\ (copied => copied' \/ Lands(b))
  BY DEF BuildOk
<1>2. held \in Nat /\ (held # 0 => held \in Build) /\ (started # 0 => started \in Build)
      /\ \A c \in mine : c \in Build /\ (phase[c] = "first" => held = c)
  BY NewestTypes DEF NewestInv
<1>3. CASE b \in mine
  <2>1. phase[b] = "rebuild" => rebuilding = b
    BY <1>3 DEF NewestInv, OneRebuild
  <2>2. phase[b] = "first" => held = b /\ started = b
    BY <1>2, <1>3 DEF NewestInv, FirstIsNewest, Build
  <2>3. ~(started # 0 /\ phase'[started] = "rebuild")
    <3> SUFFICES ASSUME started # 0, phase'[started] = "rebuild" PROVE FALSE
      OBVIOUS
    <3>1. started # b /\ phase[started] = "rebuild"
      BY <1>0, <1>2
    <3> QED
      BY <1>0, <2>1, <2>2, <3>1 DEF NewestInv, NewestIsAwaited
  <2>4. ~(held' # 0 /\ phase'[held'] = "first")
    <3>1. CASE phase[b] = "first"
      BY <1>0, <1>1, <2>2, <3>1 DEF Lands
    <3>2. CASE phase[b] = "rebuild"
      BY <1>0, <1>1, <1>3, <3>2 DEF Lands
    <3> QED
      BY <1>0, <3>1, <3>2
  <2>5. OneRebuild'
    <3> SUFFICES ASSUME NEW c \in mine', phase'[c] = "rebuild" PROVE FALSE
      BY DEF OneRebuild
    <3>1. c \in mine /\ c # b /\ phase[c] = "rebuild"
      BY <1>0, <1>1, <1>2
    <3>2. rebuilding = c
      BY <3>1 DEF NewestInv, OneRebuild
    <3>3. phase[b] = "first" /\ held = b
      BY <1>0, <2>1, <2>2, <3>1, <3>2
    <3>4. b \in Nat \ {0} /\ c \in Nat \ {0}
      BY <1>2, <3>1 DEF Build
    <3>5. OffersAreKnown /\ RebuildsAreNewer
      BY DEF NewestInv, CacheInv
    <3>6. c > b /\ c <= started
      BY <1>2, <3>1, <3>2, <3>3, <3>5, NewestTypes DEF RebuildsAreNewer, NewestInv, CacheInv, TypeOK
    <3> QED
      BY <2>2, <3>3, <3>4, <3>6
  <2> QED
    BY <1>0, <2>3, <2>4, <2>5 DEF FirstIsNewest, NewestIsAwaited
<1>4. CASE b \notin mine
  <2>1. ~Lands(b) /\ held' = held /\ rebuilding' = rebuilding /\ settled' = settled
    BY <1>1, <1>4 DEF Lands
  <2>2. OneRebuild'
    <3> SUFFICES ASSUME NEW c \in mine', phase'[c] = "rebuild" PROVE rebuilding' = c
      BY DEF OneRebuild
    <3>1. c \in mine /\ c # b /\ phase[c] = "rebuild"
      BY <1>0, <1>1, <1>2
    <3> QED
      BY <2>1, <3>1 DEF NewestInv, OneRebuild
  <2>3. FirstIsNewest'
    <3> SUFFICES ASSUME held # 0, phase'[held] = "first"
                 PROVE  started = held /\ ~settled /\ (Stale = 0 \/ rebuilding = held)
      BY <1>0, <2>1 DEF FirstIsNewest
    <3>1. phase[held] = "first"
      BY <1>0, <1>2
    <3> QED
      BY <3>1 DEF NewestInv, FirstIsNewest
  <2>4. NewestIsAwaited'
    <3> SUFFICES ASSUME started # 0, phase'[started] = "rebuild"
                 PROVE  held # 0 /\ rebuilding = started /\ (copied' \/ started \in mine')
      BY <1>0, <2>1 DEF NewestIsAwaited
    <3>1. started # b /\ phase[started] = "rebuild"
      BY <1>0, <1>2
    <3>2. held # 0 /\ rebuilding = started /\ (copied \/ started \in mine)
      BY <3>1 DEF NewestInv, NewestIsAwaited
    <3> QED
      BY <1>1, <2>1, <3>1, <3>2
  <2> QED
    BY <2>2, <2>3, <2>4
<1> QED
  BY <1>3, <1>4

LEMMA NewestFails ==
  ASSUME NewestInv, NEW b \in Build, FirstFails(b) \/ RebuildFails(b)
  PROVE  OneRebuild' /\ FirstIsNewest' /\ NewestIsAwaited'
<1>0. /\ phase[b] \in {"first", "rebuild"} /\ phase'[b] = "failed" /\ started' = started
      /\ \A c \in Build \ {b} : phase'[c] = phase[c]
  BY NewestTypes DEF NewestInv, FirstFails, RebuildFails, BuildEnds
<1>2. held \in Nat /\ (held # 0 => held \in Build) /\ (started # 0 => started \in Build)
      /\ \A c \in mine : c \in Build /\ (phase[c] = "first" => held = c)
  BY NewestTypes DEF NewestInv
<1>3. CASE FirstFails(b) /\ held = b
  <2>1. started = b
    BY <1>3 DEF NewestInv, FirstIsNewest, FirstFails, Build
  <2>2. held' = 0 /\ mine' = {}
    BY <1>3 DEF FirstFails
  <2> QED
    BY <1>0, <2>1, <2>2 DEF OneRebuild, FirstIsNewest, NewestIsAwaited
<1>4. CASE ~(FirstFails(b) /\ held = b)
  <2>1. /\ held' = held /\ settled' = settled /\ copied' = copied /\ mine' \in {mine, mine \ {b}}
        /\ rebuilding' = rebuilding \/ (rebuilding' = 0 /\ b \in mine /\ phase[b] = "rebuild")
    BY <1>4 DEF FirstFails, RebuildFails, entry
  <2>2. ASSUME rebuilding' # rebuilding PROVE rebuilding = b
    BY <2>1, <2>2 DEF NewestInv, OneRebuild
  <2>3. OneRebuild'
    <3> SUFFICES ASSUME NEW c \in mine', phase'[c] = "rebuild" PROVE rebuilding' = c
      BY DEF OneRebuild
    <3>1. c \in mine /\ c # b /\ phase[c] = "rebuild"
      BY <1>0, <1>2, <2>1
    <3>2. rebuilding = c
      BY <3>1 DEF NewestInv, OneRebuild
    <3> QED
      BY <2>2, <3>1, <3>2
  <2>4. FirstIsNewest'
    <3> SUFFICES ASSUME held # 0, phase'[held] = "first"
                 PROVE  started = held /\ ~settled /\ (Stale = 0 \/ rebuilding' = held)
      BY <1>0, <2>1 DEF FirstIsNewest
    <3>1. phase[held] = "first" /\ held # b
      BY <1>0, <1>2
    <3> QED
      BY <2>2, <3>1 DEF NewestInv, FirstIsNewest
  <2>5. NewestIsAwaited'
    <3> SUFFICES ASSUME started # 0, phase'[started] = "rebuild"
                 PROVE  held # 0 /\ rebuilding' = started /\ (copied \/ started \in mine')
      BY <1>0, <2>1 DEF NewestIsAwaited
    <3>1. started # b /\ phase[started] = "rebuild"
      BY <1>0, <1>2
    <3>2. held # 0 /\ rebuilding = started /\ (copied \/ started \in mine)
      BY <3>1 DEF NewestInv, NewestIsAwaited
    <3> QED
      BY <2>1, <2>2, <3>1, <3>2
  <2> QED
    BY <2>3, <2>4, <2>5
<1> QED
  BY <1>3, <1>4

LEMMA NewestStep == NewestInv /\ [Next]_vars => NewestInv'
<1> SUFFICES ASSUME NewestInv, [Next]_vars PROVE OneRebuild' /\ FirstIsNewest' /\ NewestIsAwaited'
  BY StepInv DEF NewestInv
<1>1. CASE Tick \/ UNCHANGED vars
  BY <1>1 DEF NewestInv, OneRebuild, FirstIsNewest, NewestIsAwaited, Tick, vars, entry
<1>2. CASE Sweep
  BY <1>2 DEF NewestInv, OneRebuild, FirstIsNewest, NewestIsAwaited, Sweep
<1>3. CASE RefreshJoins
  <2>1. /\ UNCHANGED <<held, age, rebuilding, settled, started, phase>>
        /\ UNCHANGED <<mine, copied>> \/ (mine' = {} /\ copied' = TRUE)
    <3>1. CASE phase[Awaited] \in {"first", "rebuild"}
      BY <1>3, <3>1 DEF RefreshJoins
    <3>2. CASE phase[Awaited] = "ok"
      BY <1>3, <3>2 DEF RefreshJoins
    <3>3. CASE phase[Awaited] \notin {"first", "rebuild", "ok"}
      BY <1>3, <3>3 DEF RefreshJoins
    <3> QED
      BY <3>1, <3>2, <3>3
  <2> QED
    BY <2>1 DEF NewestInv, OneRebuild, FirstIsNewest, NewestIsAwaited
<1>4. ASSUME NEW b \in Build, RefreshStarts(b)
      PROVE  OneRebuild' /\ FirstIsNewest' /\ NewestIsAwaited'
  <2>1. CASE StartFirst(b, TRUE)
    BY <2>1, NewestStart
  <2>2. CASE StartRebuild(b, TRUE) /\ held # 0 /\ settled /\ rebuilding = 0
    <3>1. phase[held] # "first"
      BY <2>2 DEF NewestInv, FirstIsNewest
    <3> QED
      BY <2>2, <3>1, NewestStart
  <2> QED
    BY <1>4, <2>1, <2>2 DEF RefreshStarts
<1>5. ASSUME NEW b \in Build, Get(b)
      PROVE  OneRebuild' /\ FirstIsNewest' /\ NewestIsAwaited'
  <2>1. CASE Miss(b)
    BY <2>1, NewestStart DEF Miss
  <2>2. CASE Behind(b)
    <3>1. held # 0 /\ rebuilding = 0 /\ ~(age < TtlOf) /\ age < TtlOf + Stale
      BY <2>2 DEF Behind, Showable, Good
    <3>2. age \in Nat /\ TtlOf \in Nat /\ Stale \in Nat
      <4>1. age \in 0..MaxAge
        BY DEF NewestInv, CacheInv, TypeOK
      <4> QED
        BY <4>1, MaxAgeNat, CacheAssumption DEF TtlOf
    <3>3. Stale # 0
      BY <3>1, <3>2
    <3>4. phase[held] # "first"
      BY <3>1, <3>3 DEF NewestInv, FirstIsNewest
    <3> QED
      BY <2>2, <3>1, <3>4, NewestStart DEF Behind
  <2> QED
    BY <1>5, <2>1, <2>2 DEF Get
<1>6. ASSUME NEW b \in Build, BuildOk(b) \/ FirstFails(b) \/ RebuildFails(b)
      PROVE  OneRebuild' /\ FirstIsNewest' /\ NewestIsAwaited'
  BY <1>6, NewestOk, NewestFails
<1> QED
  BY <1>1, <1>2, <1>3, <1>4, <1>5, <1>6 DEF Next, OwnedRefresh

(***************************************************************************)
(* What the newest rebuild brings is what readers are shown, unless the    *)
(* warmer copied the entry under it, for any ttl, grace and number of      *)
(* builds: no older build takes its place in the entry, and none drops it. *)
(***************************************************************************)
THEOREM NewestLandsAlways == Spec => NewestLands
<1>1. NewestInv /\ [Next]_vars =>
        [\A b \in Build :
           phase[b] = "rebuild" /\ phase'[b] = "ok" /\ b = started /\ ~copied => held' = b]_vars
  <2> SUFFICES ASSUME NewestInv, Next, NEW b \in Build,
                      phase[b] = "rebuild", phase'[b] = "ok", b = started, ~copied
               PROVE  held' = b
    OBVIOUS
  <2>0. phase \in [Build -> {"none", "first", "rebuild", "ok", "failed"}]
    BY NewestTypes DEF NewestInv
  <2>1. \/ \E c \in Build : Start(c, "first") \/ Start(c, "rebuild")
        \/ \E c \in Build : BuildOk(c) \/ FirstFails(c) \/ RebuildFails(c)
        \/ phase' = phase
    BY DEF Next, Tick, Sweep, OwnedRefresh, RefreshJoins, RefreshStarts, Get, Behind, Miss, StartFirst, StartRebuild
  <2>2. PICK c \in Build : BuildOk(c)
    <3>1. ASSUME NEW c \in Build, Start(c, "first") \/ Start(c, "rebuild") PROVE FALSE
      <4>1. phase' = [phase EXCEPT ![c] = "first"] \/ phase' = [phase EXCEPT ![c] = "rebuild"]
        BY <3>1 DEF Start
      <4> QED
        BY <2>0, <4>1
    <3>2. ASSUME NEW c \in Build, FirstFails(c) \/ RebuildFails(c) PROVE FALSE
      <4>1. phase' = [phase EXCEPT ![c] = "failed"]
        BY <3>2 DEF FirstFails, RebuildFails, BuildEnds
      <4> QED
        BY <2>0, <4>1
    <3> QED
      BY <2>0, <2>1, <3>1, <3>2
  <2>3. c = b
    <3>1. phase' = [phase EXCEPT ![c] = "ok"]
      BY <2>2 DEF BuildOk, BuildEnds
    <3> QED
      BY <2>0, <3>1
  <2>4. b \in mine
    BY DEF NewestInv, NewestIsAwaited, Build
  <2> QED
    BY <2>2, <2>3, <2>4 DEF BuildOk, Lands
<1> QED
  BY <1>1, NewestInvInit, NewestStep, PTL DEF Spec, NewestLands

==============================================================================
