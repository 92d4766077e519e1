------------------------------ MODULE SlowPasses ------------------------------
(***************************************************************************)
(* When the worker's tick re-reads the portal's reference data: the full   *)
(* pass on its own clock, the forced one a skipped deal asks for, and the  *)
(* calm after an outage that holds both back (schedule.ts, and the head of *)
(* the loop of syncWorker).                                                *)
(*                                                                         *)
(* One deal is followed, and its arrival in a stage: the deal is skipped   *)
(* until the reference data knows its employee, the arrival until the deal *)
(* is stored, and each falls out of its entity's window for good when it   *)
(* is skipped at an age the window does not reach (SKIP_LOOKBACK_MS).      *)
(***************************************************************************)
EXTENDS Integers, FiniteSets

CONSTANTS
  ReferenceEvery,  \* REFERENCE_MS
  Gap,             \* RESOLVE_GAP_MS
  Lookback,        \* SKIP_LOOKBACK_MS, of "deal" and "arrival".
  CalmTicks,       \* CALM_TICKS
  Slack,           \* Bound: time a tick and the wait before it take together.
  Outages,         \* Whether the portal may shut the gate.
  MaxRestarts      \* Bound: restarts.

Larger(a, b) == IF a > b THEN a ELSE b

Rows == {"deal", "arrival"}

\* Ages stop here: past every period, older is the same, and so is never.
Never == Larger(Larger(ReferenceEvery, Gap), Larger(Lookback["deal"], Lookback["arrival"])) + 1

ASSUME PassAssumption ==
  /\ ReferenceEvery \in Nat \ {0} /\ Gap \in Nat \ {0}
  /\ Lookback \in [Rows -> Nat] /\ CalmTicks \in Nat /\ Slack \in Nat \ {0}
  /\ Outages \in BOOLEAN /\ MaxRestarts \in Nat

VARIABLES
  \* The worker's memory:
  lastReference, lastResolve,  \* Ages of lastReferenceAt and lastResolveAt.
  referenceOwed, resolveOwed, calm,
  pc, plan,                    \* Where its tick is, and which slow pass it runs.
  shut,                        \* The gate.
  \* The database:
  logged,                      \* Age of the newest REFERENCE_MARKER row.
  known,                       \* Whether it holds the deal's employee.
  row, rowAge,                 \* The deal and its arrival, and their age.
  \* For the properties:
  took,                        \* Time since the last tick began.
  quiet,                       \* Ticks since the gate opened, in this process.
  blind,                       \* The startup read failed.
  outage,                      \* The rows met an outage, or the calm after one.
  restarts

memory == <<lastReference, lastResolve, referenceOwed, resolveOwed, calm>>
rows == <<row, rowAge>>
vars == <<memory, pc, plan, shut, logged, known, rows, took, quiet, blind, outage, restarts>>

Init ==
  /\ lastReference = Never /\ lastResolve = Never /\ logged = Never
  /\ referenceOwed = FALSE /\ resolveOwed = FALSE /\ calm = 0
  /\ pc = "wait" /\ plan = "hot" /\ shut = FALSE
  /\ known = TRUE /\ row = [r \in Rows |-> "none"] /\ rowAge = 0
  /\ took = 0 /\ quiet = CalmTicks /\ blind = FALSE
  /\ outage = FALSE /\ restarts = 0

-------------------------------------------------------------------------------
(* The portal, and time. *)

\* A deal of an employee just hired arrives in a stage.
Arrive ==
  /\ \A r \in Rows : row[r] # "waiting"
  /\ row' = [r \in Rows |-> "waiting"] /\ rowAge' = 0 /\ known' = FALSE
  /\ outage' = (shut \/ calm > 0)
  /\ UNCHANGED <<memory, pc, plan, shut, logged, took, quiet, blind, restarts>>

Older(age) == IF age < Never THEN age + 1 ELSE Never

\* Time passes: as long as an outage lasts, or as a tick may take.
Pass ==
  /\ took < Slack \/ (shut /\ pc = "wait")
  /\ took' = IF took < Slack THEN took + 1 ELSE took
  /\ lastReference' = Older(lastReference) /\ lastResolve' = Older(lastResolve)
  /\ logged' = Older(logged) /\ rowAge' = Older(rowAge)
  /\ UNCHANGED <<referenceOwed, resolveOwed, calm, pc, plan, shut, known, row, quiet, blind,
                 outage, restarts>>

-------------------------------------------------------------------------------
(* The tick. *)

\* isPassDue
Due(age, every) == age >= every

\* isResolvePassDue: only the newest pass counts.
ResolveDue == Due(IF lastReference < lastResolve THEN lastReference ELSE lastResolve, Gap)

\* A probe is answered, and the same iteration goes on into its tick.
Recover ==
  /\ pc = "wait" /\ shut
  /\ shut' = FALSE /\ calm' = CalmTicks /\ quiet' = 0
  /\ UNCHANGED <<lastReference, lastResolve, referenceOwed, resolveOwed, pc, plan, logged,
                 known, rows, took, blind, outage, restarts>>

\* planTick: what this tick runs, and what stays owed.
ReferenceDue == Due(lastReference, ReferenceEvery) \/ referenceOwed
ReferenceNow == ReferenceDue /\ calm = 0

\* Mutant: a skip waits for the full pass.
ResolveNever == FALSE

ResolveNow == resolveOwed /\ calm = 0 /\ ~ReferenceNow

Planned(stillOwed) ==
  /\ pc = "wait" /\ ~shut
  /\ plan' = IF ReferenceNow THEN "reference" ELSE IF ResolveNow THEN "resolve" ELSE "hot"
  /\ pc' = IF plan' = "hot" THEN "hot" ELSE "slow"
  /\ referenceOwed' = (ReferenceDue /\ calm > 0)
  /\ resolveOwed' = stillOwed
  /\ lastReference' = IF plan' = "reference" THEN 0 ELSE lastReference
  /\ lastResolve' = IF plan' = "resolve" THEN 0 ELSE lastResolve
  /\ took' = 0 /\ blind' = (blind /\ plan' # "reference")
  /\ UNCHANGED <<calm, shut, logged, known, rows, quiet, outage, restarts>>

Plan == Planned(resolveOwed /\ calm > 0)

\* The slow entities of runAll.  What a shut gate refuses fails.
SlowPass ==
  /\ pc = "slow"
  /\ pc' = "hot"
  /\ \/ known' = TRUE /\ logged' = (IF plan = "reference" THEN 0 ELSE logged) /\ UNCHANGED <<shut, outage>>
     \/ Outages /\ shut' = TRUE /\ outage' = TRUE /\ UNCHANGED <<known, logged>>
  /\ UNCHANGED <<memory, plan, rows, took, quiet, blind, restarts>>

\* DEALS, then STAGE_HISTORY: a row is written, or skipped and read again only
\* if the window reaches it.
Persisted(r, refersToStored) ==
  IF row[r] # "waiting" THEN row[r]
  ELSE IF refersToStored THEN "written"
  ELSE IF rowAge > Lookback[r] THEN "lost" ELSE "waiting"

DealNow == Persisted("deal", known)
ArrivalNow == Persisted("arrival", DealNow = "written")

Skipped == row["deal"] = "waiting" /\ ~known

\* The hot entities, and then what they ask for.  Links pending are deals
\* stored without a source or an employee (pendingLinksSince).
Hot(pending) ==
  /\ pc = "hot" /\ ~shut
  /\ row' = [deal |-> DealNow, arrival |-> ArrivalNow]
  /\ resolveOwed' = (resolveOwed \/ ((Skipped \/ pending) /\ ResolveDue))
  /\ pc' = "end"
  /\ UNCHANGED <<lastReference, lastResolve, referenceOwed, calm, plan, shut, logged, known,
                 rowAge, took, quiet, blind, outage, restarts>>

\* The gate is shut, or shuts: every entity fails.
HotFails ==
  /\ pc = "hot" /\ (shut \/ Outages)
  /\ shut' = TRUE /\ outage' = TRUE
  /\ pc' = "end"
  /\ UNCHANGED <<memory, plan, logged, known, rows, took, quiet, blind, restarts>>

EndTick ==
  /\ pc = "end"
  /\ pc' = "wait" /\ plan' = "hot"
  /\ calm' = IF calm > 0 /\ ~shut THEN calm - 1 ELSE calm
  /\ quiet' = IF quiet < CalmTicks THEN quiet + 1 ELSE quiet
  /\ UNCHANGED <<lastReference, lastResolve, referenceOwed, resolveOwed, shut, logged, known,
                 rows, took, blind, outage, restarts>>

Restarts(reference) ==
  /\ restarts < MaxRestarts /\ restarts' = restarts + 1
  /\ pc' = "wait" /\ plan' = "hot"
  /\ lastReference' = reference /\ lastResolve' = Never
  /\ referenceOwed' = FALSE /\ resolveOwed' = FALSE /\ calm' = 0
  /\ quiet' = CalmTicks
  /\ shut' \in {shut, FALSE}
  /\ UNCHANGED <<logged, known, rows, took, outage>>

\* Mutant: a tick counter, which every deploy starts again.
RestartAnew == Restarts(Never) /\ UNCHANGED blind

\* A deploy or a crash.  A pass nobody finds in the log is due.
Restart ==
  \/ Restarts(logged) /\ blind' = FALSE
  \/ Restarts(Never) /\ blind' = TRUE

Next ==
  \/ Arrive \/ Pass
  \/ Recover \/ Plan \/ SlowPass
  \/ \E pending \in BOOLEAN : Hot(pending)
  \/ HotFails \/ EndTick
  \/ Restart

Spec == Init /\ [][Next]_vars

-------------------------------------------------------------------------------
(* Properties. *)

Ages == 0..Never

TypeOK ==
  /\ {lastReference, lastResolve, logged, rowAge} \subseteq Ages
  /\ {referenceOwed, resolveOwed, shut, known, blind, outage} \subseteq BOOLEAN
  /\ calm \in 0..CalmTicks /\ quiet \in 0..CalmTicks /\ took \in 0..Slack
  /\ restarts \in 0..MaxRestarts
  /\ pc \in {"wait", "slow", "hot", "end"} /\ plan \in {"reference", "resolve", "hot"}
  /\ row \in [Rows -> {"none", "waiting", "written", "lost"}]

(***************************************************************************)
(* A skip is resolved before its row falls out of the window: the forced   *)
(* pass comes within the gap and a tick (RESOLVE_GAP_MS: "stays inside the *)
(* thirty-five").  The comment knows of no exception.                      *)
(***************************************************************************)
NothingFallsOut == \A r \in Rows : row[r] # "lost"

(***************************************************************************)
(* The same, for rows that meet no outage and no calm: whatever pass ran   *)
(* or failed just before the skip, and whenever the process restarts.      *)
(***************************************************************************)
OnlyOutagesLose == NothingFallsOut \/ outage

SlowPassBegins == pc = "wait" /\ pc' = "slow"

(***************************************************************************)
(* A skip that never resolves costs one forced pass per gap: none begins   *)
(* sooner after a pass that read the same data (RESOLVE_GAP_MS).           *)
(***************************************************************************)
ResolvesAreSpaced ==
  [][SlowPassBegins /\ plan' = "resolve" => lastReference >= Gap /\ lastResolve >= Gap]_vars

(***************************************************************************)
(* A portal that has just started answering gets hot ticks only, as many   *)
(* as CALM_TICKS (planTick).                                               *)
(***************************************************************************)
CalmIsKept == [][SlowPassBegins => quiet = CalmTicks]_vars

(***************************************************************************)
(* A deploy costs the portal nothing: a full pass that succeeded is not    *)
(* run again before its time, however often the process restarts, but for  *)
(* a startup that could not read the log (the comment on isPassDue).       *)
(***************************************************************************)
DeploysAreFree ==
  [][SlowPassBegins /\ plan' = "reference" => blind \/ logged + Slack >= ReferenceEvery]_vars

(***************************************************************************)
(* The portal is spared: forced passes a gap apart, none while the portal  *)
(* has only just come back, and no full pass for a deploy.                 *)
(***************************************************************************)
SlowPassesAreSpared == ResolvesAreSpaced /\ CalmIsKept /\ DeploysAreFree

===============================================================================
