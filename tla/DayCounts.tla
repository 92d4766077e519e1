------------------------------- MODULE DayCounts -------------------------------
(***************************************************************************)
(* The days that the worker counts and stores (refreshBezkval): today and  *)
(* yesterday often, the week before them seldom, every older day once for  *)
(* each version of the rules.  What a screen reads of a past day is the    *)
(* last count that was stored.                                             *)
(***************************************************************************)
EXTENDS Integers, FiniteSets

CONSTANTS
  DayLength,     \* Of a day, in units of time.
  LiveEvery,     \* BEZKVAL_LIVE_MS
  WeekEvery,     \* BEZKVAL_WEEK_MS
  WeekDays,      \* BEZKVAL_WEEK_DAYS
  DaysPerPass,   \* BEZKVAL_DAYS_PER_PASS
  LastMoment     \* Bound: the clock.

ASSUME CountAssumption ==
  /\ DayLength \in Nat \ {0} /\ LiveEvery \in Nat /\ WeekEvery \in Nat
  /\ LiveEvery <= WeekEvery /\ WeekEvery <= DayLength
  /\ WeekDays \in Nat /\ DaysPerPass \in Nat \ {0} /\ LastMoment \in Nat

VARIABLES
  moment,
  counted,    \* counted[d]: [at, rules] of bezkval_day, at = Uncounted for no row.
  rules,      \* BEZKVAL_RULES of the process.
  fed,        \* bezkvalReady
  counting,   \* What the pass is at.
  today,      \* Its day.
  dueDays,    \* The days it has left.
  atDay,      \* The day it is at, and when its count began.
  started,
  \* History:
  readAt,     \* readAt[d]: when the rows behind the stored count were read.
  closed      \* Days a pass has left as they should stay.

countVars == <<moment, counted, rules, fed, counting, today, dueDays, atDay, started, readAt, closed>>

DayOf(t) == t \div DayLength
EndOf(d) == (d + 1) * DayLength
Days == 0..DayOf(LastMoment)
Uncounted == -1

CountsInit ==
  /\ moment = 0 /\ rules = 1 /\ fed = FALSE
  /\ counted = [d \in Days |-> [at |-> Uncounted, rules |-> 0]]
  /\ counting = "idle" /\ today = 0 /\ dueDays = {} /\ atDay = 0 /\ started = 0
  /\ readAt = [d \in Days |-> Uncounted] /\ closed = {}

Moment ==
  /\ moment < LastMoment /\ moment' = moment + 1
  /\ UNCHANGED <<counted, rules, fed, counting, today, dueDays, atDay, started, readAt, closed>>

\* Both feeds have reached their newest row, once and for all.
Fed ==
  /\ ~fed /\ fed' = TRUE
  /\ UNCHANGED <<moment, counted, rules, counting, today, dueDays, atDay, started, readAt, closed>>

-------------------------------------------------------------------------------
(* bezkvalDaysDue *)

Fresh(d) == counted[d].at # Uncounted /\ counted[d].rules = rules
Stale(d, age) == ~Fresh(d) \/ moment - counted[d].at >= age

LiveDay(d) == d >= today - 1

InWeek(d) == d >= today - 1 - WeekDays

DayDue(d) ==
  /\ d <= today
  /\ IF InWeek(d) THEN Stale(d, IF LiveDay(d) THEN LiveEvery ELSE WeekEvery) ELSE ~Fresh(d)

\* The newest, and no more than a pass takes.
ThisPass ==
  {d \in Days : DayDue(d) /\ Cardinality({e \in Days : e > d /\ DayDue(e)}) < DaysPerPass}

-------------------------------------------------------------------------------
(* The pass. *)

\* Its day is the one the tick began in.
BeginCounts ==
  /\ counting = "idle" /\ fed
  /\ counting' = "plan" /\ today' = DayOf(moment)
  /\ UNCHANGED <<moment, counted, rules, fed, dueDays, atDay, started, readAt, closed>>

\* A day over for LiveEvery, of the pass's week.
Ended(d) == EndOf(d) + LiveEvery <= moment /\ d <= today /\ InWeek(d)

PlanCounts ==
  /\ counting = "plan" /\ counting' = "next"
  /\ dueDays' = ThisPass
  /\ closed' = closed \cup {d \in Days : Ended(d) /\ ~DayDue(d)}
  /\ UNCHANGED <<moment, counted, rules, fed, today, atDay, started, readAt>>

\* The newest left.  A count, dated by its start.
CountDay ==
  /\ counting = "next"
  /\ \E d \in dueDays :
       /\ \A e \in dueDays : e <= d
       /\ atDay' = d /\ dueDays' = dueDays \ {d}
  /\ counting' = "count" /\ started' = moment
  /\ UNCHANGED <<moment, counted, rules, fed, today, readAt, closed>>

\* Mutant: a count is dated by its end.
DatedByEnd == moment

DatedBy == started

StoreDay ==
  /\ counting = "count" /\ counting' = "next"
  /\ counted' = [counted EXCEPT ![atDay] = [at |-> DatedBy, rules |-> rules]]
  /\ readAt' = [readAt EXCEPT ![atDay] = started]
  /\ closed' = closed \cup {d \in {atDay} : EndOf(d) + LiveEvery <= started}
  /\ UNCHANGED <<moment, rules, fed, today, dueDays, atDay, started>>

EndCounts == counting' = "idle" /\ today' = 0 /\ dueDays' = {} /\ atDay' = 0 /\ started' = 0

WholePass ==
  /\ counting = "next" /\ dueDays = {} /\ EndCounts
  /\ UNCHANGED <<moment, counted, rules, fed, readAt, closed>>

\* A read or a write fails, the worker is stopping, or it dies: the days
\* already stored stay.
CountsFail ==
  /\ counting # "idle" /\ EndCounts
  /\ UNCHANGED <<moment, counted, rules, fed, readAt, closed>>

\* A deploy that counts by other rules.
NewRules ==
  /\ counting = "idle" /\ rules = 1 /\ rules' = 2
  /\ UNCHANGED <<moment, counted, fed, counting, today, dueDays, atDay, started, readAt, closed>>

CountsNext ==
  \/ Moment \/ Fed
  \/ BeginCounts \/ PlanCounts \/ CountDay \/ StoreDay \/ WholePass \/ CountsFail
  \/ NewRules

CountsSpec == CountsInit /\ [][CountsNext]_countVars

-------------------------------------------------------------------------------
(* Properties. *)

(***************************************************************************)
(* A day that a pass of its week has dealt with, long enough after its     *)
(* end, is stored as it was when it was over: by whatever failed, stopped, *)
(* began before midnight or was counted across it, and whichever rules it  *)
(* is counted by again, no day stays as it stood at noon.                  *)
(***************************************************************************)
DaysAreClosed == \A d \in closed : readAt[d] >= EndOf(d)

===============================================================================
