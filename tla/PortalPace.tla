----------------------------- MODULE PortalPace -----------------------------
(***************************************************************************)
(* What a call waits for before it leaves for the portal: a place in the   *)
(* hour's budget (PortalBudget), the seconds its method was measured to    *)
(* have cost the portal (PortalMeter), and a token (RateLimiter).  Calls   *)
(* leave one at a time; each attempt waits again.                          *)
(*                                                                         *)
(* The portal sends no reading of its own, so the meter falls back to what *)
(* it measured; and the calls are all of one method.                       *)
(***************************************************************************)
EXTENDS Integers, FiniteSets, FiniteSetsExt

CONSTANTS
  Minute,        \* Instants in a minute.
  WindowMinutes, \* WINDOW_MINUTES
  Ceiling,       \* Invocations an hour.
  SoftCeiling,   \* SOFT_FRACTION of them.
  MaxPace,       \* The longest a call is paced, instants.
  Costs,         \* Invocations a call may carry.
  Basket,        \* OPERATING_WINDOW_MS, instants.
  SoftSeconds,   \* MEASURED_SOFT_S
  HardSeconds,   \* MEASURED_HARD_S
  Seconds,       \* What an answer may be billed.
  Burst,         \* The bucket's capacity, filled by one an instant.
  Retries,       \* The retries of a call.
  LastTime       \* Bound: the clock.

ASSUME PaceAssumption ==
  /\ {Minute, WindowMinutes, Burst} \subseteq Nat \ {0} /\ Seconds \subseteq Nat
  /\ Costs \subseteq Nat \ {0} /\ Costs # {} /\ IsFiniteSet(Costs)
  /\ {Ceiling, SoftCeiling, MaxPace, Basket, SoftSeconds, HardSeconds, Retries, LastTime} \subseteq Nat
  /\ SoftCeiling <= Ceiling /\ SoftSeconds <= HardSeconds

VARIABLES
  time,
  bucket,    \* buckets: bucket[m], the invocations of minute m.
  measured,  \* measured[t]: the seconds of the calls answered at t.
  tokens,
  at,        \* What the call is at.
  cost,      \* Its invocations.
  until,     \* When its sleep ends.
  attempts,  \* Attempts made.
  sent       \* History: sent[t], the invocations that left at t.

paceVars == <<time, bucket, measured, tokens, at, cost, until, attempts, sent>>

Times == 0..LastTime
MinuteOf(t) == t \div Minute

PaceInit ==
  /\ time = 0 /\ tokens = Burst
  /\ bucket = [m \in 0..MinuteOf(LastTime) |-> 0]
  /\ measured = [t \in Times |-> 0] /\ sent = [t \in Times |-> 0]
  /\ at = "none" /\ cost = 0 /\ until = 0 /\ attempts = 0

PassTime ==
  /\ time < LastTime /\ time' = time + 1
  /\ tokens' = IF tokens < Burst THEN tokens + 1 ELSE tokens
  /\ UNCHANGED <<bucket, measured, at, cost, until, attempts, sent>>

-----------------------------------------------------------------------------
(* The budget. *)

\* Mutant: a minute is dropped before it is over.
KeptShort(m) == m > MinuteOf(time) - WindowMinutes + 1

\* evict
Kept(m) == m > MinuteOf(time) - WindowMinutes

Evicted == [m \in DOMAIN bucket |-> IF m <= MinuteOf(time) /\ ~Kept(m) THEN 0 ELSE bucket[m]]
SumOver(f, S) == MapThenSumSet(LAMBDA x : f[x], S)
Sum(f) == SumOver(f, DOMAIN f)

GivesUp == at' = "none" /\ cost' = 0 /\ until' = 0 /\ attempts' = 0

\* Mutant: the invocations of this call are not asked for.
RoomForOne(n) == Sum(Evicted) < Ceiling

HasRoom(n) == Sum(Evicted) + n <= Ceiling

\* waitMs: refused, paced, or let through.
AsksBudget(n) ==
  /\ bucket' = Evicted
  /\ \/ ~HasRoom(n) /\ GivesUp
     \/ /\ HasRoom(n)
        /\ at' = "budget" /\ cost' = n
        /\ until' \in IF Sum(Evicted) >= SoftCeiling THEN time..(time + MaxPace) ELSE {time}
        /\ UNCHANGED attempts

CallPortal ==
  /\ at = "none"
  /\ \E n \in Costs : AsksBudget(n)
  /\ UNCHANGED <<time, measured, tokens, sent>>

-----------------------------------------------------------------------------
(* The meter. *)

InBasket == {t \in Times : t <= time /\ time - t < Basket /\ measured[t] > 0}
MeasuredSeconds == SumOver(measured, InBasket)
AgesOut == {t + Basket : t \in {u \in InBasket : \A v \in InBasket : u <= v}}

\* A sleep longer than the instants of the clock ends past them.
MeterWaits ==
  IF MeasuredSeconds < SoftSeconds THEN {time}
  ELSE IF MeasuredSeconds >= HardSeconds THEN AgesOut
  ELSE UNION {time..t : t \in AgesOut}

\* The spending follows the pace; the meter is asked at once.
Spend ==
  /\ at = "budget" /\ time >= until
  /\ bucket' = [Evicted EXCEPT ![MinuteOf(time)] = @ + cost]
  /\ at' = "meter" /\ until' \in MeterWaits
  /\ UNCHANGED <<time, measured, tokens, cost, attempts, sent>>

-----------------------------------------------------------------------------
(* The limiter, and the answer. *)

SendAway ==
  /\ at = "meter" /\ time >= until /\ tokens >= 1
  /\ tokens' = tokens - 1
  /\ sent' = [sent EXCEPT ![time] = @ + cost]
  /\ at' = "out" /\ until' = 0 /\ attempts' = attempts + 1
  /\ UNCHANGED <<time, bucket, measured, cost>>

Succeed ==
  /\ at = "out" /\ GivesUp
  /\ \E s \in Seconds : measured' = [measured EXCEPT ![time] = @ + s]
  /\ UNCHANGED <<time, bucket, tokens, sent>>

\* Every attempt is asked for again.
TriesAgain == AsksBudget(cost)

FailCall ==
  /\ at = "out"
  /\ \/ GivesUp /\ UNCHANGED bucket    \* The last attempt, or not retryable.
     \/ attempts <= Retries /\ TriesAgain
  /\ UNCHANGED <<time, measured, tokens, sent>>

PaceNext == PassTime \/ CallPortal \/ Spend \/ SendAway \/ Succeed \/ FailCall

PaceSpec == PaceInit /\ [][PaceNext]_paceVars

-----------------------------------------------------------------------------
(* Properties. *)

PaceTypeOK ==
  /\ time \in Times /\ tokens \in 0..Burst
  /\ bucket \in [0..MinuteOf(LastTime) -> 0..Ceiling]
  /\ Sum(bucket) <= Ceiling
  /\ at \in {"none", "budget", "meter", "out"} /\ cost \in Costs \cup {0} /\ (cost = 0 <=> at = "none")
  /\ until \in 0..(LastTime + Basket + MaxPace) /\ attempts \in 0..(Retries + 1)

(***************************************************************************)
(* What left in any hour but a minute is at most the ceiling and one call: *)
(* the one whose place was paid for before the hour and that waited for    *)
(* the meter or a token since ("a ceiling on what this process may ask the *)
(* portal for in any rolling hour", kept by buckets of a minute).          *)
(***************************************************************************)
HourIsBounded ==
  LET hour == {t \in Times : t > time - (WindowMinutes - 1) * Minute /\ t <= time} IN
  SumOver(sent, hour) <= Ceiling + Max(Costs)

=============================================================================
