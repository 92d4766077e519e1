----------------------------- MODULE LockoutProofs -----------------------------
(***************************************************************************)
(* The counts, the locks and their order, for any number of attempts and   *)
(* of names, and any settings of the rule.                                 *)
(***************************************************************************)
EXTENDS Lockout, FiniteSetTheorems, TLAPS

\* Only an attempt that has reserved, and is not over, is counted as open.
OpenIsReserved == \A k \in Keys, a \in Attempts : a \in open[k] => step[a] \notin {"idle", "reserve", "refused"}

\* Whoever is on the way has a name.
Named == \A a \in Attempts : step[a] # "idle" => name[a] \in Keys

\* Nobody's "now" is in the future.
ReadBefore == \A a \in Attempts : readAt[a] <= now

\* Nobody between two transactions holds a key.
HeldInside == \A a \in Attempts : step[a] \in {"idle", "prune", "refused", "check"} => locks[a] = {}

\* Keys are held from the least upwards.
HeldInOrder ==
  \A a \in Attempts : \A j \in locks[a], k \in keys[a] \ locks[a] : j <= k

\* The lock a spent allowance has earned is in the row.
LocksAreArmed ==
  \A k \in Keys : failedCount[k] >= MaxFailed =>
    lockedUntil[k] >= lastFailedAt[k] + LockDuration(failedCount[k])

LockoutInv ==
  /\ LockoutTypeOK /\ OpenIsReserved /\ Named /\ ReadBefore /\ HeldInside /\ HeldInOrder
  /\ CountIsExact /\ LocksAreEarned /\ LocksAreArmed

-------------------------------------------------------------------------------
(* The escalation. *)

LEMMA DurationFacts ==
  ASSUME NEW n \in Nat
  PROVE  /\ LockDuration(n) \in Nat /\ LockDuration(n) <= MaxLock
         /\ n < MaxFailed => LockDuration(n) = 0
         /\ LockDuration(n) <= LockDuration(n + 1)
<1> USE LockoutAssumption
<1>1. CASE n < MaxFailed
  <2>1. LockDuration(n) = 0
    BY <1>1 DEF LockDuration
  <2>2. LockDuration(n + 1) >= 0
    <3>1. CASE n + 1 < MaxFailed
      BY <3>1 DEF LockDuration
    <3>2. CASE n + 1 = MaxFailed
      BY <3>2, MaxFailed - MaxFailed = 0 DEF LockDuration, Lesser, Doubled
    <3> QED
      BY <1>1, <3>1, <3>2
  <2> QED
    BY <2>1, <2>2, <1>1
<1>2. CASE n >= MaxFailed
  <2>1. PICK i \in Nat : n = MaxFailed + i
    <3>1. n - MaxFailed \in Nat /\ n = MaxFailed + (n - MaxFailed)
      BY <1>2
    <3> QED
      BY <3>1
  <2>2. /\ LockDuration(n) = Lesser(BaseLock * Doubled[Lesser(i, 10) + 1], MaxLock)
        /\ LockDuration(n + 1) = Lesser(BaseLock * Doubled[Lesser(i + 1, 10) + 1], MaxLock)
    <3>1. ~(n < MaxFailed) /\ n - MaxFailed = i /\ ~(n + 1 < MaxFailed) /\ n + 1 - MaxFailed = i + 1
      BY <2>1
    <3> QED
      BY <3>1 DEF LockDuration
  <2>3. CASE i >= 10
    <3>1. Lesser(i, 10) = 10 /\ Lesser(i + 1, 10) = 10
      BY <2>3 DEF Lesser
    <3>2. BaseLock * Doubled[11] \in Nat
      BY DEF Doubled
    <3> QED
      BY <3>1, <3>2, <2>2, <1>2 DEF Lesser
  <2>4. CASE i < 10
    <3>1. Lesser(i, 10) = i /\ Lesser(i + 1, 10) = i + 1
      BY <2>4 DEF Lesser
    <3>2. i \in {0, 1, 2, 3, 4, 5, 6, 7, 8, 9}
      BY <2>4
    <3>3. /\ BaseLock * Doubled[i + 1] \in Nat /\ BaseLock * Doubled[i + 2] \in Nat
          /\ BaseLock * Doubled[i + 1] <= BaseLock * Doubled[i + 2]
      BY <3>2 DEF Doubled
    <3> QED
      BY <3>1, <3>3, <2>2, <1>2 DEF Lesser
  <2> QED
    BY <2>3, <2>4
<1> QED
  BY <1>1, <1>2

LEMMA LongEnough == ASSUME NEW n \in Nat, n >= MaxFailed PROVE LockDuration(n) > 0
<1> USE LockoutAssumption
<1>1. LockDuration(MaxFailed) > 0
  BY MaxFailed - MaxFailed = 0 DEF LockDuration, Lesser, Doubled
<1>2. n - MaxFailed \in Nat /\ Lesser(n - MaxFailed, 10) + 1 \in {1, 2, 3, 4, 5, 6, 7, 8, 9, 10, 11}
  BY DEF Lesser
<1>3. BaseLock * Doubled[Lesser(n - MaxFailed, 10) + 1] \in Nat \ {0}
  BY <1>2 DEF Doubled
<1>4. MaxLock \in Nat \ {0}
  OBVIOUS
<1> QED
  BY <1>3, <1>4 DEF LockDuration, Lesser

-------------------------------------------------------------------------------
(* Initially. *)

LEMMA InitLockout == LockoutInit => LockoutInv
<1> SUFFICES ASSUME LockoutInit PROVE LockoutInv
  OBVIOUS
<1> USE LockoutAssumption DEF LockoutInit
<1>1. LockoutTypeOK
  BY DEF LockoutTypeOK, Steps
<1>2. CountIsExact
  BY FS_EmptySet DEF CountIsExact
<1> QED
  BY <1>1, <1>2 DEF LockoutInv, OpenIsReserved, Named, ReadBefore, HeldInside, HeldInOrder,
                    LocksAreEarned, LocksAreArmed

-------------------------------------------------------------------------------
(* The requests. *)

\* What the type invariant and the order of the keys say of the requests alone.
RequestsInv ==
  /\ now \in 1..(MaxNow + 1)
  /\ step \in [Attempts -> Steps] /\ name \in [Attempts -> Keys \cup {0}]
  /\ readAt \in [Attempts -> Nat]
  /\ keys \in [Attempts -> SUBSET Keys] /\ locks \in [Attempts -> SUBSET Keys]
  /\ \A a \in Attempts : locks[a] \subseteq keys[a]
  /\ Named /\ ReadBefore /\ HeldInside /\ HeldInOrder

LEMMA ReleaseKeeps ==
  ASSUME RequestsInv, NEW a \in Attempts, NEW s \in Steps, Release(a, s), UNCHANGED now,
         s # "idle" => step[a] # "idle"
  PROVE  RequestsInv'
<1> USE DEF RequestsInv, Release
<1>1. step' \in [Attempts -> Steps] /\ name' \in [Attempts -> Keys \cup {0}] /\ readAt' \in [Attempts -> Nat]
  OBVIOUS
<1>2. keys' \in [Attempts -> SUBSET Keys] /\ locks' \in [Attempts -> SUBSET Keys]
  OBVIOUS
<1>3. /\ locks'[a] = {} /\ keys'[a] = {}
      /\ \A b \in Attempts \ {a} : locks'[b] = locks[b] /\ keys'[b] = keys[b] /\ step'[b] = step[b]
  OBVIOUS
<1>4. \A b \in Attempts : locks'[b] \subseteq keys'[b]
  BY <1>3
<1>5. Named' /\ ReadBefore'
  BY LockoutAssumption DEF Named, ReadBefore
<1>6. HeldInside'
  BY <1>3 DEF HeldInside
<1>7. HeldInOrder'
  BY <1>3 DEF HeldInOrder
<1> QED
  BY <1>1, <1>2, <1>4, <1>5, <1>6, <1>7

LEMMA TakeLockKeeps ==
  ASSUME RequestsInv, NEW a \in Attempts, TakeLock(a)
  PROVE  RequestsInv'
<1> USE DEF RequestsInv
<1>1. PICK k \in Keys : IsNext(a, k) /\ locks' = [locks EXCEPT ![a] = @ \cup {k}]
  BY DEF TakeLock
<1>2. UNCHANGED <<now, step, name, readAt, keys>> /\ step[a] \in {"reserve", "succeeded", "void"}
  BY DEF TakeLock
<1>3. k \in keys[a] \ locks[a] /\ \A j \in keys[a] \ locks[a] : k <= j
  BY <1>1 DEF IsNext
<1>4. /\ locks' \in [Attempts -> SUBSET Keys] /\ locks'[a] = locks[a] \cup {k}
      /\ \A b \in Attempts \ {a} : locks'[b] = locks[b]
  BY <1>1
<1>5. \A b \in Attempts : locks'[b] \subseteq keys'[b]
  BY <1>2, <1>3, <1>4
<1>6. Named' /\ ReadBefore' /\ HeldInside'
  BY <1>2, <1>4 DEF Named, ReadBefore, HeldInside
<1>7. HeldInOrder'
  BY <1>2, <1>3, <1>4 DEF HeldInOrder
<1> QED
  BY <1>2, <1>4, <1>5, <1>6, <1>7

LEMMA ArriveKeeps ==
  ASSUME RequestsInv, NEW a \in Attempts, NEW n \in Keys, Arrive(a, n)
  PROVE  RequestsInv'
<1> USE DEF RequestsInv
<1>1. PICK ks \in SUBSET Keys : keys' = [keys EXCEPT ![a] = ks]
  BY DEF Arrive, Identifiers
<1>2. /\ step[a] = "idle" /\ step' = [step EXCEPT ![a] = "reserve"] /\ name' = [name EXCEPT ![a] = n]
      /\ readAt' = [readAt EXCEPT ![a] = now] /\ UNCHANGED <<now, locks>>
  BY DEF Arrive
<1>3. locks[a] = {}
  BY <1>2 DEF HeldInside
<1>4. /\ step' \in [Attempts -> Steps] /\ name' \in [Attempts -> Keys \cup {0}]
      /\ keys' \in [Attempts -> SUBSET Keys]
      /\ \A b \in Attempts \ {a} : keys'[b] = keys[b] /\ step'[b] = step[b]
  BY <1>1, <1>2 DEF Steps
<1>5. readAt' \in [Attempts -> Nat] /\ ReadBefore' /\ Named'
  BY <1>2, LockoutAssumption DEF ReadBefore, Named
<1>6. \A b \in Attempts : locks'[b] \subseteq keys'[b]
  BY <1>2, <1>3, <1>4
<1>7. HeldInside' /\ HeldInOrder'
  BY <1>2, <1>3, <1>4 DEF HeldInside, HeldInOrder
<1> QED
  BY <1>2, <1>4, <1>5, <1>6, <1>7

LEMMA AnswerKeeps ==
  ASSUME RequestsInv, NEW a \in Attempts, NEW o \in {"succeeded", "void"}, Answer(a, o)
  PROVE  RequestsInv'
<1> USE DEF RequestsInv
<1>1. PICK ks \in SUBSET Keys : keys' = [keys EXCEPT ![a] = ks]
  BY DEF Answer, Identifiers, Named
<1>2. /\ step[a] = "check" /\ step' = [step EXCEPT ![a] = o] /\ UNCHANGED <<now, name, readAt, locks>>
  BY DEF Answer
<1>3. locks[a] = {}
  BY <1>2 DEF HeldInside
<1>4. /\ step' \in [Attempts -> Steps] /\ keys' \in [Attempts -> SUBSET Keys]
      /\ \A b \in Attempts \ {a} : keys'[b] = keys[b] /\ step'[b] = step[b]
  BY <1>1, <1>2 DEF Steps
<1>5. ReadBefore' /\ Named'
  BY <1>2 DEF ReadBefore, Named
<1>6. \A b \in Attempts : locks'[b] \subseteq keys'[b]
  BY <1>2, <1>3, <1>4
<1>7. HeldInside' /\ HeldInOrder'
  BY <1>2, <1>3, <1>4 DEF HeldInside, HeldInOrder
<1> QED
  BY <1>2, <1>4, <1>5, <1>6, <1>7

LEMMA DeployKeeps == RequestsInv /\ Deploy => RequestsInv'
<1> SUFFICES ASSUME RequestsInv, Deploy PROVE RequestsInv'
  OBVIOUS
<1> QED
  BY LockoutAssumption DEF RequestsInv, Deploy, Steps, Named, ReadBefore, HeldInside, HeldInOrder

-------------------------------------------------------------------------------
(* The rows. *)

\* The same of the rows, and of what the attempts have in them.
RowsInv ==
  /\ failedCount \in [Keys -> Nat] /\ lockedUntil \in [Keys -> Nat] /\ lastFailedAt \in [Keys -> Nat]
  /\ open \in [Keys -> SUBSET Attempts] /\ charged \in [Keys -> Int]
  /\ CountIsExact /\ LocksAreEarned /\ LocksAreArmed

LEMMA OpenIsFinite == ASSUME RowsInv, NEW k \in Keys PROVE IsFiniteSet(open[k])
  BY FS_Subset, LockoutAssumption DEF RowsInv

LEMMA OneOut ==
  ASSUME RowsInv, NEW k \in Keys, NEW a \in Attempts
  PROVE  Cardinality(open[k] \ {a}) = IF a \in open[k] THEN Cardinality(open[k]) - 1 ELSE Cardinality(open[k])
  BY OpenIsFinite, FS_RemoveElement

LEMMA AbandonKeeps ==
  ASSUME RowsInv, NEW as \in SUBSET Attempts, Abandon(as), UNCHANGED signInRows
  PROVE  RowsInv' /\ \A k \in Keys : open'[k] \subseteq open[k] /\ open'[k] \cap as = {}
<1> USE DEF RowsInv
<1>1. \A k \in Keys : /\ open'[k] = open[k] \ as
                      /\ charged'[k] = charged[k] + Cardinality(open[k] \cap as)
  BY DEF Abandon
<1>2. ASSUME NEW k \in Keys
      PROVE  /\ Cardinality(open[k]) \in Nat /\ Cardinality(open[k] \cap as) \in Nat
             /\ Cardinality(open[k] \ as) = Cardinality(open[k]) - Cardinality(open[k] \cap as)
  BY OpenIsFinite, FS_Difference, FS_Intersection, FS_CardinalityType
<1>3. ASSUME NEW k \in Keys
      PROVE  charged'[k] \in Int /\ failedCount[k] = charged'[k] + Cardinality(open'[k])
  <2> DEFINE lost == Cardinality(open[k] \cap as)
             left == Cardinality(open[k] \ as)
             all == Cardinality(open[k])
  <2>1. lost \in Nat /\ all \in Nat /\ left = all - lost
    BY <1>2
  <2>2. charged'[k] = charged[k] + lost /\ Cardinality(open'[k]) = left
    BY <1>1
  <2>3. failedCount[k] = charged[k] + all /\ charged[k] \in Int
    BY DEF CountIsExact
  <2> HIDE DEF lost, left, all
  <2> QED
    BY <2>1, <2>2, <2>3
<1>4. open' \in [Keys -> SUBSET Attempts] /\ charged' \in [Keys -> Int]
  BY <1>3 DEF Abandon
<1>5. UNCHANGED <<failedCount, lockedUntil, lastFailedAt>>
  BY DEF signInRows
<1>6. CountIsExact'
  BY <1>3, <1>5 DEF CountIsExact
<1>7. LocksAreEarned' /\ LocksAreArmed'
  BY <1>5 DEF LocksAreEarned, LocksAreArmed
<1> QED
  BY <1>1, <1>4, <1>5, <1>6, <1>7

LEMMA ReserveKeeps ==
  ASSUME RowsInv, NEW a \in Attempts, Reserve(a), readAt[a] \in Nat, keys[a] \subseteq Keys,
         \A k \in Keys : a \notin open[k]
  PROVE  RowsInv' /\ \A k \in Keys : open'[k] \subseteq open[k] \cup {a}
<1> USE DEF RowsInv
<1>1. ASSUME NEW k \in Keys
      PROVE  /\ failedCount'[k] \in Nat /\ lockedUntil'[k] \in Nat
             /\ failedCount'[k] = charged'[k] + Cardinality(open'[k])
             /\ lockedUntil'[k] > 0 =>
                  failedCount'[k] >= MaxFailed /\ lockedUntil'[k] <= lastFailedAt'[k] + MaxLock
             /\ failedCount'[k] >= MaxFailed =>
                  lockedUntil'[k] >= lastFailedAt'[k] + LockDuration(failedCount'[k])
             /\ open'[k] \subseteq open[k] \cup {a}
  <2>1. CASE k \notin keys[a]
    <3>1. /\ failedCount'[k] = failedCount[k] /\ lockedUntil'[k] = lockedUntil[k]
          /\ lastFailedAt'[k] = lastFailedAt[k] /\ open'[k] = open[k] /\ charged'[k] = charged[k]
      BY <2>1 DEF Reserve
    <3> QED
      BY <3>1 DEF CountIsExact, LocksAreEarned, LocksAreArmed
  <2>2. CASE k \in keys[a]
    <3> DEFINE n == failedCount'[k]
               d == LockDuration(failedCount'[k])
               before == Cardinality(open[k])
               after == Cardinality(open'[k])
    <3>1. /\ n = AfterFailure(k, readAt[a]) /\ lastFailedAt'[k] = readAt[a]
          /\ lockedUntil'[k] = IF d > 0 THEN readAt[a] + d ELSE 0
          /\ open'[k] = (IF Decayed(k, readAt[a]) THEN {a} ELSE open[k] \cup {a})
          /\ charged'[k] = (IF Decayed(k, readAt[a]) THEN 0 ELSE charged[k])
      BY <2>2 DEF Reserve
    <3>2. n \in Nat
      BY <3>1 DEF AfterFailure
    <3>3. d \in Nat /\ d <= MaxLock /\ (n < MaxFailed => d = 0) /\ (n >= MaxFailed => d > 0)
      BY <3>2, DurationFacts, LongEnough
    <3>4. failedCount[k] = charged[k] + before /\ before \in Nat
      BY OpenIsFinite, FS_CardinalityType DEF CountIsExact
    <3>5. after = IF Decayed(k, readAt[a]) THEN 1 ELSE before + 1
      <4>1. IsFiniteSet(open[k]) /\ a \notin open[k]
        BY OpenIsFinite
      <4>2. Cardinality(open[k] \cup {a}) = before + 1
        BY <4>1, FS_AddElement
      <4>3. Cardinality({a}) = 1
        BY FS_Singleton
      <4>4. CASE Decayed(k, readAt[a])
        BY <3>1, <4>3, <4>4
      <4>5. CASE ~Decayed(k, readAt[a])
        BY <3>1, <4>2, <4>5
      <4> QED
        BY <4>4, <4>5
    <3>6. n = charged'[k] + after
      <4> HIDE DEF n, before, after
      <4> QED
        BY <3>1, <3>4, <3>5 DEF AfterFailure
    <3>7. open'[k] \subseteq open[k] \cup {a}
      BY <3>1
    <3>8. /\ lockedUntil'[k] \in Nat
          /\ lockedUntil'[k] > 0 => n >= MaxFailed /\ lockedUntil'[k] <= lastFailedAt'[k] + MaxLock
          /\ n >= MaxFailed => lockedUntil'[k] >= lastFailedAt'[k] + d
      <4> HIDE DEF n, d
      <4> QED
        BY <3>1, <3>2, <3>3, LockoutAssumption
    <3> QED
      BY <3>2, <3>6, <3>7, <3>8
  <2> QED
    BY <2>1, <2>2
<1>2. /\ failedCount' \in [Keys -> Nat] /\ lastFailedAt' \in [Keys -> Nat]
      /\ lockedUntil' \in [Keys -> Nat]
  <2>1. \A k \in Keys : failedCount'[k] \in Nat /\ lockedUntil'[k] \in Nat
    BY <1>1
  <2> QED
    BY <2>1 DEF Reserve
<1>3. open' \in [Keys -> SUBSET Attempts] /\ charged' \in [Keys -> Int]
  BY DEF Reserve
<1>4. CountIsExact' /\ LocksAreEarned' /\ LocksAreArmed'
  BY <1>1 DEF CountIsExact, LocksAreEarned, LocksAreArmed
<1> QED
  BY <1>1, <1>2, <1>3, <1>4

LEMMA ClearKeeps ==
  ASSUME RowsInv, NEW a \in Attempts, NEW ks \in SUBSET Keys, RemoveRows(ks),
         open' \in [Keys -> SUBSET Attempts], charged' \in [Keys -> Int],
         \A k \in ks : open'[k] = {} /\ charged'[k] = 0,
         \A k \in Keys \ ks : \/ open'[k] = open[k] /\ charged'[k] = charged[k]
                              \/ open'[k] = open[k] \ {a} /\ charged'[k] = Stands(k, a)
  PROVE  RowsInv'
<1> USE DEF RowsInv
<1>1. /\ failedCount' \in [Keys -> Nat] /\ lockedUntil' \in [Keys -> Nat] /\ lastFailedAt' \in [Keys -> Nat]
      /\ \A k \in ks : failedCount'[k] = 0 /\ lockedUntil'[k] = 0
      /\ \A k \in Keys \ ks : /\ failedCount'[k] = failedCount[k] /\ lockedUntil'[k] = lockedUntil[k]
                              /\ lastFailedAt'[k] = lastFailedAt[k]
  BY DEF RemoveRows
<1>2. CountIsExact'
  <2> SUFFICES ASSUME NEW k \in Keys PROVE failedCount'[k] = charged'[k] + Cardinality(open'[k])
    BY DEF CountIsExact
  <2>1. CASE k \in ks
    <3>1. failedCount'[k] = 0 /\ charged'[k] = 0 /\ open'[k] = {}
      BY <1>1, <2>1
    <3> QED
      BY <3>1, FS_EmptySet
  <2>2. CASE k \notin ks
    <3> DEFINE before == Cardinality(open[k])
               left == Cardinality(open[k] \ {a})
    <3>1. failedCount[k] = charged[k] + before /\ before \in Nat
      BY OpenIsFinite, FS_CardinalityType DEF CountIsExact
    <3>2. left = IF a \in open[k] THEN before - 1 ELSE before
      BY OneOut
    <3>3. CASE open'[k] = open[k] /\ charged'[k] = charged[k]
      BY <1>1, <2>2, <3>1, <3>3
    <3>4. CASE open'[k] = open[k] \ {a} /\ charged'[k] = Stands(k, a)
      <4>1. Cardinality(open'[k]) = left /\ failedCount'[k] = failedCount[k] /\ charged[k] \in Int
        BY <1>1, <2>2, <3>4
      <4> HIDE DEF before, left
      <4> QED
        BY <3>1, <3>2, <3>4, <4>1 DEF Stands
    <3> QED
      BY <2>2, <3>3, <3>4
  <2> QED
    BY <2>1, <2>2
<1>3. LocksAreEarned' /\ LocksAreArmed'
  <2>1. LocksAreEarned'
    BY <1>1 DEF LocksAreEarned
  <2>2. LocksAreArmed'
    BY <1>1, LockoutAssumption DEF LocksAreArmed
  <2> QED
    BY <2>1, <2>2
<1> QED
  BY <1>1, <1>2, <1>3

LEMMA PruneKeeps ==
  ASSUME RowsInv, NEW a \in Attempts, Prune(a)
  PROVE  RowsInv' /\ \A k \in Keys : open'[k] \subseteq open[k]
<1> DEFINE old == {k \in Keys : failedCount[k] > 0 /\ lastFailedAt[k] < readAt[a] - Decay}
<1>1. /\ RemoveRows(old)
      /\ open' = [k \in Keys |-> IF k \in old THEN {} ELSE open[k]]
      /\ charged' = [k \in Keys |-> IF k \in old THEN 0 ELSE charged[k]]
  BY DEF Prune
<1>2. old \in SUBSET Keys
  OBVIOUS
<1> HIDE DEF old
<1>3. open' \in [Keys -> SUBSET Attempts] /\ charged' \in [Keys -> Int]
  BY <1>1 DEF RowsInv
<1>4. RowsInv'
  BY <1>1, <1>2, <1>3, ClearKeeps
<1> QED
  BY <1>1, <1>4

LEMMA SucceedKeeps ==
  ASSUME RowsInv, NEW a \in Attempts, Succeed(a), keys[a] \subseteq Keys
  PROVE  RowsInv' /\ \A k \in Keys : open'[k] \subseteq open[k] \ {a}
<1>1. /\ RemoveRows(keys[a])
      /\ open' = [k \in Keys |-> IF k \in keys[a] THEN {} ELSE open[k] \ {a}]
      /\ charged' = [k \in Keys |-> IF k \in keys[a] THEN 0 ELSE Stands(k, a)]
  BY DEF Succeed
<1>2. open' \in [Keys -> SUBSET Attempts] /\ charged' \in [Keys -> Int]
  BY <1>1 DEF RowsInv, Stands
<1>3. RowsInv'
  BY <1>1, <1>2, ClearKeeps
<1> QED
  BY <1>1, <1>3

LEMMA RefundKeeps ==
  ASSUME RowsInv, NEW a \in Attempts, Refund(a), keys[a] \subseteq Keys
  PROVE  RowsInv' /\ \A k \in Keys : open'[k] \subseteq open[k] \ {a}
<1> USE DEF RowsInv
<1> DEFINE gone == {k \in keys[a] : failedCount[k] = 1}
<1>1. /\ failedCount' = [k \in Keys |-> IF k \in Back(a) THEN failedCount[k] - 1 ELSE failedCount[k]]
      /\ lockedUntil' = [k \in Keys |-> IF k \in Back(a) THEN LockAfterRefund(k) ELSE lockedUntil[k]]
      /\ lastFailedAt' = [k \in Keys |-> IF k \in gone THEN 0 ELSE lastFailedAt[k]]
      /\ open' = [k \in Keys |-> IF k \in gone THEN {} ELSE open[k] \ {a}]
      /\ charged' = [k \in Keys |->
           IF k \in gone THEN 0
           ELSE IF k \in Back(a) THEN IF a \in open[k] THEN charged[k] ELSE charged[k] - 1
           ELSE Stands(k, a)]
  BY DEF Refund
<1>2. /\ \A k \in gone : k \in Back(a) /\ failedCount[k] = 1
      /\ \A k \in Back(a) \ gone : failedCount[k] > 1
      /\ \A k \in Back(a) : failedCount[k] > 0 /\ failedCount[k] - 1 \in Nat
  BY DEF Back
<1> HIDE DEF gone
<1>3. failedCount' \in [Keys -> Nat] /\ lastFailedAt' \in [Keys -> Nat]
  BY <1>1, <1>2
<1>4. lockedUntil' \in [Keys -> Nat]
  BY <1>1 DEF LockAfterRefund
<1>5. open' \in [Keys -> SUBSET Attempts] /\ charged' \in [Keys -> Int]
  BY <1>1 DEF Stands
<1>6. ASSUME NEW k \in Keys
      PROVE  /\ failedCount'[k] = charged'[k] + Cardinality(open'[k])
             /\ lockedUntil'[k] > 0 =>
                  failedCount'[k] >= MaxFailed /\ lockedUntil'[k] <= lastFailedAt'[k] + MaxLock
             /\ failedCount'[k] >= MaxFailed =>
                  lockedUntil'[k] >= lastFailedAt'[k] + LockDuration(failedCount'[k])
  <2> DEFINE before == Cardinality(open[k])
             left == Cardinality(open[k] \ {a})
             n == failedCount[k]
             d == LockDuration(n)
  <2>1. n = charged[k] + before /\ before \in Nat /\ n \in Nat /\ charged[k] \in Int
    BY OpenIsFinite, FS_CardinalityType DEF CountIsExact
  <2>2. left = IF a \in open[k] THEN before - 1 ELSE before
    BY OneOut
  <2>3. /\ lockedUntil[k] > 0 => n >= MaxFailed /\ lockedUntil[k] <= lastFailedAt[k] + MaxLock
        /\ n >= MaxFailed => lockedUntil[k] >= lastFailedAt[k] + d
        /\ lockedUntil[k] \in Nat /\ lastFailedAt[k] \in Nat
    BY DEF LocksAreEarned, LocksAreArmed
  <2>4. CASE k \in gone
    <3>1. failedCount'[k] = 0 /\ charged'[k] = 0 /\ open'[k] = {} /\ lockedUntil'[k] = 0
      BY <1>1, <1>2, <2>4, LockoutAssumption DEF LockAfterRefund
    <3> QED
      BY <3>1, FS_EmptySet, LockoutAssumption
  <2>5. CASE k \in Back(a) /\ k \notin gone
    <3>1. /\ failedCount'[k] = n - 1 /\ n > 1
          /\ lockedUntil'[k] = IF n - 1 >= MaxFailed THEN lockedUntil[k] ELSE 0
          /\ lastFailedAt'[k] = lastFailedAt[k] /\ Cardinality(open'[k]) = left
          /\ charged'[k] = IF a \in open[k] THEN charged[k] ELSE charged[k] - 1
      BY <1>1, <1>2, <2>5 DEF LockAfterRefund
    <3>2. LockDuration(n - 1) <= d /\ LockDuration(n - 1) \in Nat /\ d \in Nat
      <4>1. n - 1 \in Nat /\ (n - 1) + 1 = n
        BY <2>1, <3>1
      <4> QED
        BY <4>1, <2>1, DurationFacts
    <3>3. failedCount'[k] = charged'[k] + Cardinality(open'[k])
      <4> HIDE DEF before, left, n
      <4> QED
        BY <2>1, <2>2, <3>1
    <3>4. LockDuration(failedCount'[k]) = LockDuration(n - 1)
      BY <3>1
    <3> HIDE DEF n, d
    <3> QED
      BY <2>1, <2>3, <3>1, <3>2, <3>3, <3>4, LockoutAssumption
  <2>6. CASE k \notin Back(a)
    <3>1. /\ failedCount'[k] = n /\ lockedUntil'[k] = lockedUntil[k] /\ k \notin gone
          /\ lastFailedAt'[k] = lastFailedAt[k] /\ open'[k] = open[k] \ {a} /\ charged'[k] = Stands(k, a)
      BY <1>1, <1>2, <2>6
    <3>2. failedCount'[k] = charged'[k] + Cardinality(open'[k])
      <4>1. Cardinality(open'[k]) = left
        BY <3>1
      <4> HIDE DEF before, left, n
      <4> QED
        BY <2>1, <2>2, <3>1, <4>1 DEF Stands
    <3> QED
      BY <2>3, <3>1, <3>2
  <2> QED
    BY <1>2, <2>4, <2>5, <2>6
<1>7. CountIsExact' /\ LocksAreEarned' /\ LocksAreArmed'
  BY <1>6 DEF CountIsExact, LocksAreEarned, LocksAreArmed
<1>8. \A k \in Keys : open'[k] \subseteq open[k] \ {a}
  BY <1>1
<1> QED
  BY <1>3, <1>4, <1>5, <1>7, <1>8

-------------------------------------------------------------------------------
(* The specification. *)

LEMMA InvSplits == LockoutInv <=> RequestsInv /\ RowsInv /\ OpenIsReserved
  BY DEF LockoutInv, LockoutTypeOK, RequestsInv, RowsInv

\* What a request's step leaves of the reservations.
LEMMA OpenKeeps ==
  ASSUME OpenIsReserved, NEW a \in Attempts, step \in [Attempts -> Steps],
         \A b \in Attempts \ {a} : step'[b] = step[b],
         \A k \in Keys : open'[k] \subseteq open[k] \cup {a},
         step'[a] \in {"idle", "reserve", "refused"} => \A k \in Keys : a \notin open'[k]
  PROVE  OpenIsReserved'
  BY DEF OpenIsReserved

LEMMA SignInKeeps == ASSUME LockoutInv, NEW a \in Attempts, SignIn(a) PROVE LockoutInv'
<1>1. RequestsInv /\ RowsInv /\ OpenIsReserved
  BY InvSplits
<1>2. /\ step \in [Attempts -> Steps] /\ readAt[a] \in Nat /\ keys[a] \subseteq Keys
  BY <1>1 DEF RequestsInv
<1>3. \A k \in Keys : step[a] \in {"idle", "reserve", "refused"} => a \notin open[k]
  BY <1>1 DEF OpenIsReserved
<1>4. ASSUME NEW s \in Steps, Release(a, s)
      PROVE  step'[a] = s /\ \A b \in Attempts \ {a} : step'[b] = step[b]
  BY <1>2, <1>4 DEF Release
<1>5. ASSUME UNCHANGED <<signInRows, accounts>> PROVE RowsInv' /\ UNCHANGED open
  BY <1>1, <1>5 DEF signInRows, accounts, RowsInv, CountIsExact, LocksAreEarned, LocksAreArmed
<1>6. CASE \E n \in Keys : Arrive(a, n)
  <2>1. PICK n \in Keys : Arrive(a, n)
    BY <1>6
  <2>2. RequestsInv' /\ RowsInv' /\ UNCHANGED open
    BY <1>1, <1>5, <2>1, ArriveKeeps DEF Arrive
  <2>3. step[a] = "idle" /\ step' = [step EXCEPT ![a] = "reserve"]
    BY <2>1 DEF Arrive
  <2>4. OpenIsReserved'
    BY <1>1, <1>2, <1>3, <2>2, <2>3, OpenKeeps
  <2> QED
    BY <2>2, <2>4, InvSplits, PTL
<1>7. CASE TakeLock(a)
  <2>1. RequestsInv' /\ RowsInv' /\ UNCHANGED <<open, step>>
    BY <1>1, <1>5, <1>7, TakeLockKeeps DEF TakeLock
  <2>2. OpenIsReserved'
    BY <1>1, <2>1 DEF OpenIsReserved
  <2> QED
    BY <2>1, <2>2, InvSplits, PTL
<1>8. CASE Reserve(a)
  <2>1. step[a] = "reserve" /\ Release(a, "prune") /\ UNCHANGED now
    BY <1>8 DEF Reserve, Ready
  <2>2. RequestsInv'
    BY <1>1, <2>1, ReleaseKeeps DEF Steps
  <2>3. RowsInv' /\ \A k \in Keys : open'[k] \subseteq open[k] \cup {a}
    BY <1>1, <1>2, <1>3, <1>8, <2>1, ReserveKeeps
  <2>4. OpenIsReserved'
    BY <1>1, <1>2, <1>4, <2>1, <2>3, OpenKeeps DEF Steps
  <2> QED
    BY <2>2, <2>3, <2>4, InvSplits, PTL
<1>9. CASE Refuse(a)
  <2>1. step[a] = "reserve" /\ Release(a, "refused") /\ UNCHANGED now
    BY <1>9 DEF Refuse, Ready
  <2>2. RequestsInv'
    BY <1>1, <2>1, ReleaseKeeps DEF Steps
  <2>3. RowsInv' /\ UNCHANGED open
    BY <1>5, <1>9 DEF Refuse
  <2>4. OpenIsReserved'
    BY <1>1, <1>2, <1>3, <1>4, <2>1, <2>3, OpenKeeps DEF Steps
  <2> QED
    BY <2>2, <2>3, <2>4, InvSplits, PTL
<1>10. CASE Prune(a)
  <2> DEFINE s == IF step[a] = "prune" THEN "check" ELSE "idle"
  <2>1. step[a] \in {"prune", "refused"} /\ Release(a, s) /\ UNCHANGED now /\ s \in Steps
    BY <1>10 DEF Prune, Steps
  <2>2. RequestsInv'
    BY <1>1, <2>1, ReleaseKeeps
  <2>3. RowsInv' /\ \A k \in Keys : open'[k] \subseteq open[k]
    BY <1>1, <1>10, PruneKeeps
  <2>4. step[a] = "refused" => \A k \in Keys : a \notin open[k]
    BY <1>1 DEF OpenIsReserved
  <2>5. OpenIsReserved'
    BY <1>1, <1>2, <1>4, <2>1, <2>3, <2>4, OpenKeeps
  <2> QED
    BY <2>2, <2>3, <2>5, InvSplits, PTL
<1>11. CASE WrongPassword(a) \/ TransactionFails(a)
  <2>1. step[a] # "idle" /\ Release(a, "idle") /\ Abandon({a}) /\ UNCHANGED <<now, signInRows>>
    BY <1>11 DEF WrongPassword, TransactionFails
  <2>2. RequestsInv'
    BY <1>1, <2>1, ReleaseKeeps DEF Steps
  <2>3. RowsInv' /\ \A k \in Keys : open'[k] \subseteq open[k] /\ open'[k] \cap {a} = {}
    BY <1>1, <2>1, AbandonKeeps
  <2>4. OpenIsReserved'
    BY <1>1, <1>2, <1>4, <2>1, <2>3, OpenKeeps DEF Steps
  <2> QED
    BY <2>2, <2>3, <2>4, InvSplits, PTL
<1>12. CASE Answer(a, "succeeded") \/ Answer(a, "void")
  <2>1. PICK o \in {"succeeded", "void"} : Answer(a, o)
    BY <1>12
  <2>2. RequestsInv' /\ RowsInv' /\ UNCHANGED open
    BY <1>1, <1>5, <2>1, AnswerKeeps DEF Answer
  <2>3. step' = [step EXCEPT ![a] = o]
    BY <2>1 DEF Answer
  <2>4. OpenIsReserved'
    BY <1>1, <1>2, <2>2, <2>3, OpenKeeps
  <2> QED
    BY <2>2, <2>4, InvSplits, PTL
<1>13. CASE Succeed(a) \/ Refund(a)
  <2>1. step[a] # "idle" /\ Release(a, "idle") /\ UNCHANGED now
    BY <1>13 DEF Succeed, Refund, Ready
  <2>2. RequestsInv'
    BY <1>1, <2>1, ReleaseKeeps DEF Steps
  <2>3. RowsInv' /\ \A k \in Keys : open'[k] \subseteq open[k] \ {a}
    BY <1>1, <1>2, <1>13, SucceedKeeps, RefundKeeps
  <2>4. OpenIsReserved'
    BY <1>1, <1>2, <1>4, <2>1, <2>3, OpenKeeps DEF Steps
  <2> QED
    BY <2>2, <2>3, <2>4, InvSplits, PTL
<1> QED
  BY <1>6, <1>7, <1>8, <1>9, <1>10, <1>11, <1>12, <1>13 DEF SignIn

LEMMA NextLockout == LockoutInv /\ [LockoutNext]_lockoutVars => LockoutInv'
<1> SUFFICES ASSUME LockoutInv, [LockoutNext]_lockoutVars PROVE LockoutInv'
  OBVIOUS
<1>1. RequestsInv /\ RowsInv /\ OpenIsReserved
  BY InvSplits
<1>2. CASE Deploy
  <2>1. RequestsInv'
    BY <1>1, <1>2, DeployKeeps
  <2>2. RowsInv' /\ \A k \in Keys : open'[k] \cap Attempts = {}
    BY <1>1, <1>2, AbandonKeeps DEF Deploy
  <2>3. OpenIsReserved'
    BY <2>2 DEF OpenIsReserved
  <2> QED
    BY <2>1, <2>2, <2>3, InvSplits, PTL
<1>3. CASE Minute
  BY <1>3, LockoutAssumption DEF Minute, LockoutInv, LockoutTypeOK, OpenIsReserved, Named, ReadBefore,
     HeldInside, HeldInOrder, CountIsExact, LocksAreEarned, LocksAreArmed, signInRows, requests, accounts
<1>4. CASE UNCHANGED lockoutVars
  BY <1>4 DEF lockoutVars, LockoutInv, LockoutTypeOK, OpenIsReserved, Named, ReadBefore,
     HeldInside, HeldInOrder, CountIsExact, LocksAreEarned, LocksAreArmed, signInRows, requests, accounts
<1> QED
  BY <1>2, <1>3, <1>4, SignInKeeps DEF LockoutNext

\* However requests, deploys and time interleave, the rows and the requests
\* are well formed.
THEOREM SignInsAreWellFormed == LockoutSpec => []LockoutTypeOK
<1>1. LockoutInv => LockoutTypeOK
  BY DEF LockoutInv
<1> QED
  BY <1>1, InitLockout, NextLockout, PTL DEF LockoutSpec

\* A row counts the attempts still open and the failures that stand.
THEOREM CountsAreExact == LockoutSpec => []CountIsExact
<1>1. LockoutInv => CountIsExact
  BY DEF LockoutInv
<1> QED
  BY <1>1, InitLockout, NextLockout, PTL DEF LockoutSpec

\* A lock stands on a spent allowance, and ends.
THEOREM LocksEnd == LockoutSpec => []LocksAreEarned
<1>1. LockoutInv => LocksAreEarned
  BY DEF LockoutInv
<1> QED
  BY <1>1, InitLockout, NextLockout, PTL DEF LockoutSpec

\* Two attempts on the same names never wait for each other: the keys of the
\* one that waits, from its least on, are above those it holds.
THEOREM AttemptsDoNotDeadlock == LockoutSpec => []NoCircularWait
<1>1. LockoutInv => NoCircularWait
  <2> SUFFICES ASSUME LockoutInv, NEW a \in Attempts, NEW b \in Attempts, NEW j \in Keys, NEW k \in Keys,
                      IsNext(a, j), j \in locks[b], IsNext(b, k), k \in locks[a]
               PROVE  FALSE
    BY DEF NoCircularWait
  <2>1. k <= j /\ j <= k
    BY DEF LockoutInv, HeldInOrder, IsNext
  <2>2. j = k
    BY <2>1, LockoutAssumption
  <2> QED
    BY <2>2 DEF IsNext
<1> QED
  BY <1>1, InitLockout, NextLockout, PTL DEF LockoutSpec

\* Past the allowance no password is checked before the lock it has earned is
\* over.
THEOREM LocksAreRespected == LockoutSpec => LocksAreServed
<1>1. LockoutInv /\ [LockoutNext]_lockoutVars =>
        [\A a \in Attempts, k \in Keys :
           /\ step[a] = "reserve" /\ step'[a] = "prune" /\ k \in keys[a]
           /\ failedCount[k] >= MaxFailed
           => now >= lastFailedAt[k] + LockDuration(failedCount[k])]_lockoutVars
  <2> SUFFICES ASSUME LockoutInv, [LockoutNext]_lockoutVars, NEW a \in Attempts, NEW k \in Keys,
                      step[a] = "reserve", step'[a] = "prune", k \in keys[a], failedCount[k] >= MaxFailed
               PROVE  now >= lastFailedAt[k] + LockDuration(failedCount[k])
    OBVIOUS
  <2>1. Reserve(a)
    <3>1. step \in [Attempts -> Steps]
      BY DEF LockoutInv, LockoutTypeOK
    <3>2. ASSUME NEW b \in Attempts, SignIn(b), a # b \/ ~Reserve(b) PROVE FALSE
      BY <3>1, <3>2 DEF SignIn, Arrive, TakeLock, Reserve, Refuse, Prune, WrongPassword, Answer, Succeed,
         Refund, TransactionFails, Release, Ready
    <3>3. ~Deploy /\ ~Minute /\ ~UNCHANGED lockoutVars
      BY <3>1 DEF Deploy, Minute, requests, lockoutVars
    <3> QED
      BY <3>2, <3>3 DEF LockoutNext
  <2>2. ~Locked(k, readAt[a])
    BY <2>1 DEF Reserve
  <2>3. readAt[a] <= now /\ lockedUntil[k] >= lastFailedAt[k] + LockDuration(failedCount[k])
    BY DEF LockoutInv, ReadBefore, LocksAreArmed
  <2>4. LockDuration(failedCount[k]) \in Nat
    BY DurationFacts DEF LockoutInv, LockoutTypeOK
  <2> HIDE DEF LockoutInv
  <2>5. lastFailedAt[k] \in Nat /\ lockedUntil[k] \in Nat /\ readAt[a] \in Nat /\ now \in Nat
    BY DEF LockoutInv, LockoutTypeOK
  <2> DEFINE d == LockDuration(failedCount[k])
  <2>6. d \in Nat /\ lockedUntil[k] >= lastFailedAt[k] + d
    BY <2>3, <2>4
  <2> HIDE DEF d
  <2>7. now >= lastFailedAt[k] + d
    BY <2>2, <2>3, <2>5, <2>6 DEF Locked
  <2> QED
    BY <2>7 DEF d
<1> QED
  BY <1>1, InitLockout, NextLockout, PTL DEF LockoutSpec, LocksAreServed

(***************************************************************************)
(* The count, the lock and the order of the keys together, for any number  *)
(* of attempts and names.                                                  *)
(***************************************************************************)
THEOREM LocksAreSoundAlways == LockoutSpec => []LocksAreSound
BY CountsAreExact, LocksEnd, AttemptsDoNotDeadlock, PTL DEF LocksAreSound

===============================================================================
