-------------------------------- MODULE Lockout --------------------------------
(***************************************************************************)
(* Sign-ins to one account (lockout.ts, signInHooks.ts): an attempt counts *)
(* as a failure before the password is checked and is settled after it,    *)
(* each in a transaction that locks its keys.  A key is a name of the      *)
(* account, hashed; keys are numbered in the order they are locked in.     *)
(* An attempt is a place for requests, one after another.                  *)
(***************************************************************************)
EXTENDS Integers, FiniteSets

CONSTANTS
  Keys,         \* The account's names: the login's key and the address.
  Attempts,     \* Bound: requests in flight.
  MaxFailed,    \* MAX_FAILED_SIGN_INS
  BaseLock, MaxLock,
  Decay,        \* FAILURE_DECAY_MS and PRUNE_AFTER_MS
  MaxNow        \* Bound: the clock.

ASSUME LockoutAssumption ==
  /\ Keys \subseteq Nat \ {0} /\ IsFiniteSet(Keys) /\ IsFiniteSet(Attempts)
  /\ MaxFailed \in Nat \ {0} /\ BaseLock \in Nat \ {0} /\ MaxLock \in Nat
  /\ BaseLock <= MaxLock /\ MaxLock <= Decay /\ Decay \in Nat /\ MaxNow \in Nat

VARIABLES
  now,
  \* The rows; failedCount 0 is no row, lockedUntil 0 is none.
  failedCount, lockedUntil, lastFailedAt,
  \* The requests:
  step, name, readAt,  \* Where each is, its name and its "now".
  keys, locks,         \* The keys of its transaction, and those it holds.
  \* For the properties, of each key, since its row began:
  open,    \* Attempts whose reservation is in the row.
  charged  \* Reservations that stand (wrong passwords, and settlements that
           \* never came), less the failures handed back by an attempt that
           \* had none in the row.

signInRows == <<failedCount, lockedUntil, lastFailedAt>>
requests == <<step, name, readAt, keys, locks>>
accounts == <<open, charged>>
lockoutVars == <<now, signInRows, requests, accounts>>

Steps == {"idle", "reserve", "prune", "refused", "check", "succeeded", "void"}

LockoutInit ==
  /\ now = 1
  /\ failedCount = [k \in Keys |-> 0]
  /\ lockedUntil = [k \in Keys |-> 0] /\ lastFailedAt = [k \in Keys |-> 0]
  /\ step = [a \in Attempts |-> "idle"]
  /\ name = [a \in Attempts |-> 0]
  /\ readAt = [a \in Attempts |-> 0]
  /\ keys = [a \in Attempts |-> {}] /\ locks = [a \in Attempts |-> {}]
  /\ open = [k \in Keys |-> {}] /\ charged = [k \in Keys |-> 0]

Lesser(m, n) == IF m <= n THEN m ELSE n

\* 2 ** min(doublings, 10)
Doubled == <<1, 2, 4, 8, 16, 32, 64, 128, 256, 512, 1024>>

LockDuration(n) ==
  IF n < MaxFailed THEN 0
  ELSE Lesser(BaseLock * Doubled[Lesser(n - MaxFailed, 10) + 1], MaxLock)

\* signInLockoutIdentifiers: the name as given, and the account's other one if
\* they differ, which an administrator may change between two lookups.
Identifiers(n) == {{n}, Keys}

-------------------------------------------------------------------------------
(* The transaction around a reservation or a settlement. *)

\* keysOf sorts.
IsNext(a, k) ==
  /\ k \in keys[a] \ locks[a]
  /\ \A j \in keys[a] \ locks[a] : k <= j

TakeLock(a) ==
  /\ step[a] \in {"reserve", "succeeded", "void"}
  /\ \E k \in Keys :
       /\ IsNext(a, k) /\ \A b \in Attempts : k \notin locks[b]
       /\ locks' = [locks EXCEPT ![a] = @ \cup {k}]
  /\ UNCHANGED <<now, signInRows, step, name, readAt, keys, accounts>>

Ready(a, s) == step[a] = s /\ locks[a] = keys[a]

\* The request goes on without the locks, or is over.
Release(a, s) ==
  /\ step' = [step EXCEPT ![a] = s]
  /\ locks' = [locks EXCEPT ![a] = {}] /\ keys' = [keys EXCEPT ![a] = {}]
  /\ name' = IF s = "idle" THEN [name EXCEPT ![a] = 0] ELSE name
  /\ readAt' = IF s \in {"idle", "check"} THEN [readAt EXCEPT ![a] = 0] ELSE readAt

\* What an attempt that ends without settling leaves behind it.
Abandon(as) ==
  /\ open' = [k \in Keys |-> open[k] \ as]
  /\ charged' = [k \in Keys |-> charged[k] + Cardinality(open[k] \cap as)]

-------------------------------------------------------------------------------
(* hooks.before: guardSignIn. *)

Arrive(a, n) ==
  /\ step[a] = "idle"
  /\ step' = [step EXCEPT ![a] = "reserve"] /\ name' = [name EXCEPT ![a] = n]
  /\ readAt' = [readAt EXCEPT ![a] = now]
  /\ \E ks \in Identifiers(n) : keys' = [keys EXCEPT ![a] = ks]
  /\ UNCHANGED <<now, signInRows, locks, accounts>>

Locked(k, at) == lockedUntil[k] > at
Decayed(k, at) == failedCount[k] > 0 /\ at - lastFailedAt[k] >= Decay

\* applyFailure
AfterFailure(k, at) == IF Decayed(k, at) THEN 1 ELSE failedCount[k] + 1

Reserve(a) ==
  /\ Ready(a, "reserve")
  /\ \A k \in keys[a] : ~Locked(k, readAt[a])
  /\ failedCount' = [k \in Keys |->
       IF k \in keys[a] THEN AfterFailure(k, readAt[a]) ELSE failedCount[k]]
  /\ lockedUntil' = [k \in Keys |->
       IF k \notin keys[a] THEN lockedUntil[k]
       ELSE IF LockDuration(failedCount'[k]) > 0
            THEN readAt[a] + LockDuration(failedCount'[k]) ELSE 0]
  /\ lastFailedAt' = [k \in Keys |-> IF k \in keys[a] THEN readAt[a] ELSE lastFailedAt[k]]
  /\ open' = [k \in Keys |->
       IF k \notin keys[a] THEN open[k]
       ELSE IF Decayed(k, readAt[a]) THEN {a} ELSE open[k] \cup {a}]
  /\ charged' = [k \in Keys |->
       IF k \in keys[a] /\ Decayed(k, readAt[a]) THEN 0 ELSE charged[k]]
  /\ Release(a, "prune")
  /\ UNCHANGED now

Refuse(a) ==
  /\ Ready(a, "reserve")
  /\ \E k \in keys[a] : Locked(k, readAt[a])
  /\ Release(a, "refused")
  /\ UNCHANGED <<now, signInRows, accounts>>

RemoveRows(ks) ==
  /\ failedCount' = [k \in Keys |-> IF k \in ks THEN 0 ELSE failedCount[k]]
  /\ lockedUntil' = [k \in Keys |-> IF k \in ks THEN 0 ELSE lockedUntil[k]]
  /\ lastFailedAt' = [k \in Keys |-> IF k \in ks THEN 0 ELSE lastFailedAt[k]]

\* Rows older than the decay go; then the password is checked, or the refusal sent.
Prune(a) ==
  LET old == {k \in Keys : failedCount[k] > 0 /\ lastFailedAt[k] < readAt[a] - Decay} IN
  /\ step[a] \in {"prune", "refused"}
  /\ RemoveRows(old)
  /\ open' = [k \in Keys |-> IF k \in old THEN {} ELSE open[k]]
  /\ charged' = [k \in Keys |-> IF k \in old THEN 0 ELSE charged[k]]
  /\ Release(a, IF step[a] = "prune" THEN "check" ELSE "idle")
  /\ UNCHANGED now

-------------------------------------------------------------------------------
(* hooks.after: settleSignIn, which looks the identifiers up again. *)

WrongPassword(a) ==
  /\ step[a] = "check"
  /\ Release(a, "idle")
  /\ Abandon({a})
  /\ UNCHANGED <<now, signInRows>>

Answer(a, outcome) ==
  /\ step[a] = "check"
  /\ step' = [step EXCEPT ![a] = outcome]
  /\ \E ks \in Identifiers(name[a]) : keys' = [keys EXCEPT ![a] = ks]
  /\ UNCHANGED <<now, signInRows, name, readAt, locks, accounts>>

\* The reservation of a key the attempt no longer names stands.
Stands(k, a) == IF a \in open[k] THEN charged[k] + 1 ELSE charged[k]

Succeed(a) ==
  /\ Ready(a, "succeeded")
  /\ RemoveRows(keys[a])
  /\ open' = [k \in Keys |-> IF k \in keys[a] THEN {} ELSE open[k] \ {a}]
  /\ charged' = [k \in Keys |-> IF k \in keys[a] THEN 0 ELSE Stands(k, a)]
  /\ Release(a, "idle")
  /\ UNCHANGED now

\* Mutant: the lock stays whatever the count falls to.
RefundKeepsLock(k) == lockedUntil[k]

\* Mutant: the lock goes with any failure handed back.
RefundLiftsLock(k) == 0

\* refundAttempt: below the threshold the lock goes with the failure.
LockAfterRefund(k) == IF failedCount[k] - 1 >= MaxFailed THEN lockedUntil[k] ELSE 0

\* Mutant: a failure is handed back whether or not there is one.
BackToAll(a) == keys[a]

Back(a) == {k \in keys[a] : failedCount[k] > 0}

Refund(a) ==
  LET gone == {k \in keys[a] : failedCount[k] = 1} IN
  /\ Ready(a, "void")
  /\ failedCount' = [k \in Keys |-> IF k \in Back(a) THEN failedCount[k] - 1 ELSE failedCount[k]]
  /\ lockedUntil' = [k \in Keys |-> IF k \in Back(a) THEN LockAfterRefund(k) ELSE lockedUntil[k]]
  /\ lastFailedAt' = [k \in Keys |-> IF k \in gone THEN 0 ELSE lastFailedAt[k]]
  /\ open' = [k \in Keys |-> IF k \in gone THEN {} ELSE open[k] \ {a}]
  /\ charged' = [k \in Keys |->
       IF k \in gone THEN 0
       ELSE IF k \in Back(a) THEN IF a \in open[k] THEN charged[k] ELSE charged[k] - 1
       ELSE Stands(k, a)]
  /\ Release(a, "idle")
  /\ UNCHANGED now

-------------------------------------------------------------------------------
(* The database, the process and the clock. *)

\* A transaction or the prune throws: nothing of it is written.
TransactionFails(a) ==
  /\ step[a] \in {"reserve", "prune", "refused", "succeeded", "void"}
  /\ Release(a, "idle")
  /\ Abandon({a})
  /\ UNCHANGED <<now, signInRows>>

Deploy ==
  /\ \E a \in Attempts : step[a] # "idle"
  /\ step' = [a \in Attempts |-> "idle"]
  /\ name' = [a \in Attempts |-> 0] /\ readAt' = [a \in Attempts |-> 0]
  /\ keys' = [a \in Attempts |-> {}] /\ locks' = [a \in Attempts |-> {}]
  /\ Abandon(Attempts)
  /\ UNCHANGED <<now, signInRows>>

Minute ==
  /\ now < MaxNow
  /\ now' = now + 1
  /\ UNCHANGED <<signInRows, requests, accounts>>

SignIn(a) ==
  \/ \E n \in Keys : Arrive(a, n)
  \/ TakeLock(a) \/ Reserve(a) \/ Refuse(a) \/ Prune(a)
  \/ WrongPassword(a) \/ Answer(a, "succeeded") \/ Answer(a, "void")
  \/ Succeed(a) \/ Refund(a) \/ TransactionFails(a)

LockoutNext == Deploy \/ Minute \/ \E a \in Attempts : SignIn(a)

LockoutSpec == LockoutInit /\ [][LockoutNext]_lockoutVars

-------------------------------------------------------------------------------
(* Properties. *)

LockoutTypeOK ==
  /\ now \in 1..(MaxNow + 1)
  /\ failedCount \in [Keys -> Nat] /\ lockedUntil \in [Keys -> Nat] /\ lastFailedAt \in [Keys -> Nat]
  /\ step \in [Attempts -> Steps] /\ name \in [Attempts -> Keys \cup {0}] /\ readAt \in [Attempts -> Nat]
  /\ keys \in [Attempts -> SUBSET Keys] /\ locks \in [Attempts -> SUBSET Keys]
  /\ \A a \in Attempts : locks[a] \subseteq keys[a]
  /\ open \in [Keys -> SUBSET Attempts] /\ charged \in [Keys -> Int]

(***************************************************************************)
(* Whatever the order of reservations and settlements, a row counts the    *)
(* attempts still open and the failures that stand: no more (an outage     *)
(* locks nobody out) and no less (five at once are five), but for what an  *)
(* attempt hands back after another one's success, or a change of names,   *)
(* has taken its own reservation away.                                     *)
(***************************************************************************)
CountIsExact == \A k \in Keys : failedCount[k] = charged[k] + Cardinality(open[k])

(***************************************************************************)
(* A lock stands on a spent allowance and ends: below the threshold there  *)
(* is none, however the count fell, and none lasts past the ceiling.       *)
(***************************************************************************)
LocksAreEarned ==
  \A k \in Keys : lockedUntil[k] > 0 =>
    failedCount[k] >= MaxFailed /\ lockedUntil[k] <= lastFailedAt[k] + MaxLock

(***************************************************************************)
(* Past the allowance a password is checked only when the lock the count   *)
(* has earned is over: a failure handed back does not shorten it, and the  *)
(* "now" an attempt took before it waited for its keys does not either.    *)
(***************************************************************************)
LocksAreServed ==
  [][\A a \in Attempts, k \in Keys :
       /\ step[a] = "reserve" /\ step'[a] = "prune" /\ k \in keys[a]
       /\ failedCount[k] >= MaxFailed
       => now >= lastFailedAt[k] + LockDuration(failedCount[k])]_lockoutVars

(***************************************************************************)
(* Two attempts on the same two names never wait for each other.           *)
(***************************************************************************)
NoCircularWait ==
  \A a, b \in Attempts, j, k \in Keys :
    ~(IsNext(a, j) /\ j \in locks[b] /\ IsNext(b, k) /\ k \in locks[a])

(***************************************************************************)
(* Sign-ins of one account meet in any order: the count is exact, the lock *)
(* it arms is earned and ends, and none waits for another in a circle      *)
(* (reserveSignInAttempt and settleSignInAttempt under their advisory      *)
(* locks).                                                                 *)
(***************************************************************************)
LocksAreSound == CountIsExact /\ LocksAreEarned /\ NoCircularWait

===============================================================================
