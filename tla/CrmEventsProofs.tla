--------------------------- MODULE CrmEventsProofs ---------------------------
(***************************************************************************)
(* No deal is lost to an event, and one that left is known to have left,   *)
(* for every set of deals and every limit.                                 *)
(***************************************************************************)
EXTENDS CrmEvents, FiniteSetTheorems, WellFoundedInduction, TLAPS

\* What a drain condemned before the deal came back, the next tick reads.
RestoredIsDirty == condemned \cap Here \subseteq dirty

\* A drain's decision does not outlive it, so no tick runs under one.
DecisionIsTheDrains == condemned # {} => pc \in {"write", "delete", "mark"}

\* What a tick still has to itself is part of the page it read.
CleanIsTheTicks == clean \subseteq page /\ (clean # {} => pc = "tick")

\* NothingLost alone is not inductive: DeleteDeals needs what it deletes to be
\* dirty if it came back, and TickWrite needs to forget only what it read.
SafeInv ==
  /\ portal \in [Deal -> Places]
  /\ CleanIsTheTicks
  /\ NothingLost
  /\ RestoredIsDirty
  /\ DecisionIsTheDrains

LEMMA InitSafe == Init => SafeInv
  BY LimitAssumption
     DEF Init, SafeInv, NothingLost, CleanIsTheTicks, RestoredIsDirty, DecisionIsTheDrains, Here

\* A change may bring a deal back, and then offers it to the next tick.
LEMMA ChangeSafe ==
  ASSUME SafeInv, NEW d \in Deal, NEW to \in Places, NEW kind, Change(d, to, kind)
  PROVE  SafeInv'
<1>1. Here' = IF to = "here" THEN Here \cup {d} ELSE Here \ {d}
  BY DEF Change, Here, SafeInv
<1>2. portal' \in [Deal -> Places] /\ CleanIsTheTicks'
  BY DEF Change, SafeInv, CleanIsTheTicks, drain
<1>3. NothingLost' /\ RestoredIsDirty'
  BY <1>1 DEF Change, SafeInv, NothingLost, RestoredIsDirty, drain
<1>4. DecisionIsTheDrains'
  BY DEF Change, SafeInv, DecisionIsTheDrains, drain
<1> QED BY <1>2, <1>3, <1>4 DEF SafeInv

LEMMA TickWriteSafe ==
  ASSUME SafeInv, NEW skipped, TickWrite(skipped)
  PROVE  SafeInv'
<1>1. Here' = Here /\ condemned = {} /\ condemned' = condemned
  BY DEF TickWrite, SafeInv, DecisionIsTheDrains, Here, outside, drain
<1>2. NothingLost'
  BY <1>1 DEF TickWrite, SafeInv, CleanIsTheTicks, NothingLost
<1> QED
  BY <1>1, <1>2 DEF TickWrite, SafeInv, CleanIsTheTicks, RestoredIsDirty, DecisionIsTheDrains,
                   outside

\* A deal condemned is one the portal did not return.
LEMMA ReadDealsSafe ==
  ASSUME SafeInv, ReadDeals
  PROVE  SafeInv'
<1>1. Here' = Here /\ condemned' \cap Here = {}
  BY DEF ReadDeals, Doomed, Here, outside
<1> QED
  BY <1>1 DEF ReadDeals, SafeInv, CleanIsTheTicks, NothingLost, RestoredIsDirty,
              DecisionIsTheDrains, outside

LEMMA DeleteDealsSafe ==
  ASSUME SafeInv, DeleteDeals
  PROVE  SafeInv'
<1>1. Here' = Here
  BY DEF DeleteDeals, Here, outside
<1> QED
  BY <1>1 DEF DeleteDeals, SafeInv, CleanIsTheTicks, NothingLost, RestoredIsDirty,
              DecisionIsTheDrains, outside, drain

\* Every other step keeps the deals, and condemns none.
Keeps ==
  /\ UNCHANGED <<portal, dirty>>
  /\ local \subseteq local'
  /\ CleanIsTheTicks'
  /\ \/ condemned' = {}
     \/ condemned' = condemned /\ (condemned # {} => pc' \in {"write", "delete", "mark"})

LEMMA KeepsSafe == SafeInv /\ Keeps => SafeInv'
<1> SUFFICES ASSUME SafeInv, Keeps PROVE SafeInv'
  OBVIOUS
<1>1. Here' = Here
  BY DEF Here, Keeps
<1> QED
  BY <1>1 DEF Keeps, SafeInv, NothingLost, RestoredIsDirty, DecisionIsTheDrains

LEMMA StepSafe == SafeInv /\ [Next]_vars => SafeInv'
<1> SUFFICES ASSUME SafeInv, [Next]_vars PROVE SafeInv'
  OBVIOUS
<1> USE DEF SafeInv, CleanIsTheTicks, DecisionIsTheDrains, outside, drain
<1>1. CASE UNCHANGED vars
  BY <1>1, KeepsSafe DEF Keeps, vars
<1>2. ASSUME NEW d \in Deal, NEW to \in Places, NEW kind, Change(d, to, kind)
      PROVE  SafeInv'
  BY <1>2, ChangeSafe
<1>3. ASSUME NEW e \in Event, Lose(e) \/ Record(e)
      PROVE  SafeInv'
  BY <1>3, KeepsSafe DEF Keeps, Lose, Record
<1>4. CASE TickRead
  BY <1>4, KeepsSafe DEF Keeps, TickRead
<1>5. CASE DrainStart
  <2>1. condemned = {} /\ clean = {}
    BY <1>5 DEF DrainStart
  <2> QED BY <1>5, <2>1, KeepsSafe DEF Keeps, DrainStart
<1>6. CASE Crash \/ DrainFails \/ MarkProcessed
  BY <1>6, KeepsSafe DEF Keeps, Crash, DrainFails, MarkProcessed, Leave
<1>7. ASSUME NEW skipped, TickWrite(skipped)
      PROVE  SafeInv'
  BY <1>7, TickWriteSafe
<1>8. ASSUME NEW skipped, WriteDeals(skipped)
      PROVE  SafeInv'
  BY <1>8, KeepsSafe DEF Keeps, WriteDeals
<1>9. CASE ReadDeals
  BY <1>9, ReadDealsSafe
<1>10. CASE DeleteDeals
  BY <1>10, DeleteDealsSafe
<1>11. ASSUME NEW n, Expire(n)
       PROVE  SafeInv'
  BY <1>11, KeepsSafe DEF Keeps, Expire
<1> QED
  BY <1>1, <1>2, <1>3, <1>4, <1>5, <1>6, <1>7, <1>8, <1>9, <1>10, <1>11 DEF Next, Work

(***************************************************************************)
(* Whatever a drain deletes, defers, holds or gives up on, and whatever    *)
(* change it races, a deal the imported pipelines have and the database    *)
(* lacks is one the next tick reads (syncWorker's drainPortalEvents and    *)
(* applyCrmEvents).                                                        *)
(***************************************************************************)
THEOREM NothingLostHolds == Spec => []NothingLost
<1>1. SafeInv => NothingLost
  BY DEF SafeInv
<1> QED
  BY InitSafe, StepSafe, <1>1, PTL DEF Spec

-------------------------------------------------------------------------------
(* The queue. *)

\* A set of naturals has its least.
LEMMA LeastNat ==
  ASSUME NEW T \in SUBSET Nat, T # {}
  PROVE  \E x \in T : \A y \in T : x <= y
<1> DEFINE R == OpToRel(<, Nat)
<1>1. IsWellFoundedOn(R, Nat)
  BY NatLessThanWellFounded
<1>2. \A x, y \in Nat : x < y => <<x, y>> \in R
  BY DEF OpToRel
<1> HIDE DEF R
<1>3. PICK x \in T : \A y \in T : ~ (<<y, x>> \in R)
  BY <1>1, WFMin
<1>4. \A y \in T : x <= y
  <2> TAKE y \in T
  <2>1. x \in Nat /\ y \in Nat /\ ~ (y < x)
    BY <1>2, <1>3
  <2> QED BY <2>1
<1> QED
  BY <1>4

Below(K, i) == {h \in K : h < i}

\* The members of a finite set of numbers, counted from the least.
LEMMA CountingUp ==
  ASSUME NEW K \in SUBSET Nat, IsFiniteSet(K)
  PROVE  /\ \A i \in K : Cardinality(Below(K, i)) + 1 \in 1..Cardinality(K)
         /\ \A i, j \in K : Cardinality(Below(K, i)) = Cardinality(Below(K, j)) => i = j
         /\ \A n \in 1..Cardinality(K) : \E i \in K : Cardinality(Below(K, i)) = n - 1
<1>1. \A i \in K : IsFiniteSet(Below(K, i)) /\ Cardinality(Below(K, i)) \in Nat
  <2>1. \A i \in K : Below(K, i) \in SUBSET K
    BY DEF Below
  <2> QED
    BY <2>1, FS_Subset, FS_CardinalityType
<1>2. Cardinality(K) \in Nat
  BY FS_CardinalityType
<1>3. ASSUME NEW i \in K PROVE Cardinality(Below(K, i)) < Cardinality(K)
  <2>1. Below(K, i) \in SUBSET (K \ {i})
    BY DEF Below
  <2>2. IsFiniteSet(K \ {i}) /\ Cardinality(K \ {i}) = Cardinality(K) - 1
    BY FS_RemoveElement
  <2>3. Cardinality(Below(K, i)) <= Cardinality(K \ {i})
    BY <2>1, <2>2, FS_Subset
  <2> QED
    BY <1>1, <1>2, <2>2, <2>3
<1>4. ASSUME NEW i \in K, NEW j \in K, i < j
      PROVE  Cardinality(Below(K, i)) < Cardinality(Below(K, j))
  <2>1. IsFiniteSet(Below(K, j) \ {i})
        /\ Cardinality(Below(K, j) \ {i}) = Cardinality(Below(K, j)) - 1
    BY <1>1, <1>4, FS_RemoveElement DEF Below
  <2>2. Below(K, i) \in SUBSET (Below(K, j) \ {i})
    <3> SUFFICES ASSUME NEW h \in K, h < i PROVE h < j /\ h # i
      BY DEF Below
    <3>1. h \in Nat /\ i \in Nat /\ j \in Nat
      OBVIOUS
    <3> QED
      BY <1>4, <3>1
  <2>3. Cardinality(Below(K, i)) <= Cardinality(Below(K, j) \ {i})
    BY <2>1, <2>2, FS_Subset
  <2> QED
    BY <1>1, <2>1, <2>3
<1>5. \A i, j \in K : Cardinality(Below(K, i)) = Cardinality(Below(K, j)) => i = j
  <2> SUFFICES ASSUME NEW i \in K, NEW j \in K, i # j
               PROVE  Cardinality(Below(K, i)) # Cardinality(Below(K, j))
    OBVIOUS
  <2>1. i \in Nat /\ j \in Nat
    OBVIOUS
  <2>2. i < j \/ j < i
    BY <2>1
  <2> QED
    BY <1>1, <1>4, <2>2
<1> DEFINE Unreached == {n \in Nat : n < Cardinality(K) /\ \A i \in K : Cardinality(Below(K, i)) # n}
<1>6. CASE Unreached # {}
  <2>1. PICK n \in Unreached : \A m \in Unreached : n <= m
    BY <1>6, LeastNat
  <2>2. CASE n = 0
    <3>1. K # {}
      BY <2>1, <2>2, FS_EmptySet
    <3>2. PICK i \in K : \A j \in K : i <= j
      BY <3>1, LeastNat
    <3>3. Below(K, i) = {}
      <4> SUFFICES ASSUME NEW h \in K, h < i PROVE FALSE
        BY DEF Below
      <4>1. h \in Nat /\ i \in Nat /\ i <= h
        BY <3>2
      <4> QED
        BY <4>1
    <3> QED
      BY <2>1, <2>2, <3>3, FS_EmptySet
  <2>3. CASE n # 0
    <3>1. n - 1 \in Nat /\ n - 1 < Cardinality(K) /\ n - 1 \notin Unreached
      <4>1. n - 1 \in Nat /\ n - 1 < n
        BY <2>3
      <4> QED
        BY <1>2, <2>1, <4>1
    <3>2. PICK i \in K : Cardinality(Below(K, i)) = n - 1
      BY <3>1
    <3> DEFINE Upper == {j \in K : j > i}
    <3>3. Upper # {}
      <4> SUFFICES ASSUME Upper = {} PROVE FALSE
        OBVIOUS
      <4>1. K = Below(K, i) \cup {i}
        <5> SUFFICES ASSUME NEW h \in K PROVE h < i \/ h = i
          BY DEF Below
        <5>1. h \in Nat /\ i \in Nat /\ ~ (h > i)
          OBVIOUS
        <5> QED
          BY <5>1
      <4>2. i \notin Below(K, i)
        BY DEF Below
      <4>3. Cardinality(K) = n
        BY <1>1, <3>1, <3>2, <4>1, <4>2, FS_AddElement
      <4> QED
        BY <2>1, <4>3
    <3>4. PICK m \in Upper : \A j \in Upper : m <= j
      BY <3>3, LeastNat
    <3>5. Below(K, m) = Below(K, i) \cup {i}
      <4>1. m \in Nat /\ i \in Nat /\ m > i
        OBVIOUS
      <4>2. \A h \in K : h < m => h < i \/ h = i
        <5> TAKE h \in K
        <5>1. h \in Nat /\ (h > i => m <= h)
          BY <3>4
        <5> QED
          BY <4>1, <5>1
      <4>3. \A h \in K : h < i => h < m
        BY <4>1
      <4> QED
        BY <4>1, <4>2, <4>3 DEF Below
    <3>6. Cardinality(Below(K, m)) = n
      <4>1. i \notin Below(K, i)
        BY DEF Below
      <4>2. Cardinality(Below(K, i) \cup {i}) = (n - 1) + 1
        BY <1>1, <3>2, <4>1, FS_AddElement
      <4> QED
        BY <3>5, <4>2
    <3> QED
      BY <2>1, <3>6
  <2> QED
    BY <2>2, <2>3
<1>7. \A n \in 1..Cardinality(K) : \E i \in K : Cardinality(Below(K, i)) = n - 1
  <2> SUFFICES ASSUME NEW n \in 1..Cardinality(K), Unreached = {}
               PROVE  \E i \in K : Cardinality(Below(K, i)) = n - 1
    BY <1>6
  <2>1. n - 1 \in Nat /\ n - 1 < Cardinality(K)
    BY <1>2
  <2> QED
    BY <2>1
<1>8. \A i \in K : Cardinality(Below(K, i)) + 1 \in 1..Cardinality(K)
  BY <1>1, <1>2, <1>3
<1> QED
  BY <1>5, <1>7, <1>8

\* Rows taken out of the queue leave the others, each once.
LEMMA WithoutFacts ==
  ASSUME queue \in Seq(Event), IsInjective(queue), NEW S, Without(S)
  PROVE  queue' \in Seq(Event) /\ IsInjective(queue') /\ Pending' = Pending \ S
<1> DEFINE kept == {i \in 1..Len(queue) : queue[i] \notin S}
           Nth(n) == CHOOSE i \in kept : Cardinality(Below(kept, i)) = n - 1
<1>1. queue' = [n \in 1..Cardinality(kept) |-> queue[Nth(n)]]
  BY DEF Without, Below
<1>2. /\ kept \in SUBSET Nat /\ IsFiniteSet(kept) /\ Cardinality(kept) \in Nat
      /\ DOMAIN queue = 1..Len(queue) /\ Len(queue) \in Nat
  <2>1. DOMAIN queue = 1..Len(queue) /\ Len(queue) \in Nat
    OBVIOUS
  <2>2. kept \in SUBSET (1..Len(queue)) /\ IsFiniteSet(1..Len(queue))
    BY <2>1, FS_Interval
  <2>3. IsFiniteSet(kept) /\ Cardinality(kept) \in Nat
    BY <2>2, FS_Subset, FS_CardinalityType
  <2> QED
    BY <2>1, <2>2, <2>3
<1>3. \A i \in kept : i \in DOMAIN queue /\ queue[i] \in Event /\ queue[i] \notin S
  BY <1>2
<1>4. \A e \in Pending \ S : \E i \in kept : e = queue[i]
  BY <1>2 DEF Pending
<1>5. \A i \in kept : queue[i] \in Pending
  BY <1>2 DEF Pending
<1> HIDE DEF kept
<1>6. \A n \in 1..Cardinality(kept) : Nth(n) \in kept /\ Cardinality(Below(kept, Nth(n))) = n - 1
  BY <1>2, CountingUp
<1>7. ASSUME NEW i \in kept PROVE \E n \in 1..Cardinality(kept) : Nth(n) = i
  <2> DEFINE n == Cardinality(Below(kept, i)) + 1
  <2>1. n \in 1..Cardinality(kept)
    BY <1>2, CountingUp
  <2>2. IsFiniteSet(Below(kept, i)) /\ Cardinality(Below(kept, i)) \in Nat
    <3>1. Below(kept, i) \in SUBSET kept
      BY DEF Below
    <3> QED
      BY <1>2, <3>1, FS_Subset, FS_CardinalityType
  <2>3. Cardinality(Below(kept, Nth(n))) = Cardinality(Below(kept, i)) /\ Nth(n) \in kept
    <3>1. Nth(n) \in kept /\ Cardinality(Below(kept, Nth(n))) = n - 1
      BY <1>6, <2>1
    <3> QED
      BY <2>2, <3>1
  <2> HIDE DEF Nth
  <2>4. Nth(n) = i
    <3>1. \A j \in kept : Cardinality(Below(kept, j)) = Cardinality(Below(kept, i)) => j = i
      BY <1>2, CountingUp
    <3> QED
      BY <2>3, <3>1
  <2> QED
    BY <2>1, <2>4
<1> HIDE DEF Nth
<1>8. /\ queue' \in [1..Cardinality(kept) -> Event]
      /\ DOMAIN queue' = 1..Cardinality(kept)
      /\ \A n \in 1..Cardinality(kept) : queue'[n] = queue[Nth(n)]
  BY <1>1, <1>3, <1>6
<1>9. queue' \in Seq(Event) /\ Len(queue') = Cardinality(kept)
  BY <1>2, <1>8
<1>10. IsInjective(queue')
  <2> SUFFICES ASSUME NEW m \in 1..Cardinality(kept), NEW n \in 1..Cardinality(kept),
                      queue'[m] = queue'[n]
               PROVE  m = n
    BY <1>8 DEF IsInjective
  <2>1. Nth(m) = Nth(n)
    BY <1>3, <1>6, <1>8 DEF IsInjective
  <2>2. m - 1 = n - 1 /\ m \in Nat /\ n \in Nat
    BY <1>2, <1>6, <2>1
  <2> QED
    BY <2>2
<1>11. Pending' = {queue'[n] : n \in 1..Cardinality(kept)}
  BY <1>9 DEF Pending
<1>12. \A e \in Pending' : e \in Pending \ S
  BY <1>3, <1>5, <1>6, <1>8, <1>11
<1>13. \A e \in Pending \ S : e \in Pending'
  BY <1>4, <1>7, <1>8, <1>11
<1> QED
  BY <1>9, <1>10, <1>12, <1>13

LEMMA AppendFacts ==
  ASSUME queue \in Seq(Event), IsInjective(queue), NEW e \in Event \ Pending,
         queue' = Append(queue, e)
  PROVE  queue' \in Seq(Event) /\ IsInjective(queue') /\ Pending' = Pending \cup {e}
<1>1. /\ Len(queue) \in Nat /\ DOMAIN queue = 1..Len(queue)
      /\ \A i \in 1..Len(queue) : queue[i] \in Event
  OBVIOUS
<1>2. /\ queue' \in Seq(Event) /\ Len(queue') = Len(queue) + 1
      /\ DOMAIN queue' = 1..(Len(queue) + 1) /\ queue'[Len(queue) + 1] = e
      /\ \A i \in 1..Len(queue) : queue'[i] = queue[i]
  BY <1>1
<1>3. \A i \in 1..(Len(queue) + 1) : i \in 1..Len(queue) \/ i = Len(queue) + 1
  BY <1>1
<1>4. \A i \in 1..Len(queue) : queue[i] # e
  BY DEF Pending
<1>5. IsInjective(queue')
  <2> SUFFICES ASSUME NEW i \in 1..(Len(queue) + 1), NEW j \in 1..(Len(queue) + 1),
                      queue'[i] = queue'[j]
               PROVE  i = j
    BY <1>2 DEF IsInjective
  <2> QED
    BY <1>1, <1>2, <1>3, <1>4 DEF IsInjective
<1>6. Pending' = {queue'[i] : i \in 1..(Len(queue) + 1)}
  BY <1>2 DEF Pending
<1>7. \A f \in Pending' : f \in Pending \cup {e}
  BY <1>2, <1>3, <1>6 DEF Pending
<1>8. \A f \in Pending : f \in Pending'
  <2>1. \A i \in 1..Len(queue) : i \in 1..(Len(queue) + 1)
    BY <1>1
  <2> QED
    BY <1>2, <1>6, <2>1 DEF Pending
<1>9. e \in Pending'
  <2>1. Len(queue) + 1 \in 1..(Len(queue) + 1)
    BY <1>1
  <2> QED
    BY <1>2, <1>6, <2>1
<1> QED
  BY <1>2, <1>5, <1>7, <1>8, <1>9

-------------------------------------------------------------------------------
(* A deal that left the pipelines is known to have left. *)

\* What still tells of a deal, and what will once the drain has marked its rows.
Known == DealsOf(inflight \cup Pending) \cup toSweep \cup swallowed
Fresh == DealsOf(inflight \cup (Pending \ (taken \cup deferred))) \cup toSweep \cup swallowed

\* A drain's rows and deals do not outlive it.
DrainIsOver ==
  /\ pc \in {"idle", "tick", "failed"} => taken = {} /\ deferred = {}
  /\ pc \in {"idle", "read", "failed"} => page = {}

\* A deal read while it was here, and gone since, is told of by a row to come.
PageIsWatched == page \ Here \subseteq Fresh

\* A deal whose deletion was put off as unknown is here only if just written.
DroppedIsNew == local \cap DealsOf(Deletes(deferred)) \subseteq page

DeletedIsGone == pc = "mark" => condemned \cap local = {}

\* GhostsAreKnown alone is not inductive: MarkProcessed takes rows away.
KnownInv ==
  TypeOK /\ DrainIsOver /\ PageIsWatched /\ DroppedIsNew /\ DeletedIsGone /\ GhostsAreKnown

LEMMA GhostsKnown == GhostsAreKnown <=> local \ Here \subseteq Known
  BY DEF GhostsAreKnown, Ghosts, Announced, Known

\* What the portal does tells of every deal it takes away.
LEMMA OutsideTells ==
  ASSUME KnownInv, NEW x \in Deal, x \notin Here',
         \/ \E d \in Deal, to \in {"here", "elsewhere", "absent"}, kind \in Saves \cup {"DELETE"} :
              Change(d, to, kind)
         \/ \E e \in Event : Lose(e) \/ Record(e)
  PROVE  /\ x \in Here \cup Known => x \in Known'
         /\ pc # "read" /\ x \in Here \cup Fresh => x \in Fresh'
<1> USE DEF KnownInv, Known, Fresh, DealsOf
<1>1. ASSUME NEW d \in Deal, NEW to, NEW kind, Change(d, to, kind)
      PROVE  /\ x \in Here \cup Known => x \in Known'
             /\ x \in Here \cup Fresh => x \in Fresh'
  <2>1. UNCHANGED <<queue, taken, deferred>> /\ Pending' = Pending
    BY <1>1 DEF Change, drain, Pending
  <2>2. CASE x = d
    <3>1. [deal |-> d, kind |-> kind] \in inflight' /\ [deal |-> d, kind |-> kind].deal = x
      BY <1>1, <2>2 DEF Change
    <3> QED
      BY <3>1
  <2>3. CASE x # d
    <3>1. x \notin Here
      BY <1>1, <2>3 DEF Change, Here, TypeOK
    <3> QED
      BY <1>1, <2>1, <2>3, <3>1 DEF Change
  <2> QED
    BY <2>2, <2>3
<1>2. ASSUME NEW e \in Event, Lose(e)
      PROVE  /\ x \in Here \cup Known => x \in Known'
             /\ x \in Here \cup Fresh => x \in Fresh'
  <2>1. /\ UNCHANGED <<queue, taken, deferred, swallowed>> /\ Pending' = Pending /\ x \notin Here
        /\ inflight' = inflight \ {e} /\ toSweep' = toSweep \cup ({e.deal} \ Here)
    BY <1>2 DEF Lose, drain, Pending, Here
  <2> QED
    BY <2>1
<1>3. ASSUME NEW e \in Event, Record(e)
      PROVE  /\ x \in Here \cup Known => x \in Known'
             /\ pc # "read" /\ x \in Here \cup Fresh => x \in Fresh'
  <2>1. /\ UNCHANGED <<taken, deferred, toSweep>> /\ x \notin Here
        /\ inflight \ {e} \subseteq inflight' /\ swallowed \subseteq swallowed'
        /\ e \in Used /\ x = e.deal => x \in swallowed'
    BY <1>3 DEF Record, drain, Here
  <2>2. Pending' = Pending \cup {e}
    <3>1. CASE e \in Pending
      BY <1>3, <3>1 DEF Record, Pending
    <3>2. CASE e \notin Pending
      BY <1>3, <3>2, AppendFacts DEF Record, TypeOK
    <3> QED
      BY <3>1, <3>2
  <2>3. pc # "read" => Used = taken \cup deferred
    BY DEF Used
  <2> QED
    BY <2>1, <2>2, <2>3
<1> QED
  BY <1>1, <1>2, <1>3

LEMMA OutsideKnown ==
  ASSUME KnownInv,
         \/ \E d \in Deal, to \in Places, kind \in Saves \cup {"DELETE"} : Change(d, to, kind)
         \/ \E e \in Event : Lose(e) \/ Record(e)
  PROVE  KnownInv'
<1> USE LimitAssumption
<1>1. /\ UNCHANGED <<local, pc, page, taken, deferred, condemned>>
      /\ \A x \in Deal : x \notin Here' =>
           /\ x \in Here \cup Known => x \in Known'
           /\ pc # "read" /\ x \in Here \cup Fresh => x \in Fresh'
  <2>1. UNCHANGED <<local, pc, page, taken, deferred, condemned>>
    BY DEF Change, Lose, Record, drain
  <2> QED
    BY <2>1, OutsideTells
<1>2. TypeOK'
  <2>1. ASSUME NEW d \in Deal, NEW to \in Places, NEW kind \in Saves \cup {"DELETE"},
               Change(d, to, kind)
        PROVE  TypeOK'
    <3>1. portal' \in [Deal -> Places] /\ inflight' \subseteq Event
      BY <2>1 DEF Change, KnownInv, TypeOK, Event
    <3>2. dirty' \subseteq Here' /\ clean' \subseteq dirty'
      BY <2>1 DEF Change, KnownInv, TypeOK, Here
    <3>3. UNCHANGED <<queue, taken, deferred, condemned, page, local, pc, Pending, Named>>
      BY <2>1 DEF Change, drain, Pending, Named
    <3> QED
      BY <2>1, <3>1, <3>2, <3>3 DEF Change, KnownInv, TypeOK
  <2>2. ASSUME NEW e \in Event, Lose(e) PROVE TypeOK'
    <3>1. UNCHANGED <<portal, Here, queue, taken, deferred, condemned, page, local, pc, dirty, clean,
                      Pending, Named>>
      BY <2>2 DEF Lose, drain, Pending, Named, Here
    <3>2. inflight' \subseteq Event /\ toSweep' \subseteq Deal /\ swallowed' \subseteq Deal
      BY <2>2 DEF Lose, KnownInv, TypeOK, Event
    <3> QED
      BY <3>1, <3>2 DEF KnownInv, TypeOK
  <2>3. ASSUME NEW e \in Event, Record(e) PROVE TypeOK'
    <3>1. UNCHANGED <<portal, Here, taken, deferred, condemned, page, local, pc, dirty, clean, Named>>
      BY <2>3 DEF Record, drain, Named, Here
    <3>2. inflight' \subseteq Event /\ toSweep' \subseteq Deal /\ swallowed' \subseteq Deal
      BY <2>3 DEF Record, KnownInv, TypeOK, Event
    <3>3. queue' \in Seq(Event) /\ IsInjective(queue') /\ Pending \subseteq Pending'
      <4>1. CASE e \in Pending
        BY <2>3, <4>1 DEF Record, KnownInv, TypeOK, Pending
      <4>2. CASE e \notin Pending
        BY <2>3, <4>2, AppendFacts DEF Record, KnownInv, TypeOK
      <4> QED
        BY <4>1, <4>2
    <3> QED
      BY <3>1, <3>2, <3>3 DEF KnownInv, TypeOK
  <2> QED
    BY <2>1, <2>2, <2>3
<1>3. DrainIsOver' /\ DroppedIsNew' /\ DeletedIsGone'
  BY <1>1 DEF KnownInv, DrainIsOver, DroppedIsNew, DeletedIsGone, DealsOf, Deletes
<1>4. PageIsWatched'
  <2>1. page \subseteq Deal /\ (pc = "read" => page = {})
    BY DEF KnownInv, TypeOK, DrainIsOver
  <2> QED
    BY <1>1, <2>1 DEF KnownInv, PageIsWatched
<1>5. GhostsAreKnown'
  <2>1. local \subseteq Deal /\ local \ Here \subseteq Known
    BY GhostsKnown DEF KnownInv, TypeOK
  <2>2. local' \ Here' \subseteq Known'
    BY <1>1, <2>1
  <2> QED
    BY <2>2 DEF GhostsAreKnown, Ghosts, Announced, Known
<1> QED
  BY <1>2, <1>3, <1>4, <1>5 DEF KnownInv

\* The tick reads deals that are here, and may write them after they have gone.
LEMMA TickKnown ==
  ASSUME KnownInv, TickRead \/ \E skipped \in SUBSET page : TickWrite(skipped)
  PROVE  KnownInv'
<1> USE DEF KnownInv
<1>1. /\ UNCHANGED <<portal, inflight, queue, taken, deferred, condemned, toSweep, swallowed>>
      /\ UNCHANGED <<Here, Pending, Known, Fresh, Named>>
      /\ pc \in {"idle", "tick"} /\ pc' \in {"idle", "tick"}
    BY DEF TickRead, TickWrite, outside, drain, Here, Pending, Known, Fresh, Named, DealsOf
<1>2. taken = {} /\ deferred = {} /\ condemned = {}
  BY <1>1 DEF DrainIsOver, TypeOK, Named, DealsOf
<1>3. CASE TickRead
  <2>1. local' = local /\ page' = dirty /\ clean' = dirty /\ dirty' = dirty /\ pc' = "tick"
    BY <1>3 DEF TickRead
  <2>2. TypeOK'
    BY <1>1, <1>2, <2>1 DEF TypeOK, Here
  <2> QED
    BY <1>1, <1>2, <2>1, <2>2
       DEF TypeOK, DrainIsOver, PageIsWatched, DroppedIsNew, DeletedIsGone, GhostsAreKnown, Ghosts,
           Announced, Known, Deletes, DealsOf
<1>4. CASE \E skipped \in SUBSET page : TickWrite(skipped)
  <2>1. PICK skipped \in SUBSET page :
          /\ local' = local \cup (page \ skipped) /\ dirty' = dirty \ (clean \ skipped)
          /\ page' = {} /\ clean' = {} /\ pc' = "idle"
    BY <1>4 DEF TickWrite
  <2>2. TypeOK'
    BY <1>1, <1>2, <2>1 DEF TypeOK
  <2>3. local' \ Here' \subseteq Known'
    <3>1. page \ Here \subseteq Known /\ local \ Here \subseteq Known
      BY GhostsKnown DEF PageIsWatched, Fresh, Known, DealsOf
    <3> QED
      BY <1>1, <2>1, <3>1
  <2>4. DrainIsOver' /\ PageIsWatched' /\ DroppedIsNew' /\ DeletedIsGone'
    BY <1>1, <1>2, <2>1
       DEF DrainIsOver, PageIsWatched, DroppedIsNew, DeletedIsGone, Deletes, DealsOf
  <2> QED
    BY <2>2, <2>3, <2>4 DEF GhostsAreKnown, Ghosts, Announced, Known
<1> QED
  BY <1>3, <1>4

\* What a drain takes and what it puts off are rows of the queue, and disjoint.
LEMMA BatchFacts ==
  ASSUME queue \in Seq(Event)
  PROVE  /\ Taken \subseteq Pending /\ Deferred \subseteq Pending \ Taken
         /\ local \cap DealsOf(Deletes(Deferred)) = {}
<1>1. Batch \subseteq Pending
  <2>1. Len(queue) \in Nat /\ DrainRows \in Nat
    BY LimitAssumption
  <2> QED
    BY <2>1 DEF Batch, Pending
<1>2. /\ Taken \subseteq Live /\ Live = Batch \ Dropped /\ Dropped \subseteq Batch
      /\ Flood => Taken \subseteq Deletes(Live)
  BY DEF Taken, TakeDistinct, Live, Dropped, Deletes
<1>3. Deferred \subseteq Batch \ Taken
  <2>1. CASE Flood
    BY <1>2, <2>1 DEF Deferred
  <2>2. CASE ~ Flood
    BY <1>2, <2>2 DEF Deferred
  <2> QED
    BY <2>1, <2>2
<1>4. Deletes(Deferred) \subseteq Dropped
  BY DEF Deferred, Deletes
<1>5. \A e \in Dropped : e.deal \notin local
  BY DEF Dropped
<1> QED
  BY <1>1, <1>2, <1>3, <1>4, <1>5 DEF DealsOf

LEMMA DrainStartKnown ==
  ASSUME KnownInv, DrainStart
  PROVE  KnownInv'
<1> USE DEF KnownInv
<1>1. /\ UNCHANGED <<portal, inflight, queue, local, dirty, page, clean, condemned, toSweep, swallowed>>
      /\ UNCHANGED <<Here, Pending, Known>>
      /\ taken' = Taken /\ deferred' = Deferred /\ pc' \in {"mark", "read"}
    BY DEF DrainStart, outside, Here, Pending, Known, DealsOf
<1>2. page = {} /\ condemned = {}
  BY DEF DrainStart, DrainIsOver, TypeOK, Named, DealsOf
<1>3. /\ Taken \subseteq Pending /\ Deferred \subseteq Pending \ Taken
      /\ local \cap DealsOf(Deletes(Deferred)) = {}
  BY BatchFacts DEF TypeOK
<1>4. TypeOK'
  BY <1>1, <1>2, <1>3 DEF TypeOK
<1>5. DroppedIsNew'
  <2>1. DealsOf(Deletes(deferred))' = DealsOf(Deletes(Deferred))
    BY <1>1 DEF DealsOf, Deletes
  <2> QED
    BY <1>1, <1>3, <2>1 DEF DroppedIsNew
<1>6. DrainIsOver' /\ PageIsWatched' /\ DeletedIsGone'
  BY <1>1, <1>2 DEF DrainIsOver, PageIsWatched, DeletedIsGone
<1>7. GhostsAreKnown'
  BY <1>1, GhostsKnown DEF GhostsAreKnown, Ghosts, Announced, Known
<1> QED
  BY <1>4, <1>5, <1>6, <1>7

\* What is read is here, and what is deleted was asked for and is not.
LEMMA ApplyKnown ==
  ASSUME KnownInv,
         ReadDeals \/ (\E skipped \in SUBSET page : WriteDeals(skipped)) \/ DeleteDeals
  PROVE  KnownInv'
<1> USE DEF KnownInv
<1>1. /\ UNCHANGED <<portal, inflight, queue, dirty, clean, taken, deferred, toSweep, swallowed>>
      /\ UNCHANGED <<Here, Pending, Known, Fresh, Named, DealsOf(Deletes(deferred))>>
    BY DEF ReadDeals, WriteDeals, DeleteDeals, outside, drain, Here, Pending, Known, Fresh, Named,
           DealsOf, Deletes
<1>2. CASE ReadDeals
  <2>1. /\ UNCHANGED local /\ page' = Named \cap Here /\ condemned' = Doomed /\ pc' = "write"
        /\ page = {}
    BY <1>2 DEF ReadDeals, DrainIsOver
  <2>2. Doomed \subseteq Named \ Here
    BY DEF Doomed
  <2>3. TypeOK'
    <3>1. Named \cap Here \subseteq Deal
      BY DEF Here
    <3> QED
      BY <1>1, <2>1, <2>2, <3>1 DEF TypeOK
  <2>4. DrainIsOver' /\ PageIsWatched' /\ DroppedIsNew' /\ DeletedIsGone'
    BY <1>1, <2>1 DEF DrainIsOver, PageIsWatched, DroppedIsNew, DeletedIsGone
  <2>5. GhostsAreKnown'
    BY <1>1, <2>1, GhostsKnown DEF GhostsAreKnown, Ghosts, Announced, Known
  <2> QED
    BY <2>3, <2>4, <2>5
<1>3. CASE \E skipped \in SUBSET page : WriteDeals(skipped)
  <2>1. /\ local \subseteq local' /\ local' \subseteq local \cup page
        /\ UNCHANGED <<page, condemned>> /\ pc' = "delete"
    BY <1>3 DEF WriteDeals, drain
  <2>2. TypeOK' /\ DrainIsOver' /\ PageIsWatched' /\ DroppedIsNew' /\ DeletedIsGone'
    BY <1>1, <1>3, <2>1
       DEF TypeOK, DrainIsOver, PageIsWatched, DroppedIsNew, DeletedIsGone, WriteDeals
  <2>3. local' \ Here' \subseteq Known'
    <3>1. page \ Here \subseteq Known /\ local \ Here \subseteq Known
      BY GhostsKnown DEF PageIsWatched, Fresh, Known, DealsOf
    <3> QED
      BY <1>1, <2>1, <3>1
  <2> QED
    BY <2>2, <2>3 DEF GhostsAreKnown, Ghosts, Announced, Known
<1>4. CASE DeleteDeals
  <2>1. local' = local \ condemned /\ UNCHANGED <<page, condemned>> /\ pc' = "mark"
    BY <1>4 DEF DeleteDeals, drain
  <2>2. TypeOK' /\ DrainIsOver' /\ PageIsWatched' /\ DroppedIsNew' /\ DeletedIsGone'
    BY <1>1, <1>4, <2>1
       DEF TypeOK, DrainIsOver, PageIsWatched, DroppedIsNew, DeletedIsGone, DeleteDeals
  <2>3. GhostsAreKnown'
    BY <1>1, <2>1, GhostsKnown DEF GhostsAreKnown, Ghosts, Announced, Known
  <2> QED
    BY <2>2, <2>3
<1> QED
  BY <1>2, <1>3, <1>4

\* Rows leave the queue with their drain, and their ghosts are named elsewhere:
\* by a row to come, or among the deals left to the nightly walk.
LEMMA MarkKnown ==
  ASSUME KnownInv, MarkProcessed
  PROVE  KnownInv'
<1> USE DEF KnownInv
<1> DEFINE held == Named \ (page \cup condemned)
           left == DealsOf(deferred \ Deletes(deferred))
<1>1. /\ UNCHANGED <<portal, inflight, local, dirty, swallowed, Here>>
      /\ taken' = {} /\ deferred' = {} /\ condemned' = {} /\ page' = {} /\ clean' = {}
      /\ pc = "mark" /\ pc' = "idle"
      /\ toSweep' = toSweep \cup ((held \cup left) \ Here)
    BY DEF MarkProcessed, Leave, outside, Here
<1>2. /\ queue' \in Seq(Event) /\ IsInjective(queue')
      /\ Pending' = Pending \ (taken \cup deferred)
  BY WithoutFacts DEF MarkProcessed, TypeOK
<1>3. taken \subseteq Event /\ deferred \subseteq Event
  <2>1. Pending \subseteq Event
    BY DEF Pending, TypeOK
  <2> QED
    BY <2>1 DEF TypeOK
<1>4. held \subseteq Deal /\ left \subseteq Deal
  BY <1>3 DEF Named, DealsOf, Event, Deletes
<1>5. TypeOK'
  <2>1. toSweep' \subseteq Deal
    BY <1>1, <1>4 DEF TypeOK
  <2> QED
    BY <1>1, <1>2, <2>1 DEF TypeOK, Named, DealsOf
<1>6. DrainIsOver' /\ PageIsWatched' /\ DroppedIsNew' /\ DeletedIsGone'
  BY <1>1 DEF DrainIsOver, PageIsWatched, DroppedIsNew, DeletedIsGone, DealsOf, Deletes
<1>7. Fresh \subseteq Known'
  BY <1>1, <1>2 DEF Fresh, Known, DealsOf
<1>8. ASSUME NEW x \in local \ Here PROVE x \in Known'
  <2>1. x \in Fresh \/ x \in Named \/ x \in DealsOf(deferred)
    <3>1. x \in Known
      BY GhostsKnown
    <3> QED
      BY <3>1 DEF Known, Fresh, Named, DealsOf
  <2>2. x \in page => x \in Fresh
    BY DEF PageIsWatched
  <2>3. CASE x \in Named /\ x \notin page
    <3>1. x \notin condemned
      BY <1>1 DEF DeletedIsGone
    <3> QED
      BY <1>1, <2>3, <3>1 DEF Known
  <2>4. CASE x \in DealsOf(deferred)
    <3>1. x \in DealsOf(Deletes(deferred)) \/ x \in left
      BY <2>4 DEF DealsOf, Deletes
    <3>2. x \in DealsOf(Deletes(deferred)) => x \in page
      BY DEF DroppedIsNew
    <3> QED
      BY <1>1, <1>7, <2>2, <3>1, <3>2 DEF Known
  <2> QED
    BY <1>7, <2>1, <2>2, <2>3, <2>4
<1>9. GhostsAreKnown'
  BY <1>1, <1>8 DEF GhostsAreKnown, Ghosts, Announced, Known
<1> QED
  BY <1>5, <1>6, <1>9

\* A drain that stops leaves its rows in the queue, and giving up on the oldest
\* rows leaves their deals to the nightly walk.
LEMMA StopKnown ==
  ASSUME KnownInv, DrainFails \/ Crash \/ \E n \in 0..Len(queue) : Expire(n)
  PROVE  KnownInv'
<1> USE DEF KnownInv
<1>1. CASE DrainFails \/ Crash
  <2>1. /\ UNCHANGED <<portal, inflight, queue, local, dirty, toSweep, swallowed>>
        /\ UNCHANGED <<Here, Pending, Known>>
        /\ taken' = {} /\ deferred' = {} /\ condemned' = {} /\ page' = {} /\ clean' = {}
        /\ pc' \in {"idle", "failed"}
    BY <1>1 DEF DrainFails, Crash, Leave, outside, Here, Pending, Known, DealsOf
  <2>2. TypeOK'
    BY <2>1 DEF TypeOK, Named, DealsOf
  <2>3. DrainIsOver' /\ PageIsWatched' /\ DroppedIsNew' /\ DeletedIsGone'
    BY <2>1 DEF DrainIsOver, PageIsWatched, DroppedIsNew, DeletedIsGone, DealsOf, Deletes
  <2>4. GhostsAreKnown'
    BY <2>1, GhostsKnown DEF GhostsAreKnown, Ghosts, Announced, Known
  <2> QED
    BY <2>2, <2>3, <2>4
<1>2. ASSUME NEW n \in 0..Len(queue), Expire(n) PROVE KnownInv'
  <2> DEFINE old == {queue[i] : i \in 1..n}
  <2>1. /\ UNCHANGED <<portal, inflight, local, dirty, page, clean, taken, deferred, condemned>>
        /\ UNCHANGED <<swallowed, Here>>
        /\ toSweep' = toSweep \cup (DealsOf(old) \ Here)
        /\ pc = "failed" /\ pc' = "idle"
    BY <1>2 DEF Expire, outside, drain, Here
  <2>2. queue' \in Seq(Event) /\ IsInjective(queue') /\ Pending' = Pending \ old
    BY <1>2, WithoutFacts DEF Expire, TypeOK
  <2>3. DealsOf(old) \subseteq Deal
    <3>1. Len(queue) \in Nat /\ \A i \in 1..Len(queue) : queue[i] \in Event
      BY DEF TypeOK
    <3>2. old \subseteq Event
      BY <3>1
    <3> QED
      BY <3>2 DEF DealsOf, Event
  <2>4. taken = {} /\ deferred = {} /\ page = {}
    BY <2>1 DEF DrainIsOver
  <2>5. TypeOK'
    <3>1. toSweep' \subseteq Deal
      BY <2>1, <2>3 DEF TypeOK
    <3> QED
      BY <2>1, <2>2, <2>4, <3>1 DEF TypeOK, Named, DealsOf
  <2>6. DrainIsOver' /\ PageIsWatched' /\ DroppedIsNew' /\ DeletedIsGone'
    BY <2>1, <2>4 DEF DrainIsOver, PageIsWatched, DroppedIsNew, DeletedIsGone, DealsOf, Deletes
  <2>7. local' \ Here' \subseteq Known'
    <3>1. local \ Here \subseteq Known
      BY GhostsKnown
    <3> QED
      BY <2>1, <2>2, <3>1 DEF Known, DealsOf
  <2> QED
    BY <2>5, <2>6, <2>7 DEF GhostsAreKnown, Ghosts, Announced, Known
<1> QED
  BY <1>1, <1>2

LEMMA InitKnown == Init => KnownInv
<1> SUFFICES ASSUME Init PROVE KnownInv
  OBVIOUS
<1>1. Pending = {} /\ Named = {}
  BY DEF Init, Pending, Named, DealsOf
<1>2. /\ portal \in [Deal -> Places] /\ Here \subseteq Deal
      /\ queue \in Seq(Event) /\ IsInjective(queue)
  BY LimitAssumption DEF Init, Here, IsInjective
<1>3. TypeOK
  BY <1>1, <1>2 DEF Init, TypeOK
<1> QED
  BY <1>1, <1>3
     DEF Init, KnownInv, DrainIsOver, PageIsWatched, DroppedIsNew, DeletedIsGone, GhostsAreKnown,
         Ghosts, DealsOf, Deletes

LEMMA StepKnown == KnownInv /\ [Next]_vars => KnownInv'
<1> SUFFICES ASSUME KnownInv, [Next]_vars PROVE KnownInv'
  OBVIOUS
<1>1. CASE UNCHANGED vars
  BY <1>1
     DEF vars, outside, drain, KnownInv, TypeOK, DrainIsOver, PageIsWatched, DroppedIsNew,
         DeletedIsGone, GhostsAreKnown, Ghosts, Announced, Fresh, Here, Pending, Named, DealsOf,
         Deletes, Event
<1>2. CASE \/ \E d \in Deal, to \in Places, kind \in Saves \cup {"DELETE"} : Change(d, to, kind)
           \/ \E e \in Event : Lose(e) \/ Record(e)
  BY <1>2, OutsideKnown
<1>3. CASE \/ TickRead \/ DrainStart \/ Crash
           \/ Work
  BY <1>3, TickKnown, DrainStartKnown, ApplyKnown, MarkKnown, StopKnown DEF Work
<1> QED
  BY <1>1, <1>2, <1>3 DEF Next

LEMMA AlwaysKnown == Spec => []KnownInv
  BY InitKnown, StepKnown, PTL DEF Spec

\* The rows of the queue, of a drain and of a tick's page are what they say.
THEOREM CrmEventsTypeOK == Spec => []TypeOK
<1>1. KnownInv => TypeOK
  BY DEF KnownInv
<1> QED
  BY AlwaysKnown, <1>1, PTL

\* A deal kept although it left the pipelines is named by an event to come, left
\* to the nightly walk, or its event met a row that a drain had already used.
THEOREM GhostsAreKnownHolds == Spec => []GhostsAreKnown
<1>1. KnownInv => GhostsAreKnown
  BY DEF KnownInv
<1> QED
  BY AlwaysKnown, <1>1, PTL
==============================================================================
