-------------------------- MODULE PortalGateProofs --------------------------
(* Proofs about PortalGate, for every set of methods and every ladder. *)
EXTENDS PortalGate, TLAPS

\* A rung is a wait of the ladder, within the cap.
LEMMA DelayType ==
  ASSUME NEW c \in Shut, NEW n \in Nat
  PROVE  Delay(c, n) \in 0..Cap
<1>1. Ladder[c] \in Seq(Nat \ {0}) /\ Ladder[c] # << >>
  BY GateAssumption
<1>2. Least(n + 1, Len(Ladder[c])) \in 1..Len(Ladder[c])
  BY <1>1 DEF Least
<1>3. Ladder[c][Least(n + 1, Len(Ladder[c]))] \in Nat
  BY <1>1, <1>2
<1>4. QED
  BY <1>2, <1>3, GateAssumption, WaitAssumption DEF Delay

LEMMA WalkedMethods ==
  /\ Profile \in Method
  /\ \A m \in Walked : m \in Method /\ Via[m] \in Method /\ m # Profile /\ Via[m] # Profile
  BY GateAssumption DEF Method

\* What the gate may become when it hears a refusal: types, and the rung.
LEMMA TripEffect ==
  ASSUME GateInv, NEW c \in Refusals, NEW m \in Method, Trip(c, m), sinceKnock' = sinceKnock
  PROVE  /\ kind' \in {"NONE"} \cup Shut /\ age' \in 0..Cap /\ probeIn' \in 0..Cap
         /\ probes' \in 0..MaxProbes /\ transientRun' \in 0..Tolerance
         /\ holdFor' \in [Method -> 0..MethodHold]
         /\ RungIsPaid' /\ (kind' = "NONE" => transientRun' < Tolerance)
         /\ holdFor' = IF c = "METHOD" THEN [holdFor EXCEPT ![m] = MethodHold] ELSE holdFor
<1> USE WaitAssumption DEF GateInv, TypeOK, RungIsPaid, Trip, Open, Shut, Refusals
<1>1. \A d \in Shut, n \in 0..MaxProbes : Delay(d, n) \in 0..Cap
  BY DelayType
<1>2. CASE c = "METHOD"
  BY <1>2
<1>3. CASE c = "TRANSIENT"
  BY <1>1, <1>3
<1>4. CASE c \in {"THROTTLE", "CREDENTIAL"}
  BY <1>1, <1>4
<1>5. QED
  BY <1>2, <1>3, <1>4

-------------------------------------------------------------------------------
(* The invariant is inductive. *)

LEMMA GateInit == Init => GateInv
<1> SUFFICES ASSUME Init PROVE GateInv
  OBVIOUS
<1> USE GateAssumption, WaitAssumption, WalkedMethods DEF Init, NotHeld, NeverRefused
<1>1. TypeOK
  BY DEF TypeOK
<1>2. RungIsPaid /\ HoldIsKept
  BY DEF RungIsPaid, HoldIsKept
<1>3. QED
  BY <1>1, <1>2 DEF GateInv

\* The steps that leave the gate alone.
LEMMA CallerSteps ==
  ASSUME GateInv, UNCHANGED gate, UNCHANGED <<crashes>>,
         \/ SendAttempt \/ AttemptHeld \/ Rejected \/ RowsRead
         \/ Served \/ RunFailed \/ ProbeFailed
         \/ StartAsking \/ BeginTick \/ EndTick \/ \E m \in Walked : BeginRun(m)
  PROVE  GateInv'
<1> USE WaitAssumption, WalkedMethods
    DEF GateInv, TypeOK, gate, outside, log, call, history, Sent, Done, Call, Refusals
<1>1. CASE SendAttempt
  <2>a. HeldBy = "NONE"
    BY <1>1 DEF SendAttempt
  <2>b. metered \in Method /\ Transport \in Method
    BY DEF Transport
  <2>c. holdFor[metered] \in Nat /\ holdFor[Transport] \in Nat
    BY <2>b
  <2>d. kind = "NONE" /\ holdFor[metered] = 0 /\ holdFor[Transport] = 0
    BY <2>a, <2>c DEF HeldBy
  <2>1. kind = "NONE" /\ holdFor[metered] = 0 /\ (job = "tick" => holdFor[Via[metered]] = 0)
    BY <2>d DEF Transport
  <2>2. TypeOK'
    BY <1>1 DEF SendAttempt
  <2>3. RungIsPaid'
    BY <1>1, <2>1 DEF SendAttempt, RungIsPaid
  <2>4. HoldIsKept'
    BY <1>1, <2>1 DEF SendAttempt, HoldIsKept
  <2>5. QED
    BY <1>1, <2>2, <2>3, <2>4 DEF SendAttempt
<1>2. CASE AttemptHeld
  BY <1>2 DEF AttemptHeld, HeldBy, RungIsPaid, HoldIsKept
<1>3. CASE Rejected
  BY <1>3 DEF Rejected, RungIsPaid, HoldIsKept
<1>4. CASE RowsRead
  BY <1>4 DEF RowsRead, RungIsPaid, HoldIsKept
<1>5. CASE Served
  <2>a. ASSUME metered \in Fresh PROVE TypeOK'
    BY <1>5, <2>a DEF Served
  <2>b. ASSUME metered \notin Fresh PROVE TypeOK'
    BY <1>5, <2>b DEF Served
  <2>1. TypeOK'
    BY <2>a, <2>b
  <2>2. RungIsPaid' /\ HoldIsKept'
    BY <1>5 DEF Served, RungIsPaid, HoldIsKept
  <2>3. QED
    BY <1>5, <2>1, <2>2 DEF Served
<1>6. CASE RunFailed
  <2>1. TypeOK'
    BY <1>6 DEF RunFailed
  <2>2. RungIsPaid' /\ HoldIsKept'
    BY <1>6 DEF RunFailed, RungIsPaid, HoldIsKept
  <2>3. QED
    BY <1>6, <2>1, <2>2 DEF RunFailed
<1>7. CASE ProbeFailed
  BY <1>7 DEF ProbeFailed, RungIsPaid, HoldIsKept
<1>8. CASE StartAsking
  BY <1>8 DEF StartAsking, RungIsPaid, HoldIsKept
<1>9. CASE BeginTick \/ EndTick
  BY <1>9 DEF BeginTick, EndTick, RungIsPaid, HoldIsKept
<1>10. CASE \E m \in Walked : BeginRun(m)
  <2> PICK m \in Walked : BeginRun(m)
    BY <1>10
  <2>1. TypeOK'
    BY DEF BeginRun
  <2>2. RungIsPaid' /\ HoldIsKept'
    BY DEF BeginRun, RungIsPaid, HoldIsKept
  <2>3. QED
    BY <2>1, <2>2 DEF BeginRun
<1>11. QED
  BY <1>1, <1>2, <1>3, <1>4, <1>5, <1>6, <1>7, <1>8, <1>9, <1>10

\* The steps that change the gate.
LEMMA GateSteps ==
  ASSUME GateInv,
         \/ Answered \/ RowsRefused \/ \E again \in BOOLEAN : Refused(again)
         \/ HealthFailed \/ StartShut \/ LeaveProbe
  PROVE  GateInv'
<1> USE WaitAssumption, WalkedMethods
    DEF outside, log, call, history, Refusals
<1>1. CASE Answered
  <2> USE <1>1 DEF Answered, NoteSuccess, GateInv
  <2>1. Transport \in Method
    BY DEF Transport, TypeOK
  <2>2. TypeOK'
    BY <2>1 DEF TypeOK
  <2>3. RungIsPaid'
    BY DEF RungIsPaid
  <2>4. \A m \in Method \ {Profile} : holdFor'[m] = holdFor[m]
    BY <2>1 DEF Transport, HoldIsKept, TypeOK
  <2>5. HoldIsKept'
    BY <2>4 DEF HoldIsKept
  <2>6. QED
    BY <2>2, <2>3, <2>5
<1>2. CASE RowsRefused
  <2> USE <1>2 DEF RowsRefused, GateInv
  <2>1. PICK c \in Refusals : /\ Trip(c, metered) /\ said' = c
                              /\ refusedAgo' = IF c = "METHOD" THEN [refusedAgo EXCEPT ![metered] = 0]
                                                               ELSE refusedAgo
    BY DEF TypeOK
  <2>2. metered \in Method
    BY DEF TypeOK
  <2> HIDE DEF GateInv
  <2>3. /\ kind' \in {"NONE"} \cup Shut /\ age' \in 0..Cap /\ probeIn' \in 0..Cap
        /\ probes' \in 0..MaxProbes /\ transientRun' \in 0..Tolerance
        /\ holdFor' \in [Method -> 0..MethodHold]
        /\ RungIsPaid' /\ (kind' = "NONE" => transientRun' < Tolerance)
        /\ holdFor' = IF c = "METHOD" THEN [holdFor EXCEPT ![metered] = MethodHold] ELSE holdFor
    BY <2>1, <2>2, TripEffect
  <2> USE DEF GateInv
  <2>4. TypeOK'
    BY <2>1, <2>3 DEF TypeOK
  <2>5. HoldIsKept'
    BY <2>1, <2>2, <2>3 DEF HoldIsKept, TypeOK
  <2>6. QED
    BY <2>3, <2>4, <2>5
<1>3. CASE \E again \in BOOLEAN : Refused(again)
  <2>1. PICK again \in BOOLEAN : Refused(again)
    BY <1>3
  <2> USE <2>1 DEF Refused, GateInv
  <2>2. Heard \in Refusals /\ Transport \in Method
    BY DEF Heard, Transport, TypeOK
  <2> HIDE DEF GateInv
  <2>3. /\ kind' \in {"NONE"} \cup Shut /\ age' \in 0..Cap /\ probeIn' \in 0..Cap
        /\ probes' \in 0..MaxProbes /\ transientRun' \in 0..Tolerance
        /\ holdFor' \in [Method -> 0..MethodHold]
        /\ RungIsPaid' /\ (kind' = "NONE" => transientRun' < Tolerance)
        /\ holdFor' = IF Heard = "METHOD" THEN [holdFor EXCEPT ![Transport] = MethodHold]
                                          ELSE holdFor
    BY <2>2, TripEffect
  <2> USE DEF GateInv
  <2>4. /\ pc' \in {"ask", "failed"} /\ job' = job /\ metered' = metered /\ attempt' \in 0..MaxRetries
        /\ pc = "sent"
    BY DEF TypeOK
  <2>5. said' \in {"NONE"} \cup Refusals
    BY <2>2 DEF TypeOK
  <2>6. refusedAgo' \in [Method -> 0..Cap]
    BY <2>2 DEF TypeOK
  <2> HIDE <2>1 DEF Refused
  <2>7. UNCHANGED <<answer, spent, todo, logged, loggedAge, sinceKnock, crashes>>
    BY <2>1 DEF Refused
  <2>8. TypeOK'
    BY <2>3, <2>4, <2>5, <2>6, <2>7 DEF TypeOK
  <2>9. refusedAgo' = IF Heard = "METHOD" THEN [refusedAgo EXCEPT ![Transport] = 0] ELSE refusedAgo
    BY <2>1 DEF Refused
  <2>10. \A m \in Method \ {Profile} : holdFor'[m] + refusedAgo'[m] >= MethodHold
    BY <2>2, <2>3, <2>9 DEF HoldIsKept, TypeOK
  <2>11. HoldIsKept'
    BY <2>4, <2>10 DEF HoldIsKept
  <2>12. QED
    BY <2>3, <2>4, <2>8, <2>11
<1>4. CASE HealthFailed
  <2> USE <1>4 DEF HealthFailed, GateInv, Done, Open, gate
  <2>1. Delay("TRANSIENT", 0) \in 0..Cap /\ "TRANSIENT" \in Shut
    BY DelayType DEF Shut
  <2>2. ASSUME Open("TRANSIENT", 0), UNCHANGED <<transientRun, holdFor>> PROVE GateInv'
    <3>1. TypeOK'
      BY <2>1, <2>2 DEF TypeOK
    <3>2. RungIsPaid'
      BY <2>1, <2>2 DEF RungIsPaid, TypeOK
    <3>3. HoldIsKept'
      BY <2>2 DEF HoldIsKept
    <3>4. QED
      BY <2>1, <2>2, <3>1, <3>2, <3>3 DEF Shut
  <2>3. ASSUME UNCHANGED gate PROVE GateInv'
    <3>1. TypeOK'
      BY <2>3 DEF TypeOK
    <3>2. RungIsPaid' /\ HoldIsKept'
      BY <2>3 DEF RungIsPaid, HoldIsKept
    <3>3. QED
      BY <2>3, <3>1, <3>2
  <2>4. QED
    BY <2>2, <2>3
<1>5. CASE StartShut
  <2> USE <1>5 DEF StartShut, Remembered, GateInv, Open
  <2>1. logged \in Shut /\ Delay(logged, 0) \in 0..Cap
    BY DelayType
  <2>2. TypeOK'
    BY <2>1 DEF TypeOK
  <2>3. RungIsPaid' /\ HoldIsKept'
    BY <2>1 DEF RungIsPaid, HoldIsKept, TypeOK
  <2>4. QED
    BY <2>2, <2>3 DEF Shut
<1>6. CASE LeaveProbe
  <2> USE <1>6 DEF LeaveProbe, NoteProbe, Sent, GateInv
  <2>1. Least(probes + 1, MaxProbes) \in 0..MaxProbes
    BY DEF Least, TypeOK
  <2>2. Delay(kind, Least(probes + 1, MaxProbes)) \in 0..Cap
    <3>1. kind \in Shut
      BY DEF TypeOK
    <3>2. 0..MaxProbes \subseteq Nat
      OBVIOUS
    <3>3. QED
      BY <2>1, <3>1, <3>2, DelayType
  <2>3. TypeOK'
    BY <2>1, <2>2 DEF TypeOK
  <2>4. RungIsPaid'
    BY <2>1, <2>2 DEF RungIsPaid, TypeOK
  <2>5. HoldIsKept'
    BY DEF HoldIsKept
  <2>6. QED
    BY <2>3, <2>4, <2>5
<1>7. QED
  BY <1>1, <1>2, <1>3, <1>4, <1>5, <1>6

LEMMA PassKeeps == GateInv /\ Pass => GateInv'
<1> SUFFICES ASSUME GateInv, Pass PROVE GateInv'
  OBVIOUS
<1> USE WaitAssumption
    DEF GateInv, Pass, outside, call, Older, Nearer, Least
<1>1. TypeOK'
  <2>0. age \in 0..Cap /\ probeIn \in 0..Cap /\ loggedAge \in 0..Cap /\ sinceKnock \in 0..Cap
    BY DEF TypeOK
  <2>a. age' \in 0..Cap
    BY <2>0
  <2>b. probeIn' \in 0..Cap
    BY <2>0
  <2>c. loggedAge' \in 0..Cap
    BY <2>0
  <2>d. sinceKnock' \in 0..Cap
    BY <2>0
  <2>1. age' \in 0..Cap /\ probeIn' \in 0..Cap /\ loggedAge' \in 0..Cap /\ sinceKnock' \in 0..Cap
    BY <2>a, <2>b, <2>c, <2>d
  <2>2. \A m \in Method : holdFor[m] \in 0..MethodHold /\ refusedAgo[m] \in 0..Cap
    BY DEF TypeOK
  <2>4. holdFor' \in [Method -> 0..MethodHold]
    BY <2>2
  <2>5. refusedAgo' \in [Method -> 0..Cap]
    BY <2>2
  <2>6. QED
    BY <2>1, <2>4, <2>5 DEF TypeOK
<1>2. RungIsPaid'
  <2>1. kind # "NONE" => Delay(kind, probes) \in 0..Cap
    <3>1. probes \in Nat /\ (kind # "NONE" => kind \in Shut)
      BY DEF TypeOK
    <3>2. QED
      BY <3>1, DelayType
  <2>2. QED
    BY <2>1 DEF RungIsPaid, TypeOK
<1>3. HoldIsKept'
  <2>1. \A m \in Method : holdFor[m] \in 0..MethodHold /\ refusedAgo[m] \in 0..Cap
    BY DEF TypeOK
  <2>2. \A m \in Method \ {Profile} : holdFor'[m] + refusedAgo'[m] >= MethodHold
    BY <2>1 DEF HoldIsKept
  <2>3. metered \in Method /\ (job = "tick" => Via[metered] \in Method)
    BY WalkedMethods DEF TypeOK
  <2>4. QED
    BY <2>2, <2>3 DEF HoldIsKept
<1>4. QED
  BY <1>1, <1>2, <1>3

LEMMA GateStep == GateInv /\ [Next]_vars => GateInv'
<1> SUFFICES ASSUME GateInv, [Next]_vars PROVE GateInv'
  OBVIOUS
<1>1. CASE \/ SendAttempt \/ AttemptHeld \/ Rejected \/ RowsRead
           \/ Served \/ RunFailed \/ ProbeFailed
           \/ StartAsking \/ BeginTick \/ EndTick \/ \E m \in Walked : BeginRun(m)
  <2>1. UNCHANGED gate /\ UNCHANGED <<crashes>>
    BY <1>1 DEF SendAttempt, AttemptHeld, Rejected, RowsRead, Served, RunFailed, ProbeFailed,
                StartAsking, BeginTick, EndTick, BeginRun
  <2>2. QED
    BY <1>1, <2>1, CallerSteps
<1>2. CASE \/ Answered \/ RowsRefused \/ \E again \in BOOLEAN : Refused(again)
           \/ HealthFailed \/ StartShut \/ LeaveProbe
  BY <1>2, GateSteps
<1>3. CASE Pass
  BY <1>3, PassKeeps
<1>4. CASE Restart
  <2> USE <1>4, WaitAssumption, WalkedMethods
      DEF Restart, Done, outside, log, GateInv, NotHeld, NeverRefused
  <2>1. TypeOK'
    BY DEF TypeOK
  <2>2. RungIsPaid' /\ HoldIsKept'
    BY DEF RungIsPaid, HoldIsKept
  <2>3. QED
    BY <2>1, <2>2
<1>5. CASE PortalChanges
  <2> USE <1>5 DEF PortalChanges, gate, call, log, history, GateInv
  <2>1. TypeOK'
    BY DEF TypeOK
  <2>2. RungIsPaid' /\ HoldIsKept'
    BY DEF RungIsPaid, HoldIsKept
  <2>3. QED
    BY <2>1, <2>2
<1>6. CASE UNCHANGED vars
  <2> USE <1>6 DEF vars, outside, gate, call, log, history, GateInv
  <2>1. TypeOK'
    BY DEF TypeOK
  <2>2. RungIsPaid' /\ HoldIsKept'
    BY DEF RungIsPaid, HoldIsKept
  <2>3. QED
    BY <2>1, <2>2
<1>7. QED
  BY <1>1, <1>2, <1>3, <1>4, <1>5, <1>6 DEF Next, Work

LEMMA GateInvariant == Spec => []GateInv
  BY GateInit, GateStep, PTL DEF Spec

-------------------------------------------------------------------------------
(* The theorems. *)

(***************************************************************************)
(* A method refused for its operating budget rests for MethodHold, however *)
(* many methods and transports there are: no held method is ever in flight.*)
(***************************************************************************)
THEOREM SpentMethodRestsHolds == Spec => []SpentMethodRests
<1>1. GateInv => SpentMethodRests
  <2> SUFFICES ASSUME GateInv, pc = "sent", job = "tick"
               PROVE  /\ refusedAgo[metered] >= MethodHold
                      /\ refusedAgo[Via[metered]] >= MethodHold
    BY DEF SpentMethodRests
  <2>1. /\ metered \in Method \ {Profile} /\ Via[metered] \in Method \ {Profile}
    BY WalkedMethods DEF GateInv, TypeOK
  <2>2. QED
    BY <2>1, WaitAssumption DEF GateInv, TypeOK, HoldIsKept
<1>2. QED
  BY <1>1, GateInvariant, PTL

(***************************************************************************)
(* While the gate is shut only probes leave, each a whole rung after the   *)
(* request before it: for every ladder, and through retries and restarts.  *)
(***************************************************************************)
THEOREM KnocksAreSpacedHolds == Spec => KnocksAreSpaced
<1> DEFINE Spaced == Knock /\ kind # "NONE" => job' = "probe" /\ sinceKnock >= Delay(kind, probes)
<1>1. GateInv /\ [Next]_vars => [Spaced]_vars
  <2> SUFFICES ASSUME GateInv, Next, Knock, kind # "NONE"
               PROVE  job' = "probe" /\ sinceKnock >= Delay(kind, probes)
    BY DEF Spaced
  <2>1. CASE LeaveProbe
    <3>1. kind \in Shut /\ probes \in Nat /\ probeIn = 0 /\ sinceKnock \in 0..Cap
      BY <2>1 DEF LeaveProbe, GateInv, TypeOK
    <3>2. Delay(kind, probes) \in 0..Cap
      BY <3>1, DelayType
    <3>3. QED
      BY <2>1, <3>1, <3>2 DEF LeaveProbe, GateInv, RungIsPaid
  <2>2. CASE SendAttempt
    <3>1. HeldBy # "NONE"
      BY DEF HeldBy, GateInv, TypeOK, Shut
    <3>2. QED
      BY <2>2, <3>1 DEF SendAttempt
  <2>3. LeaveProbe \/ SendAttempt
    BY DEF Knock, Next, Work, StartShut, StartAsking, AttemptHeld, Answered, Rejected,
           RowsRefused, RowsRead, Refused, Served, RunFailed, ProbeFailed, HealthFailed,
           BeginTick, EndTick, BeginRun, Pass, Restart, PortalChanges, Done, gate
  <2>4. QED
    BY <2>1, <2>2, <2>3
<1>2. QED
  BY <1>1, GateInvariant, PTL DEF Spec, KnocksAreSpaced

(***************************************************************************)
(* Until a call succeeds an outage is one outage: whatever it hears, trip  *)
(* neither resets its clock nor its ladder, and never lets a nameless      *)
(* failure replace the refusal it names.                                   *)
(***************************************************************************)
THEOREM OutageIsOneHolds == Spec => OutageIsOne
<1> DEFINE One == kind # "NONE" /\ kind' # "NONE" /\ pc' # "start" /\ job # "health" =>
                    \/ kind' = kind /\ age' >= age /\ probes' >= probes
                    \/ kind' # kind /\ kind' \in {"THROTTLE", "CREDENTIAL"}
<1>1. GateInv /\ [Next]_vars => [One]_vars
  <2> SUFFICES ASSUME GateInv, Next, kind # "NONE", kind' # "NONE", pc' # "start", job # "health"
               PROVE  \/ kind' = kind /\ age' >= age /\ probes' >= probes
                      \/ kind' # kind /\ kind' \in {"THROTTLE", "CREDENTIAL"}
    BY DEF One
  <2> USE WaitAssumption DEF GateInv
  <2>1. kind \in Shut /\ age \in 0..Cap /\ probes \in 0..MaxProbes
    BY DEF TypeOK
  <2>2. ASSUME NEW c, NEW m, Trip(c, m)
        PROVE  \/ kind' = kind /\ age' >= age /\ probes' >= probes
               \/ kind' # kind /\ kind' \in {"THROTTLE", "CREDENTIAL"}
    BY <2>1, <2>2 DEF Trip, Open, Shut
  <2>3. CASE RowsRefused \/ \E again \in BOOLEAN : Refused(again)
    BY <2>2, <2>3 DEF RowsRefused, Refused
  <2>4. CASE LeaveProbe
    BY <2>1, <2>4 DEF LeaveProbe, NoteProbe, Least
  <2>5. CASE Pass
    BY <2>1, <2>5 DEF Pass, Older, Least
  <2>6. CASE Answered \/ StartShut \/ HealthFailed \/ Restart
    BY <2>6 DEF Answered, NoteSuccess, StartShut, HealthFailed, Restart, Done
  <2>7. CASE UNCHANGED gate
    BY <2>1, <2>7 DEF gate
  <2>8. QED
    BY <2>3, <2>4, <2>5, <2>6, <2>7
    DEF Next, Work, SendAttempt, AttemptHeld, Rejected, RowsRead, Served, RunFailed,
        ProbeFailed, StartAsking, BeginTick, EndTick, BeginRun, PortalChanges
<1>2. QED
  BY <1>1, GateInvariant, PTL DEF Spec, OutageIsOne

\* Types, with the bound of the transient run.
THEOREM GateTypeCorrect == Spec => []TypeOK
<1>1. GateInv => TypeOK
  BY DEF GateInv
<1>2. QED
  BY <1>1, GateInvariant, PTL

===============================================================================
