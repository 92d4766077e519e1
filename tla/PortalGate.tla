----------------------------- MODULE PortalGate -----------------------------
(***************************************************************************)
(* The portal gate: PortalGate (one object of the sync worker's process),  *)
(* the calls Bitrix24CrmProvider.call makes through it, the probes, and    *)
(* the worker's start and loop around them.                                *)
(*                                                                         *)
(* The worker makes one portal call at a time.  An instant is kept as the  *)
(* time left until it (probeIn, holdFor) or the time passed since it (age, *)
(* loggedAge), both counted up to the longest wait that is compared.  A    *)
(* run of an entity is one walk: one call of the method it is metered as,  *)
(* through the transport Via.                                              *)
(***************************************************************************)
EXTENDS Integers, Sequences, FiniteSets

CONSTANTS
  Walked,     \* Methods a tick calls (crm.deal.list, crm.status.list, ...).
  Fresh,      \* Those whose runs count as a success of the freshness clock.
  Via,        \* Via[m]: the transport of a walked method: "batch", or itself.
  Profile,    \* The method of the probe and of the health check.
  Ladder,     \* Ladder[c]: waits before the probes of a gate of class c.
  MethodHold, \* METHOD_HOLD_MS.
  Tolerance,  \* TRANSIENT_TOLERANCE.
  MaxRetries, \* The retries of an ordinary call.
  SeedMaxAge, \* SEED_MAX_AGE_MS.
  Spendable,  \* Bound: methods whose operating budget the portal may find spent.
  Cap,        \* Bound: times passed are counted up to here.
  MaxProbes,  \* Bound: probes are counted up to here.
  MaxCrashes  \* Bound: restarts of the process.

Shut == {"THROTTLE", "CREDENTIAL", "TRANSIENT"}  \* Refusals that shut the gate.
Refusals == Shut \cup {"METHOD"}
Method == Walked \cup {Via[m] : m \in Walked} \cup {Profile}

ASSUME GateAssumption ==
  /\ Fresh \subseteq Walked /\ Spendable \subseteq Method /\ Profile \notin Walked
  /\ DOMAIN Via = Walked /\ \A m \in Walked : Via[m] # Profile
  /\ Ladder \in [Shut -> Seq(Nat \ {0})]
  /\ \A c \in Shut : Ladder[c] # << >>
  /\ \A c \in Shut : \A i \in 1..Len(Ladder[c]) : Ladder[c][i] <= Cap
  /\ \A c \in Shut : Len(Ladder[c]) <= MaxProbes + 1
ASSUME WaitAssumption ==
  /\ MethodHold \in Nat /\ Tolerance \in Nat \ {0} /\ MaxRetries \in Nat
  /\ SeedMaxAge \in Nat /\ Cap \in Nat /\ MaxProbes \in Nat /\ MaxCrashes \in Nat
  /\ MethodHold <= Cap /\ SeedMaxAge < Cap

VARIABLES
  answer,       \* How the portal answers now: "OK", or the refusal of every call.
  spent,        \* Methods whose operating budget is spent there.
  \* The gate:
  kind,         \* What shut it; "NONE" while it is open to calls.
  age,          \* since: how long ago.
  probeIn,      \* probeAt.
  probes, transientRun,
  holdFor,      \* methodHolds[m]; 0 = not held.
  \* The worker:
  pc, job, metered, attempt,
  said,         \* The class its last failed call reports.
  todo,         \* Entities left in the tick.
  logged, loggedAge, \* sync_log: a failure newer than the last success.
  \* History, for the properties:
  sinceKnock,   \* Time since a request last left this process.
  refusedAgo,   \* refusedAgo[m]: since it last heard METHOD for m.
  crashes

outside == <<answer, spent>>
gate == <<kind, age, probeIn, probes, transientRun, holdFor>>
call == <<job, metered, attempt>>
log == <<logged, loggedAge>>
history == <<sinceKnock, refusedAgo>>
vars == <<outside, gate, pc, call, said, todo, log, history, crashes>>

Least(a, b) == IF a <= b THEN a ELSE b
Older(t) == Least(t + 1, Cap)
Nearer(t) == IF t = 0 THEN 0 ELSE t - 1

\* probeDelayMs: the last rung repeats.
Delay(c, n) == Ladder[c][Least(n + 1, Len(Ladder[c]))]

NotHeld == [m \in Method |-> 0]
NeverRefused == [m \in Method |-> Cap]

\* A new process: nothing is known of the portal.
Init ==
  /\ answer = "OK" /\ spent = {}
  /\ kind = "NONE" /\ age = 0 /\ probeIn = 0 /\ probes = 0 /\ transientRun = 0
  /\ holdFor = NotHeld
  /\ pc = "start" /\ job = "none" /\ metered = Profile /\ attempt = 0
  /\ said = "NONE" /\ todo = {}
  /\ logged = "NONE" /\ loggedAge = 0
  /\ sinceKnock = 0 /\ refusedAgo = NeverRefused
  /\ crashes = 0

-------------------------------------------------------------------------------
(* The gate's methods. *)

Transport == IF job = "tick" THEN Via[metered] ELSE metered

\* Mutant: only the transport is looked up, not the walked method.
HeldByTransportOnly == IF holdFor[Transport] > 0 THEN "METHOD" ELSE kind

\* Mutant: only the first attempt of a call asks.
HeldAtFirstAttemptOnly ==
  IF attempt > 0 THEN "NONE"
  ELSE IF holdFor[metered] > 0 THEN "METHOD"
  ELSE IF kind = "NONE" /\ holdFor[Transport] > 0 THEN "METHOD" ELSE kind

\* hold, asked for the walked method and then for its transport: what refuses
\* the call before it is sent.
HeldBy ==
  IF holdFor[metered] > 0 THEN "METHOD"
  ELSE IF kind = "NONE" /\ holdFor[Transport] > 0 THEN "METHOD" ELSE kind

\* openGate and seed.
Open(c, since) ==
  /\ kind' = c /\ age' = since
  /\ probes' = 0 /\ probeIn' = Delay(c, 0)

\* Mutant: a nameless failure replaces the refusal the gate names.
TripDemotes(c, m) ==
  /\ c \in Shut
  /\ transientRun' = 0 /\ UNCHANGED holdFor
  /\ IF kind = c THEN /\ probeIn' = Delay(c, probes)
                      /\ UNCHANGED <<kind, age, probes>>
                 ELSE Open(c, 0)

\* Mutant: nameless failures are counted on while the gate is shut.
TripCountsOn(c, m) ==
  /\ c = "TRANSIENT" => transientRun' = transientRun + 1
  /\ c # "TRANSIENT" => transientRun' = 0
  /\ holdFor' = IF c = "METHOD" THEN [holdFor EXCEPT ![m] = MethodHold] ELSE holdFor
  /\ IF kind = "NONE" /\ c # "METHOD" /\ (c = "TRANSIENT" => transientRun + 1 >= Tolerance)
     THEN Open(c, 0) ELSE UNCHANGED <<kind, age, probeIn, probes>>

\* trip: a refusal of class c, of method m.
Trip(c, m) ==
  \/ /\ c = "METHOD"
     /\ transientRun' = 0
     /\ holdFor' = [holdFor EXCEPT ![m] = MethodHold]
     /\ UNCHANGED <<kind, age, probeIn, probes>>
  \/ /\ c = "TRANSIENT" /\ UNCHANGED holdFor
     /\ transientRun' = IF kind = "NONE" THEN transientRun + 1 ELSE transientRun
     /\ IF kind = "NONE" /\ transientRun + 1 >= Tolerance
        THEN Open(c, 0) ELSE UNCHANGED <<kind, age, probeIn, probes>>
  \/ /\ c \in {"THROTTLE", "CREDENTIAL"} /\ UNCHANGED holdFor
     /\ transientRun' = 0
     /\ IF kind = c THEN /\ probeIn' = Delay(c, probes)
                         /\ UNCHANGED <<kind, age, probes>>
                    ELSE Open(c, 0)

\* Mutant: a success frees the method alone.
NoteSuccessOfMethod(m) ==
  /\ holdFor' = [holdFor EXCEPT ![m] = 0]
  /\ transientRun' = 0
  /\ UNCHANGED <<kind, age, probeIn, probes>>

\* noteSuccess of method m: the gate opens to every call.
NoteSuccess(m) ==
  /\ holdFor' = [holdFor EXCEPT ![m] = 0]
  /\ transientRun' = 0
  /\ kind' = "NONE" /\ age' = 0 /\ probeIn' = 0 /\ probes' = 0

NoteProbe ==
  /\ probes' = Least(probes + 1, MaxProbes)
  /\ probeIn' = Delay(kind, Least(probes + 1, MaxProbes))

-------------------------------------------------------------------------------
(* A call. *)

Sent == pc' = "sent" /\ sinceKnock' = 0

\* The gate admits an attempt, and it leaves.
SendAttempt ==
  /\ pc = "ask" /\ HeldBy = "NONE"
  /\ Sent
  /\ UNCHANGED <<outside, gate, call, said, todo, log, refusedAgo, crashes>>

\* The gate refuses it: the call fails and nothing is sent.
AttemptHeld ==
  /\ pc = "ask" /\ HeldBy # "NONE"
  /\ pc' = "failed" /\ said' = HeldBy
  /\ UNCHANGED <<outside, gate, call, todo, log, history, crashes>>

\* An answer with a payload.  A batch's commands are still to be read.
Answered ==
  /\ pc = "sent" /\ answer = "OK" /\ Transport \notin spent
  /\ NoteSuccess(Transport)
  /\ pc' = IF Transport # metered THEN "rows" ELSE "served"
  /\ UNCHANGED <<outside, call, said, todo, log, history, crashes>>

\* The refusal that answers the call; THROTTLE, METHOD and TRANSIENT come in
\* forms that are retried and forms that are not.
Heard == IF answer # "OK" THEN answer ELSE "METHOD"

Refused(again) ==
  /\ pc = "sent" /\ (answer # "OK" \/ Transport \in spent)
  /\ Trip(Heard, Transport)
  /\ again => Heard # "CREDENTIAL"
  /\ IF again /\ attempt < MaxRetries
     THEN pc' = "ask" /\ attempt' = attempt + 1 /\ UNCHANGED said
     ELSE pc' = "failed" /\ said' = Heard /\ UNCHANGED attempt
  /\ refusedAgo' = IF Heard = "METHOD" THEN [refusedAgo EXCEPT ![Transport] = 0]
                                       ELSE refusedAgo
  /\ UNCHANGED <<outside, job, metered, todo, log, sinceKnock, crashes>>

\* An error of the request or of one of its rows, which is not a refusal.
Rejected ==
  /\ (pc = "sent" /\ answer = "OK") \/ pc = "rows"
  /\ pc' = "failed" /\ said' = "NONE"
  /\ UNCHANGED <<outside, gate, call, todo, log, history, crashes>>

\* The commands of a batch: one of them may bury a refusal in result_error.
RowsRefused ==
  /\ pc = "rows"
  /\ \E c \in IF metered \in spent THEN {"METHOD"} ELSE {answer} \ {"OK", "TRANSIENT"} :
       /\ Trip(c, metered)
       /\ said' = c
       /\ refusedAgo' = IF c = "METHOD" THEN [refusedAgo EXCEPT ![metered] = 0]
                                        ELSE refusedAgo
  /\ pc' = "failed"
  /\ UNCHANGED <<outside, call, todo, log, sinceKnock, crashes>>

RowsRead ==
  /\ pc = "rows" /\ metered \notin spent
  /\ pc' = "served"
  /\ UNCHANGED <<outside, gate, call, said, todo, log, history, crashes>>

-------------------------------------------------------------------------------
(* The worker. *)

Done(step) == /\ pc' = step /\ job' = "none" /\ metered' = Profile /\ attempt' = 0
               /\ said' = "NONE"

\* What a call's caller does with it: the tick logs the run, a health check
\* that found no network seeds the gate, a probe is done with.
Served ==
  /\ pc = "served"
  /\ Done(IF job = "tick" THEN "tick" ELSE "loop")
  /\ IF metered \in Fresh THEN logged' = "NONE" /\ loggedAge' = 0 ELSE UNCHANGED log
  /\ UNCHANGED <<outside, gate, todo, history, crashes>>

RunFailed ==
  /\ pc = "failed" /\ job = "tick"
  /\ Done("tick")
  /\ logged' = said /\ loggedAge' = 0
  /\ UNCHANGED <<outside, gate, todo, history, crashes>>

ProbeFailed ==
  /\ pc = "failed" /\ job = "probe"
  /\ Done("loop")
  /\ UNCHANGED <<outside, gate, todo, log, history, crashes>>

\* A bare 5xx is TRANSIENT too, but no network failure: it seeds nothing.
HealthFailed ==
  /\ pc = "failed" /\ job = "health"
  /\ Done("loop")
  /\ \/ said = "TRANSIENT" /\ Open("TRANSIENT", 0) /\ UNCHANGED <<transientRun, holdFor>>
     \/ UNCHANGED gate
  /\ UNCHANGED <<outside, todo, log, history, crashes>>

Call(j, m) == job' = j /\ metered' = m /\ attempt' = 0

\* lastRefusal: a recent enough failure that shuts the gate.
Remembered == logged \in Shut /\ loggedAge <= SeedMaxAge

StartShut ==
  /\ pc = "start" /\ Remembered
  /\ Open(logged, loggedAge)
  /\ pc' = "loop"
  /\ UNCHANGED <<outside, transientRun, holdFor, call, said, todo, log, history, crashes>>

StartAsking ==
  /\ pc = "start" /\ ~ Remembered
  /\ Call("health", Profile)
  /\ pc' = "ask"
  /\ UNCHANGED <<outside, gate, said, todo, log, history, crashes>>

\* A shut gate is probed when the ladder says so, past the gate, once.
LeaveProbe ==
  /\ pc = "loop" /\ kind # "NONE" /\ probeIn = 0
  /\ NoteProbe
  /\ job' = "probe" /\ metered' = Profile /\ attempt' = MaxRetries
  /\ Sent
  /\ UNCHANGED <<outside, kind, age, transientRun, holdFor, said, todo, log, refusedAgo, crashes>>

BeginTick ==
  /\ pc = "loop" /\ kind = "NONE"
  /\ pc' = "tick" /\ todo' = Walked
  /\ UNCHANGED <<outside, gate, call, said, log, history, crashes>>

BeginRun(m) ==
  /\ pc = "tick" /\ m \in todo
  /\ Call("tick", m)
  /\ pc' = "ask" /\ todo' = todo \ {m}
  /\ UNCHANGED <<outside, gate, said, log, history, crashes>>

EndTick ==
  /\ pc = "tick" /\ todo = {}
  /\ pc' = "loop"
  /\ UNCHANGED <<outside, gate, call, said, todo, log, history, crashes>>

\* The process is replaced.  The database keeps sync_log.
Restart ==
  /\ crashes < MaxCrashes /\ crashes' = crashes + 1
  /\ kind' = "NONE" /\ age' = 0 /\ probeIn' = 0 /\ probes' = 0 /\ transientRun' = 0
  /\ holdFor' = NotHeld
  /\ Done("start") /\ todo' = {}
  /\ sinceKnock' = 0 /\ refusedAgo' = NeverRefused
  /\ UNCHANGED <<outside, log>>

-------------------------------------------------------------------------------
(* The portal and the clock. *)

PortalChanges ==
  /\ answer' \in {"OK"} \cup Shut
  /\ spent' \in SUBSET Spendable
  /\ UNCHANGED <<gate, pc, call, said, todo, log, history, crashes>>

Pass ==
  /\ age' = IF kind = "NONE" THEN 0 ELSE Older(age)
  /\ probeIn' = Nearer(probeIn)
  /\ holdFor' = [m \in Method |-> Nearer(holdFor[m])]
  /\ loggedAge' = IF logged = "NONE" THEN 0 ELSE Older(loggedAge)
  /\ sinceKnock' = Older(sinceKnock)
  /\ refusedAgo' = [m \in Method |-> Older(refusedAgo[m])]
  /\ UNCHANGED <<outside, kind, probes, transientRun, pc, call, said, todo, logged, crashes>>

Work ==
  \/ StartShut \/ StartAsking
  \/ SendAttempt \/ AttemptHeld
  \/ Answered \/ Rejected \/ RowsRefused \/ RowsRead
  \/ \E again \in BOOLEAN : Refused(again)
  \/ Served \/ RunFailed \/ ProbeFailed \/ HealthFailed
  \/ LeaveProbe
  \/ BeginTick \/ EndTick
  \/ \E m \in Walked : BeginRun(m)

Next == Work \/ Pass \/ Restart \/ PortalChanges

Spec == Init /\ [][Next]_vars

\* The worker's loop runs, time passes, and a request the portal could serve is
\* not answered with an error of its own for ever.
Fairness == WF_vars(Work) /\ WF_vars(Pass) /\ SF_vars(Answered)

FairSpec == Spec /\ Fairness

-------------------------------------------------------------------------------
(* Properties. *)

TypeOK ==
  /\ answer \in {"OK"} \cup Shut /\ spent \subseteq Spendable
  /\ kind \in {"NONE"} \cup Shut
  /\ age \in 0..Cap /\ probeIn \in 0..Cap
  /\ probes \in 0..MaxProbes /\ transientRun \in 0..Tolerance
  /\ holdFor \in [Method -> 0..MethodHold]
  /\ pc \in {"start", "loop", "tick", "ask", "sent", "rows", "served", "failed"}
  /\ job \in {"none", "health", "probe", "tick"}
  /\ metered \in Method /\ (job = "tick" => metered \in Walked)
  /\ attempt \in 0..MaxRetries
  /\ said \in {"NONE"} \cup Refusals
  /\ todo \subseteq Walked
  /\ logged \in {"NONE"} \cup Refusals /\ loggedAge \in 0..Cap
  /\ sinceKnock \in 0..Cap /\ refusedAgo \in [Method -> 0..Cap]
  /\ crashes \in Nat

Knock == pc # "sent" /\ pc' = "sent"

(***************************************************************************)
(* A refused portal is not knocked on: while the gate is shut, a request   *)
(* leaves the process only as a probe, and the wait of the current rung    *)
(* has passed since the request before it.  About hold, trip and noteProbe *)
(* across the retries of a call, the runs left in a tick, and restarts.    *)
(***************************************************************************)
KnocksAreSpaced ==
  [][Knock /\ kind # "NONE" => job' = "probe" /\ sinceKnock >= Delay(kind, probes)]_vars

(***************************************************************************)
(* One outage is one outage: once the worker has started, and until a call *)
(* succeeds, the gate stays shut, its since does not become later, the     *)
(* ladder does not fall back, and what shut it changes only to a refusal   *)
(* the portal names.  The 2026-09-16 incident in trip's comments.          *)
(***************************************************************************)
OutageIsOne ==
  [][kind # "NONE" /\ kind' # "NONE" /\ pc' # "start" /\ job # "health" =>
       \/ kind' = kind /\ age' >= age /\ probes' >= probes
       \/ kind' # kind /\ kind' \in {"THROTTLE", "CREDENTIAL"}]_vars

(***************************************************************************)
(* A method the portal refused for its operating budget is not asked again *)
(* by this process for MethodHold, whatever transport would carry it; nor  *)
(* is a transport that was itself refused.                                 *)
(***************************************************************************)
SpentMethodRests ==
  pc = "sent" /\ job = "tick" =>
    refusedAgo[metered] >= MethodHold /\ refusedAgo[Via[metered]] >= MethodHold

(***************************************************************************)
(* No deadlock of the gate: once the portal serves every call again, every *)
(* entity is asked for again and again.                                    *)
(***************************************************************************)
Recovers ==
  \A m \in Walked :
    <>[](answer = "OK" /\ spent = {}) => []<>(pc = "sent" /\ job = "tick" /\ metered = m)

-------------------------------------------------------------------------------
(* The inductive invariant behind the safety properties. *)

\* What is left of the rung, and what has passed since the last request.
RungIsPaid ==
  kind # "NONE" => sinceKnock + probeIn >= Delay(kind, probes) \/ sinceKnock = Cap

\* A hold lasts MethodHold from the refusal, and no held method is in flight.
HoldIsKept ==
  /\ \A m \in Method \ {Profile} : holdFor[m] + refusedAgo[m] >= MethodHold
  /\ pc = "sent" /\ job = "tick" => holdFor[metered] = 0 /\ holdFor[Via[metered]] = 0

GateInv ==
  /\ TypeOK /\ RungIsPaid /\ HoldIsKept
  /\ kind = "NONE" => transientRun < Tolerance
  /\ pc = "start" => kind = "NONE"
  /\ pc \in {"sent", "ask", "rows"} => job # "none"
  /\ job \in {"health", "probe", "none"} => metered = Profile

=============================================================================
