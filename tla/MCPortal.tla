------------------------------ MODULE MCPortal ------------------------------
(* What goes on beside the import: a run by hand with the same engine, the   *)
(* sweep and the checks that take deals out again, the registrar's days that *)
(* are counted from them, and what every call to the portal waits for.  The  *)
(* parts share no state, so one of them runs and the others stay where they  *)
(* begin.  A minute is two instants, an hour three minutes; a day of counts  *)
(* is three units long, and its week one day.                                *)
EXTENDS MCSyncEngine, DealSweeps, PortalPace, DayClients, DayCounts

MCHeld == [d \in Ids |-> (d % 2) + 1]

\* A local number, a foreign one that ends in it, and another.
MCTailOf == [p \in NumberKeys |-> IF p = 12 THEN 11 ELSE p]

VARIABLE part   \* The part that runs.

MCInit ==
  /\ part \in {"runners", "sweeps", "pace", "clients", "days"}
  /\ Init /\ SweepsInit /\ PaceInit /\ CountsInit
  /\ ClientsInit
  /\ part = "clients" \/ \A d \in DayDeals : contactOf[d] = NoKey /\ ownNumber[d] = NoKey
  /\ part = "clients" \/ \A c \in DayContacts : numbersOf[c] = {}

MCNext ==
  /\ \/ part = "runners" /\ Next /\ UNCHANGED <<sweepVars, paceVars, clientVars, countVars>>
     \/ part = "sweeps" /\ SweepsNext /\ UNCHANGED <<vars, paceVars, clientVars, countVars>>
     \/ part = "pace" /\ PaceNext /\ UNCHANGED <<vars, sweepVars, clientVars, countVars>>
     \/ part = "clients" /\ ClientsNext /\ UNCHANGED <<vars, sweepVars, paceVars, countVars>>
     \/ part = "days" /\ CountsNext /\ UNCHANGED <<vars, sweepVars, paceVars, clientVars>>
  /\ UNCHANGED part

MCSpec == MCInit /\ [][MCNext]_<<vars, sweepVars, paceVars, clientVars, countVars, part>>

\* Every part keeps its types, the budget the places it has given out, the
\* keys their order.
PortalTypeOK == SweepsTypeOK /\ PaceTypeOK /\ ForestIsOrdered
=============================================================================
