---------------------------- MODULE MCSyncEngine ----------------------------
(* Instances of SyncEngine for TLC: row 1 is a deal, row 2 a stage-history *)
(* record of that deal, row 3 (when there is one) a second deal.           *)
EXTENDS SyncEngine

MCEntityOf == [r \in Row |-> IF r = 2 THEN "STAGE_HISTORY" ELSE "DEALS"]
MCNeeds == [r \in Row |-> IF r = 2 THEN {1} ELSE {}]
MCSettle == [e \in Entity |-> CommitLag + PageHold + 1]
MCSkipBack == [e \in Entity |-> IF e = "STAGE_HISTORY" THEN CommitLag + PageHold + 2 ELSE 0]

\* The worker follows its cursors.
WorkerModes == [k \in Runner |-> {"INCREMENTAL"}]

\* The worker beside its cursors: the rows that portal events name, by id.
LiveModes == [k \in Runner |-> {"INCREMENTAL", "BYID"}]

\* One runner follows the cursors or walks in full; the other re-reads a
\* window by hand, or rows by their ids.
TwoModes == [k \in Runner |->
  IF k = "worker" THEN {"INCREMENTAL", "FULL"} ELSE {"BACKFILL", "BYID"}]

=============================================================================
