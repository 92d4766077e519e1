------------------------------ MODULE CrmMirror ------------------------------
(***************************************************************************)
(* What the import promises its readers: Postgres is a mirror of the       *)
(* portal that owes a write for every version it does not hold.  It may    *)
(* write an older version than the portal shows, and then still owes the   *)
(* newer one; it may give up only on a row that refers to others.          *)
(***************************************************************************)
EXTENDS Integers

CONSTANTS
  Row,       \* Portal records.
  Dependent  \* Rows that refer to another row.

VARIABLES
  shown,   \* shown[r]: the version the portal shows; 0 = none.
  stored,  \* stored[r]: the version in the mirror; 0 = none.
  owed     \* Rows the mirror still has to write.

Init ==
  /\ shown = [r \in Row |-> 0]
  /\ stored = [r \in Row |-> 0]
  /\ owed = {}

\* The portal shows a new version, and the mirror owes it.
Publish(r) ==
  /\ shown'[r] > shown[r]
  /\ shown' = [shown EXCEPT ![r] = shown'[r]]
  /\ owed' = owed \cup {r}
  /\ UNCHANGED stored

\* Rows are written; what is still behind the portal afterwards is still owed.
Import(S) ==
  /\ \A r \in S : stored'[r] \in 1 .. shown[r]
  /\ stored' = [r \in Row |-> IF r \in S THEN stored'[r] ELSE stored[r]]
  /\ owed' = (owed \ S) \cup {r \in S : stored'[r] # shown[r]}
  /\ UNCHANGED shown

\* Rows that refer to others leave the debt, or come back to it.
GiveUp(S) == S \subseteq Dependent /\ owed' = owed \ S /\ UNCHANGED <<shown, stored>>
Reopen(S) == S \subseteq Dependent /\ owed' = owed \cup S /\ UNCHANGED <<shown, stored>>

Next ==
  \/ \E r \in Row : Publish(r)
  \/ \E S \in SUBSET Row : Import(S) \/ GiveUp(S) \/ Reopen(S)

Spec == Init /\ [][Next]_<<shown, stored, owed>>
=============================================================================
