------------------------------- MODULE Accounts -------------------------------
(***************************************************************************)
(* The accounts of the dashboard, made, edited and removed by its          *)
(* administrators (userAdminService, provisionUser).  An edit is judged on *)
(* the row as it was read and on a count of the administrators taken       *)
(* outside the transaction that writes it; an account is made in steps.    *)
(*                                                                         *)
(* Names, passwords, sessions and the audit entry are written with the row *)
(* and read by nothing here.                                               *)
(***************************************************************************)
EXTENDS Integers, FiniteSets

CONSTANTS
  Users,        \* Accounts there may be, each with its login.
  Founder,      \* The first, an administrator.
  Desks,        \* Requests under way at once.
  Patches,      \* What an edit may change: fields to values.
  Drafts,       \* What a new account may be asked to be.
  MaxRequests   \* Bound: requests.

Blank == [there |-> "yes", role |-> "SALES", isActive |-> "yes", dataScope |-> "ALL",
          employee |-> "none", wide |-> "no"]
Absent == [Blank EXCEPT !.there = "no"]

ASSUME AccountAssumption ==
  /\ IsFiniteSet(Users) /\ Founder \in Users /\ MaxRequests \in Nat
  /\ \A p \in Patches :
       /\ DOMAIN p \subseteq {"role", "isActive", "dataScope", "employee", "wide"}
       /\ "isActive" \in DOMAIN p => p["isActive"] \in {"yes", "no"}
  /\ \A d \in Drafts : DOMAIN d = {"role", "dataScope", "employee", "wide"}

VARIABLES
  users,      \* The rows.
  work,       \* Each desk's request; once read, what it will write.
  asked       \* How many there have been.

accountVars == <<users, work, asked>>

NoFields == [f \in {} |-> "no"]
Idle == [at |-> "idle", target |-> Founder, self |-> FALSE, writes |-> NoFields,
         removed |-> FALSE, edited |-> FALSE]

AccountsInit ==
  /\ users = [u \in Users |-> IF u = Founder THEN [Blank EXCEPT !.role = "ADMIN"] ELSE Absent]
  /\ work = [d \in Desks |-> Idle] /\ asked = 0

IsActiveAdmin(row) == row.there = "yes" /\ row.role = "ADMIN" /\ row.isActive = "yes"
ActiveAdmins == {u \in Users : IsActiveAdmin(users[u])}

\* A row with some of its fields written.
Applied(row, writes) == [f \in DOMAIN row |-> IF f \in DOMAIN writes THEN writes[f] ELSE row[f]]

\* assertScopeIsUsable
Usable(row) == row.dataScope = "ALL" \/ row.employee # "none"

\* wideSectionsToStore
WideToStore(row) == IF row.dataScope = "ALL" THEN "no" ELSE row.wide

-------------------------------------------------------------------------------
(* The writes. *)

\* For the properties: a request knows whether, since it was read, an active
\* administrator was removed, and its account written.
Witnessed(r, u, row) ==
  [r EXCEPT !.removed = @ \/ (IsActiveAdmin(users[u]) /\ ~IsActiveAdmin(row)),
            !.edited = @ \/ r.target = u]

\* Desk d writes account u and goes on.
Write(d, u, row, at) ==
  /\ users' = [users EXCEPT ![u] = row]
  /\ work' = [e \in Desks |->
       IF e # d THEN Witnessed(work[e], u, row)
       ELSE IF at = "idle" THEN Idle ELSE [work[d] EXCEPT !.at = at]]
  /\ UNCHANGED asked

Goes(d, r) == work' = [work EXCEPT ![d] = r] /\ UNCHANGED <<users, asked>>

Refused(d) == Goes(d, Idle)

-------------------------------------------------------------------------------
(* An edit, and a removal. *)

\* An administrator presses: requirePrincipal reads the row at every request.
Press(d) ==
  /\ work[d].at = "idle" /\ asked < MaxRequests /\ asked' = asked + 1
  /\ \E actor \in ActiveAdmins, u \in Users :
       LET r == [Idle EXCEPT !.target = u, !.self = (actor = u)] IN
         \/ \E p \in Patches : work' = [work EXCEPT ![d] = [r EXCEPT !.at = "edit", !.writes = p]]
         \/ work' = [work EXCEPT ![d] = [r EXCEPT !.at = "remove"]]
         \/ \E p \in Drafts : work' = [work EXCEPT ![d] = [r EXCEPT !.at = "make", !.writes = p]]
  /\ UNCHANGED users

\* The self-lockout guards.
LocksSelfOut(r, before) ==
  r.self /\ LET after == Applied(before, r.writes) IN
              after.role # before.role \/ ("isActive" \in DOMAIN r.writes /\ after.isActive = "no")

\* Mutant: a deactivation is no loss.
DemotionLoses(before, writes) ==
  before.role = "ADMIN" /\ "role" \in DOMAIN writes /\ writes["role"] # "ADMIN"

LosesAdmin(before, writes) ==
  /\ before.role = "ADMIN"
  /\ \/ "role" \in DOMAIN writes /\ writes["role"] # "ADMIN"
     \/ "isActive" \in DOMAIN writes /\ writes["isActive"] = "no"

TouchesScope(writes) == DOMAIN writes \cap {"dataScope", "wide"} # {}

\* What the transaction will write.
EditWrites(before, writes) ==
  IF ~TouchesScope(writes) THEN writes
  ELSE [f \in DOMAIN writes \cup {"wide"} |->
          IF f = "wide" THEN WideToStore(Applied(before, writes)) ELSE writes[f]]

\* The result of the patch is judged.
EditIsUsable(before, writes) == Usable(Applied(before, writes))

ReadEdit(d) ==
  LET r == work[d]
      before == users[r.target] IN
    /\ r.at = "edit"
    /\ IF before.there = "no" \/ LocksSelfOut(r, before) \/ ~EditIsUsable(before, r.writes)
       THEN Refused(d)
       ELSE Goes(d, [r EXCEPT !.at = IF LosesAdmin(before, r.writes) THEN "count edit" ELSE "write edit",
                              !.writes = EditWrites(before, r.writes),
                              !.removed = FALSE, !.edited = FALSE])

ReadRemove(d) ==
  LET r == work[d]
      before == users[r.target] IN
    /\ r.at = "remove"
    /\ IF before.there = "no" \/ r.self THEN Refused(d)
       ELSE Goes(d, [r EXCEPT !.at = IF IsActiveAdmin(before) THEN "count remove" ELSE "write remove",
                              !.removed = FALSE, !.edited = FALSE])

OthersRemain == Cardinality(ActiveAdmins) > 1

\* activeAdminCount
Count(d) ==
  /\ work[d].at \in {"count edit", "count remove"}
  /\ IF OthersRemain
     THEN Goes(d, [work[d] EXCEPT !.at = IF @ = "count edit" THEN "write edit" ELSE "write remove"])
     ELSE Refused(d)

CommitEdit(d) ==
  LET r == work[d] IN
    /\ r.at = "write edit" /\ users[r.target].there = "yes"
    /\ Write(d, r.target, Applied(users[r.target], r.writes), "idle")

CommitRemove(d) ==
  LET r == work[d] IN
    /\ r.at = "write remove" /\ users[r.target].there = "yes"
    /\ Write(d, r.target, Absent, "idle")

-------------------------------------------------------------------------------
(* A new account. *)

\* createUser's refusals: the scope, the employee's own login, the login.
ReadMake(d) ==
  LET r == work[d] IN
    /\ r.at = "make"
    /\ IF users[r.target].there = "yes" \/ ~Usable(Applied(Blank, r.writes)) THEN Refused(d)
       ELSE Goes(d, [r EXCEPT !.at = "provision", !.writes = [@ EXCEPT !["wide"] =
                                 WideToStore(Applied(Blank, r.writes))],
                              !.removed = FALSE, !.edited = FALSE])

\* provisionUser, its row and its credential: an account of that login made
\* meanwhile is taken for its own.
ProvisionRow(d) ==
  LET r == work[d] IN
    /\ r.at = "provision"
    /\ IF users[r.target].there = "yes" THEN Goes(d, [r EXCEPT !.at = "role"])
       ELSE Write(d, r.target, Blank, "role")

\* Its role, its employee.
ProvisionRole(d) ==
  LET r == work[d] IN
    /\ r.at = "role" /\ users[r.target].there = "yes"
    /\ Write(d, r.target, [users[r.target] EXCEPT !.role = r.writes["role"], !.isActive = "yes",
                                                     !.employee = r.writes["employee"]], "scope")

\* createUser: the sections and the scope.
SaveScope(d) ==
  LET r == work[d] IN
    /\ r.at = "scope" /\ users[r.target].there = "yes"
    /\ Write(d, r.target, [users[r.target] EXCEPT !.wide = r.writes["wide"],
                                                     !.dataScope = r.writes["dataScope"]], "idle")

\* A write fails - the row is gone, the employee has another login, the
\* database is busy - or the process dies.
RequestFails(d) == work[d].at # "idle" /\ Refused(d)

AccountsNext ==
  \E d \in Desks :
    \/ Press(d) \/ ReadEdit(d) \/ ReadRemove(d) \/ Count(d) \/ CommitEdit(d) \/ CommitRemove(d)
    \/ ReadMake(d) \/ ProvisionRow(d) \/ ProvisionRole(d) \/ SaveScope(d) \/ RequestFails(d)

AccountsSpec == AccountsInit /\ [][AccountsNext]_accountVars

-------------------------------------------------------------------------------
(* Properties. *)

RowFields == {"there", "role", "isActive", "dataScope", "employee", "wide"}
RequestFields == {"at", "target", "self", "writes", "removed", "edited"}

IsRow(row) == row = [f \in RowFields |-> row[f]]
IsRequest(r) ==
  /\ r = [f \in RequestFields |-> r[f]] /\ r.target \in Users
  /\ r.removed \in BOOLEAN /\ r.edited \in BOOLEAN

AccountsTypeOK ==
  /\ DOMAIN users = Users /\ \A u \in Users : IsRow(users[u])
  /\ work = [d \in Desks |-> work[d]] /\ \A d \in Desks : IsRequest(work[d])

\* The request that writes in this step.
Writer(d) == work'[d].at # work[d].at /\ users' # users

(***************************************************************************)
(* The last active administrator goes only by a request that another       *)
(* overtook since it read the account, by removing an administrator or by  *)
(* writing that account ("the LAST active administrator cannot be demoted  *)
(* or disabled", which holds of requests one at a time): a count taken     *)
(* outside the transaction, an account promoted while its edit was under   *)
(* way and one adopted by a creation of the same login included.           *)
(***************************************************************************)
LastAdminStays ==
  [][ActiveAdmins # {} /\ ActiveAdmins' = {}
     => \E d \in Desks : Writer(d) /\ (work[d].removed \/ work[d].edited)]_accountVars

\* What assertScopeIsUsable and wideSectionsToStore are for.
Sound(row) == Usable(row) /\ (row.dataScope = "ALL" => row.wide = "no")

(***************************************************************************)
(* An account never comes to a scope it has no employee for, nor keeps     *)
(* wide ticks that would spring back, but by a request whose account       *)
(* another had written since it was read: "one edit at a time" the pair    *)
(* cannot drift, at any step of an account's making.                       *)
(***************************************************************************)
ScopesStaySound ==
  [][\A u \in Users : Sound(users[u]) /\ ~Sound(users'[u])
     => \E d \in Desks : Writer(d) /\ work[d].target = u /\ work[d].edited]_accountVars

(***************************************************************************)
(* One request at a time keeps the accounts sound: an active administrator *)
(* left, and every scope one its account can use; what two at once can     *)
(* break they break only by meeting on one account.                        *)
(***************************************************************************)
AccountsStaySound == LastAdminStays /\ ScopesStaySound

===============================================================================
