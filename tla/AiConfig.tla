------------------------------- MODULE AiConfig -------------------------------
(***************************************************************************)
(* The settings of the AI registrator, saved from several panels open at   *)
(* once (AiRegistratorControlService, AiRegistratorControlRepository.save):*)
(* a request reads the stored setting, changes its own field of it, and    *)
(* writes the whole under the version its page was opened at, with an      *)
(* audit row in the same transaction.                                      *)
(***************************************************************************)
EXTENDS Integers, FiniteSets

CONSTANTS
  Panels,      \* Pages open on the panel.
  Fields,      \* What is saved by itself: the main form, enabled, hours, pause...
  Values,      \* A field's values.
  Fresh,       \* The value each has before a first save.
  MainField,   \* The field a first save may write.
  MaxVersion   \* Bound: saves.

ASSUME ConfigAssumption == Fresh \in Values /\ MainField \in Fields /\ MaxVersion \in Nat

VARIABLES
  setting,   \* The row: version and fields; version 0 stands for no row.
  audit,     \* The audit rows.
  opened,    \* The version each panel's page shows.
  request    \* Each panel's request.

configVars == <<setting, audit, opened, request>>

Unsaved == [version |-> 0, fields |-> [f \in Fields |-> Fresh]]
NoRequest == [at |-> "none", field |-> MainField, value |-> Fresh, base |-> 0, stored |-> Unsaved]

ConfigInit ==
  /\ setting = Unsaved /\ audit = {}
  /\ opened = [p \in Panels |-> 0] /\ request = [p \in Panels |-> NoRequest]

-------------------------------------------------------------------------------

\* panel
OpenPage(p) ==
  /\ request[p].at = "none" /\ opened' = [opened EXCEPT ![p] = setting.version]
  /\ UNCHANGED <<setting, audit, request>>

\* A press of one of the panel's buttons.
Ask(p) ==
  /\ request[p].at = "none" /\ setting.version < MaxVersion
  /\ \E f \in Fields, v \in Values :
       request' = [request EXCEPT ![p] = [at |-> "read", field |-> f, value |-> v,
                                            base |-> opened[p], stored |-> Unsaved]]
  /\ UNCHANGED <<setting, audit, opened>>

EndsRequest(p) == request' = [request EXCEPT ![p] = NoRequest]

\* What the service refuses before it writes.
SaveRefused(r) ==
  \/ setting.version = 0 /\ r.field # MainField
  \/ setting.version = r.base /\ setting.version > 0 /\ setting.fields[r.field] = r.value

ReadStored(p) ==
  /\ request[p].at = "read"
  /\ IF SaveRefused(request[p]) THEN EndsRequest(p)
     ELSE request' = [request EXCEPT ![p].at = "lock", ![p].stored = setting]
  /\ UNCHANGED <<setting, audit, opened>>

\* Mutant: the last save wins.
LatestIsBase(r) == TRUE

IsBase(r) == setting.version = r.base

\* Only the field of the request changes.
NextFields(r) == [r.stored.fields EXCEPT ![r.field] = r.value]

Commit(p, version) ==
  LET r == request[p] IN
    /\ setting' = [version |-> version, fields |-> NextFields(r)]
    /\ audit' = audit \cup {[by |-> p, field |-> r.field, version |-> version, base |-> r.base,
                             before |-> setting.fields, after |-> NextFields(r)]}
    /\ opened' = [opened EXCEPT ![p] = version] /\ EndsRequest(p)

\* The row is locked first: from here to its end the transaction is alone.
SaveNext(p) ==
  /\ request[p].at = "lock" /\ setting.version > 0 /\ IsBase(request[p])
  /\ Commit(p, setting.version + 1)

\* A save over a newer version is refused, and so is a transaction that fails.
SaveFails(p) ==
  /\ request[p].at \in {"lock", "first"} /\ EndsRequest(p)
  /\ UNCHANGED <<setting, audit, opened>>

\* With no row there is nothing to lock.
FindNoRow(p) ==
  /\ request[p].at = "lock" /\ setting.version = 0 /\ IsBase(request[p])
  /\ request' = [request EXCEPT ![p].at = "first"]
  /\ UNCHANGED <<setting, audit, opened>>

\* The audit's versions are unique, or the transaction rolls back.
VersionIsFree(version) == \A a \in audit : a.version # version

SaveFirst(p) ==
  /\ request[p].at = "first" /\ VersionIsFree(1)
  /\ Commit(p, 1)

ConfigNext ==
  \E p \in Panels :
    \/ OpenPage(p) \/ Ask(p) \/ ReadStored(p)
    \/ SaveNext(p) \/ FindNoRow(p) \/ SaveFirst(p) \/ SaveFails(p)

ConfigSpec == ConfigInit /\ [][ConfigNext]_configVars

-------------------------------------------------------------------------------
(* Properties. *)

Setting == [version : Nat, fields : [Fields -> Values]]
Request == [at : {"none", "read", "lock", "first"}, field : Fields, value : Values,
            base : Nat, stored : Setting]
AuditRow == [by : Panels, field : Fields, version : Nat, base : Nat,
             before : [Fields -> Values], after : [Fields -> Values]]

ConfigTypeOK ==
  /\ setting \in Setting /\ audit \subseteq AuditRow
  /\ opened \in [Panels -> 0..setting.version] /\ request \in [Panels -> Request]

(***************************************************************************)
(* The audit is the history of the setting: one row for each version, each *)
(* row's "before" the "after" of the one under it, the newest the setting  *)
(* itself ("two saves cannot both read version N and both write N + 1"),   *)
(* first saves that find no row to lock included.                          *)
(***************************************************************************)
AuditIsHistory ==
  /\ \A a \in audit : a.version \in 1..setting.version
  /\ \A v \in 1..setting.version : \E a \in audit : a.version = v
  /\ \A a, b \in audit :
       /\ a.version = b.version => a = b
       /\ a.version + 1 = b.version => b.before = a.after
  /\ \A a \in audit : a.version = setting.version => a.after = setting.fields

(***************************************************************************)
(* A save changes its own field and nothing else, though it writes the     *)
(* whole of a setting it read before it took the lock: a stop pressed      *)
(* meanwhile is never undone ("the row's version lock makes this read      *)
(* safe"), and the saver had the version it replaced on the page.          *)
(***************************************************************************)
SavesAreTheirOwn ==
  \A a \in audit :
    /\ a.base + 1 = a.version
    /\ \A f \in Fields \ {a.field} : a.before[f] = a.after[f]

(***************************************************************************)
(* However many panels save at once, the audit tells what happened to the  *)
(* setting: whole, in order, and each save its own change and no other.    *)
(***************************************************************************)
HistoryIsTrue == AuditIsHistory /\ SavesAreTheirOwn

===============================================================================
