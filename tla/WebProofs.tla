------------------------------ MODULE WebProofs ------------------------------
(***************************************************************************)
(* What holds of the AI registrator's settings for any panels, fields and  *)
(* saves, of the presses of its panel for any windows, buttons and reports *)
(* at once, of the accounts for any administrators at work at once, and of *)
(* the web process that keeps them with the memo and the sign-ins.         *)
(***************************************************************************)
EXTENDS MCWeb, TtlCacheProofs, LockoutProofs, FiniteSetTheorems, WellFoundedInduction, TLAPS

(* The settings. *)

\* A request is no newer than the setting, and one that has read it holds what
\* it read.
RequestsAreOld ==
  \A p \in Panels :
    /\ request[p].at # "none" => request[p].base <= setting.version
    /\ request[p].at \in {"lock", "first"} =>
         /\ request[p].base <= request[p].stored.version
         /\ request[p].stored.version <= setting.version
         /\ request[p].stored.version = setting.version => request[p].stored = setting
    /\ request[p].at = "first" => request[p].base = 0

ConfigInv == ConfigTypeOK /\ AuditIsHistory /\ SavesAreTheirOwn /\ RequestsAreOld

LEMMA UnsavedTyped == Unsaved \in Setting /\ NoRequest \in Request
  BY ConfigAssumption DEF Unsaved, NoRequest, Setting, Request

LEMMA ConfigInvInit == ConfigInit => ConfigInv
<1> SUFFICES ASSUME ConfigInit PROVE ConfigInv
  OBVIOUS
<1>1. setting.version = 0 /\ setting \in Setting /\ audit = {}
  BY UnsavedTyped DEF ConfigInit, Unsaved
<1>2. opened \in [Panels -> 0..setting.version] /\ request \in [Panels -> Request]
  BY <1>1, UnsavedTyped DEF ConfigInit
<1>3. ConfigTypeOK
  BY <1>1, <1>2 DEF ConfigTypeOK
<1>4. AuditIsHistory /\ SavesAreTheirOwn
  BY <1>1 DEF AuditIsHistory, SavesAreTheirOwn
<1>5. RequestsAreOld
  BY DEF ConfigInit, RequestsAreOld, NoRequest
<1> QED
  BY <1>3, <1>4, <1>5 DEF ConfigInv

\* A step that leaves the setting keeps the other requests.
LEMMA SettingStays ==
  ASSUME ConfigInv, NEW p \in Panels, UNCHANGED <<setting, audit>>,
         opened' \in [Panels -> 0..setting.version],
         NEW r \in Request, request' = [request EXCEPT ![p] = r],
         r.at # "none" => r.base <= setting.version,
         r.at \in {"lock", "first"} =>
           /\ r.base <= r.stored.version /\ r.stored.version <= setting.version
           /\ r.stored.version = setting.version => r.stored = setting,
         r.at = "first" => r.base = 0
  PROVE  ConfigInv'
<1>1. request \in [Panels -> Request] /\ request' \in [Panels -> Request]
  BY DEF ConfigInv, ConfigTypeOK
<1>2. ConfigTypeOK'
  BY <1>1 DEF ConfigInv, ConfigTypeOK
<1>3. AuditIsHistory' /\ SavesAreTheirOwn'
  BY DEF ConfigInv, AuditIsHistory, SavesAreTheirOwn
<1>4. \A q \in Panels : request'[q] = IF q = p THEN r ELSE request[q]
  BY <1>1
<1>5. RequestsAreOld'
  BY <1>4 DEF ConfigInv, RequestsAreOld
<1> QED
  BY <1>2, <1>3, <1>5 DEF ConfigInv

\* A save over the version it was opened at, with the fields it read there.
LEMMA CommitKeeps ==
  ASSUME ConfigInv, NEW p \in Panels, Commit(p, setting.version + 1),
         request[p].base = setting.version, request[p].stored = setting
  PROVE  ConfigInv'
<1> DEFINE r == request[p]
           v == setting.version
           row == [by |-> p, field |-> r.field, version |-> v + 1, base |-> r.base,
                   before |-> setting.fields, after |-> NextFields(r)]
<1>1. /\ setting \in Setting /\ audit \subseteq AuditRow /\ opened \in [Panels -> 0..v]
      /\ request \in [Panels -> Request] /\ r \in Request /\ v \in Nat
  BY DEF ConfigInv, ConfigTypeOK, Setting
<1>2. /\ setting' = [version |-> v + 1, fields |-> NextFields(r)] /\ audit' = audit \cup {row}
      /\ opened' = [opened EXCEPT ![p] = v + 1] /\ request' = [request EXCEPT ![p] = NoRequest]
  BY DEF Commit, EndsRequest
<1>3. /\ NextFields(r) = [setting.fields EXCEPT ![r.field] = r.value]
      /\ NextFields(r) \in [Fields -> Values]
  BY <1>1 DEF NextFields, Request, Setting
<1>4. setting'.version = v + 1 /\ setting'.fields = NextFields(r) /\ setting' \in Setting
  BY <1>1, <1>2, <1>3 DEF Setting
<1>5. row \in AuditRow
  BY <1>1, <1>3 DEF AuditRow, Request, Setting
<1>6. ConfigTypeOK'
  <2>1. opened' \in [Panels -> 0..(v + 1)]
    BY <1>1, <1>2
  <2>2. request' \in [Panels -> Request]
    BY <1>1, <1>2, UnsavedTyped
  <2> QED
    BY <1>1, <1>2, <1>4, <1>5, <2>1, <2>2 DEF ConfigTypeOK
<1>7. /\ \A a \in audit : a.version \in 1..v
      /\ \A n \in 1..v : \E a \in audit : a.version = n
      /\ \A a, b \in audit : (a.version = b.version => a = b)
                             /\ (a.version + 1 = b.version => b.before = a.after)
      /\ \A a \in audit : a.version = v => a.after = setting.fields
  BY DEF ConfigInv, AuditIsHistory
<1>8. row.version = v + 1 /\ row.before = setting.fields /\ row.after = NextFields(r) /\ row.base = v /\ row.field = r.field
  OBVIOUS
<1> HIDE DEF row, v
<1>9. AuditIsHistory'
  <2>1. \A a \in audit' : a.version \in 1..(v + 1)
    BY <1>1, <1>2, <1>7, <1>8
  <2>2. \A n \in 1..(v + 1) : \E a \in audit' : a.version = n
    <3> SUFFICES ASSUME NEW n \in 1..(v + 1) PROVE \E a \in audit' : a.version = n
      OBVIOUS
    <3>1. n \in 1..v \/ n = v + 1
      BY <1>1
    <3> QED
      BY <1>2, <1>7, <1>8, <3>1
  <2>3. ASSUME NEW a \in audit', NEW b \in audit'
        PROVE  (a.version = b.version => a = b) /\ (a.version + 1 = b.version => b.before = a.after)
    <3>1. CASE a \in audit /\ b \in audit
      BY <1>7, <3>1
    <3>2. CASE a = row /\ b = row
      BY <1>1, <1>8, <3>2
    <3>3. CASE a \in audit /\ b = row
      BY <1>1, <1>7, <1>8, <3>3
    <3>4. CASE a = row /\ b \in audit
      BY <1>1, <1>7, <1>8, <3>4
    <3> QED
      BY <1>2, <3>1, <3>2, <3>3, <3>4
  <2>4. \A a \in audit' : a.version = v + 1 => a.after = NextFields(r)
    BY <1>1, <1>2, <1>7, <1>8
  <2> QED
    BY <1>4, <2>1, <2>2, <2>3, <2>4 DEF AuditIsHistory
<1>10. SavesAreTheirOwn'
  <2>1. \A f \in Fields \ {r.field} : setting.fields[f] = NextFields(r)[f]
    BY <1>1, <1>3 DEF Setting
  <2> QED
    BY <1>1, <1>2, <1>8, <2>1 DEF ConfigInv, SavesAreTheirOwn
<1>11. RequestsAreOld'
  <2> SUFFICES ASSUME NEW q \in Panels
               PROVE  /\ request'[q].at # "none" => request'[q].base <= v + 1
                      /\ request'[q].at \in {"lock", "first"} =>
                           /\ request'[q].base <= request'[q].stored.version
                           /\ request'[q].stored.version <= v + 1
                           /\ request'[q].stored.version = v + 1 => request'[q].stored = setting'
                      /\ request'[q].at = "first" => request'[q].base = 0
    BY <1>4 DEF RequestsAreOld
  <2>1. CASE q = p
    BY <1>1, <1>2, <2>1 DEF NoRequest
  <2>2. CASE q # p
    <3>1. request'[q] = request[q] /\ request[q] \in Request
      BY <1>1, <1>2, <2>2
    <3>2. /\ request[q].at # "none" => request[q].base <= v
          /\ request[q].at \in {"lock", "first"} =>
               request[q].base <= request[q].stored.version /\ request[q].stored.version <= v
          /\ request[q].at = "first" => request[q].base = 0
      BY DEF ConfigInv, RequestsAreOld, v
    <3>3. request[q].base \in Nat /\ request[q].stored.version \in Nat
      BY <3>1 DEF Request, Setting
    <3> QED
      BY <1>1, <3>1, <3>2, <3>3
  <2> QED
    BY <2>1, <2>2
<1> QED
  BY <1>6, <1>9, <1>10, <1>11 DEF ConfigInv

LEMMA ConfigInvStep == ConfigInv /\ [ConfigNext]_configVars => ConfigInv'
<1> SUFFICES ASSUME ConfigInv, [ConfigNext]_configVars PROVE ConfigInv'
  OBVIOUS
<1>0. CASE UNCHANGED configVars
  BY <1>0 DEF configVars, ConfigInv, ConfigTypeOK, AuditIsHistory, SavesAreTheirOwn, RequestsAreOld
<1> SUFFICES ASSUME NEW p \in Panels,
                    \/ OpenPage(p) \/ Ask(p) \/ ReadStored(p)
                    \/ SaveNext(p) \/ FindNoRow(p) \/ SaveFirst(p) \/ SaveFails(p)
             PROVE  ConfigInv'
  BY <1>0 DEF ConfigNext
<1>1. /\ setting \in Setting /\ setting.version \in Nat /\ opened \in [Panels -> 0..setting.version]
      /\ request \in [Panels -> Request] /\ request[p] \in Request
      /\ opened[p] \in 0..setting.version
  BY DEF ConfigInv, ConfigTypeOK, Setting
<1>2. /\ request[p].at # "none" => request[p].base <= setting.version
      /\ request[p].at \in {"lock", "first"} =>
           /\ request[p].base <= request[p].stored.version
           /\ request[p].stored.version <= setting.version
           /\ request[p].stored.version = setting.version => request[p].stored = setting
      /\ request[p].at = "first" => request[p].base = 0
  BY DEF ConfigInv, RequestsAreOld
<1>3. request[p].base \in Nat /\ request[p].stored.version \in Nat
  BY <1>1 DEF Request, Setting
<1>4. CASE OpenPage(p)
  <2>1. opened' \in [Panels -> 0..setting.version]
    BY <1>1, <1>4 DEF OpenPage
  <2>2. request' = [request EXCEPT ![p] = request[p]] /\ UNCHANGED <<setting, audit>>
    BY <1>1, <1>4 DEF OpenPage
  <2> QED
    BY <1>1, <1>2, <2>1, <2>2, SettingStays
<1>5. CASE Ask(p)
  <2>1. PICK f \in Fields, v \in Values :
          request' = [request EXCEPT ![p] = [at |-> "read", field |-> f, value |-> v,
                                               base |-> opened[p], stored |-> Unsaved]]
    BY <1>5 DEF Ask
  <2> DEFINE r == [at |-> "read", field |-> f, value |-> v, base |-> opened[p], stored |-> Unsaved]
  <2>4. opened[p] \in Nat /\ Unsaved \in Setting
    BY <1>1, UnsavedTyped
  <2>2. r.at = "read" /\ r.base = opened[p] /\ r \in Request
    BY <2>4 DEF Request
  <2>7. request' = [request EXCEPT ![p] = r]
    BY <2>1
  <2>3. opened' \in [Panels -> 0..setting.version] /\ UNCHANGED <<setting, audit>>
    BY <1>1, <1>5 DEF Ask
  <2> HIDE DEF r
  <2> QED
    <3>1. r.base <= setting.version
      BY <1>1, <2>2
    <3>2. r \in Request /\ r.at = "read"
      BY <2>2
    <3> QED
      BY <2>3, <2>7, <3>1, <3>2, SettingStays
<1>6. ASSUME EndsRequest(p), UNCHANGED <<setting, audit, opened>>
      PROVE  ConfigInv'
  <2>1. NoRequest.at = "none" /\ NoRequest \in Request
    BY UnsavedTyped DEF NoRequest
  <2> QED
    BY <1>1, <1>6, <2>1, SettingStays DEF EndsRequest
<1>7. CASE ReadStored(p)
  <2>1. CASE SaveRefused(request[p])
    BY <1>6, <1>7, <2>1 DEF ReadStored
  <2>2. CASE ~SaveRefused(request[p])
    <3> DEFINE r == [request[p] EXCEPT !.at = "lock", !.stored = setting]
    <3>1. request' = [request EXCEPT ![p] = r] /\ request[p].at = "read" /\ UNCHANGED <<setting, audit, opened>>
      BY <1>7, <2>2 DEF ReadStored
    <3>2. r \in Request /\ r.at = "lock" /\ r.stored = setting /\ r.base = request[p].base
      BY <1>1 DEF Request
    <3> HIDE DEF r
    <3>3. /\ r.base <= setting.version /\ r.base <= r.stored.version
          /\ r.stored.version <= setting.version /\ r.stored = setting
      BY <1>1, <1>2, <3>1, <3>2
    <3>4. opened' \in [Panels -> 0..setting.version]
      BY <1>1, <3>1
    <3>5. r.at = "lock"
      BY <3>2
    <3> QED
      BY <3>1, <3>2, <3>3, <3>4, <3>5, SettingStays
  <2> QED
    BY <2>1, <2>2
<1>8. CASE FindNoRow(p)
  <2> DEFINE r == [request[p] EXCEPT !.at = "first"]
  <2>1. /\ request' = [request EXCEPT ![p] = r] /\ request[p].at = "lock" /\ setting.version = 0
        /\ request[p].base = setting.version /\ UNCHANGED <<setting, audit, opened>>
    BY <1>8 DEF FindNoRow, IsBase
  <2>2. r \in Request /\ r.at = "first" /\ r.stored = request[p].stored /\ r.base = request[p].base
    BY <1>1 DEF Request
  <2> HIDE DEF r
  <2> QED
    BY <1>1, <1>2, <2>1, <2>2, SettingStays
<1>9. CASE SaveNext(p)
  <2>1. /\ request[p].at = "lock" /\ request[p].base = setting.version
        /\ Commit(p, setting.version + 1)
    BY <1>9 DEF SaveNext, IsBase
  <2>2. request[p].stored = setting
    BY <1>1, <1>2, <1>3, <2>1
  <2> QED
    BY <2>1, <2>2, CommitKeeps
<1>10. CASE SaveFirst(p)
  <2>1. request[p].at = "first" /\ Commit(p, 1) /\ \A a \in audit : a.version # 1
    BY <1>10 DEF SaveFirst, VersionIsFree
  <2>2. setting.version = 0
    <3>1. \A v \in 1..setting.version : \E a \in audit : a.version = v
      BY DEF ConfigInv, AuditIsHistory
    <3> QED
      BY <1>1, <2>1, <3>1
  <2>3. request[p].stored = setting /\ request[p].base = setting.version
    BY <1>1, <1>2, <1>3, <2>1, <2>2
  <2>4. Commit(p, setting.version + 1)
    BY <2>1, <2>2
  <2> QED
    BY <2>3, <2>4, CommitKeeps
<1>11. CASE SaveFails(p)
  BY <1>6, <1>11 DEF SaveFails
<1> QED
  BY <1>4, <1>5, <1>7, <1>8, <1>9, <1>10, <1>11

(***************************************************************************)
(* No panel shows a version that is not there, and versions are numbers    *)
(* (AiRegistratorControlRepository.save).                                  *)
(***************************************************************************)
THEOREM SettingsAreWellFormed == ConfigSpec => []ConfigTypeOK
<1>1. ConfigInv => ConfigTypeOK
  BY DEF ConfigInv
<1> QED
  BY ConfigInvInit, ConfigInvStep, <1>1, PTL DEF ConfigSpec

(***************************************************************************)
(* The audit rows are the setting's history, for any panels that save at   *)
(* once and the first save of all.                                         *)
(***************************************************************************)
THEOREM AuditsAreHistory == ConfigSpec => []AuditIsHistory
<1>1. ConfigInv => AuditIsHistory
  BY DEF ConfigInv
<1> QED
  BY ConfigInvInit, ConfigInvStep, <1>1, PTL DEF ConfigSpec

(***************************************************************************)
(* A save changes its own field alone, though what it writes was read      *)
(* before the row was locked.                                              *)
(***************************************************************************)
THEOREM SavesKeepTheRest == ConfigSpec => []SavesAreTheirOwn
<1>1. ConfigInv => SavesAreTheirOwn
  BY DEF ConfigInv
<1> QED
  BY ConfigInvInit, ConfigInvStep, <1>1, PTL DEF ConfigSpec

-------------------------------------------------------------------------------
(* The accounts. *)

DraftFields == {"role", "dataScope", "employee", "wide"}

Past == {"count edit", "write edit", "count remove", "write remove", "provision", "role", "scope"}

\* An account other than u is an administrator.
AnotherAdmin(u) == \E v \in ActiveAdmins : v # u

IsPatch(writes) ==
  /\ DOMAIN writes \subseteq RowFields \ {"there"}
  /\ "isActive" \in DOMAIN writes => writes["isActive"] \in {"yes", "no"}

\* What a request will write has the fields it was read with.
WritesAreShaped(r) ==
  /\ r.at = "edit" => IsPatch(r.writes)
  /\ r.at \in {"make", "provision", "role", "scope"} => DOMAIN r.writes = DraftFields
  /\ r.at \in {"provision", "role", "scope"} =>
       /\ r.writes["dataScope"] = "ALL" \/ r.writes["employee"] # "none"
       /\ r.writes["dataScope"] = "ALL" => r.writes["wide"] = "no"

\* While no other has written its account, a request leaves it as it was judged.
StillJudged(r) ==
  LET row == users[r.target] IN
    r.at \in Past /\ ~r.edited =>
      /\ r.at \in {"count edit", "write edit"} /\ Sound(row) => Sound(Applied(row, r.writes))
      /\ r.at = "write edit" /\ ~r.removed /\ IsActiveAdmin(row) /\ ~IsActiveAdmin(Applied(row, r.writes))
         => AnotherAdmin(r.target)
      /\ r.at = "write remove" /\ ~r.removed /\ IsActiveAdmin(row) => AnotherAdmin(r.target)
      /\ r.at = "provision" => row.there # "yes"
      /\ r.at = "role" => row = Blank
      /\ r.at = "scope" => /\ row.dataScope = "ALL" /\ row.wide = "no"
                           /\ row.employee = r.writes["employee"]

RequestsAreJudged == \A d \in Desks : WritesAreShaped(work[d]) /\ StillJudged(work[d])

AccountInv == AccountsTypeOK /\ RequestsAreJudged

LEMMA BlankIsRow == IsRow(Blank) /\ IsRow(Absent) /\ Sound(Blank) /\ Sound(Absent) /\ ~IsActiveAdmin(Absent)
                    /\ ~IsActiveAdmin(Blank)
  BY DEF Blank, Absent, IsRow, RowFields, Sound, Usable, IsActiveAdmin

LEMMA IdleIsRequest == IsRequest(Idle) /\ Idle.at = "idle"
  BY AccountAssumption DEF Idle, IsRequest, RequestFields

LEMMA AppliedFields ==
  ASSUME NEW row, IsRow(row), NEW writes
  PROVE  /\ IsRow(Applied(row, writes))
         /\ \A f \in RowFields : Applied(row, writes)[f] = IF f \in DOMAIN writes THEN writes[f] ELSE row[f]
<1>1. DOMAIN row = RowFields
  BY DEF IsRow
<1> QED
  BY <1>1 DEF Applied, IsRow

LEMMA OneIsAnother ==
  ASSUME Cardinality(ActiveAdmins) > 1, NEW u
  PROVE  AnotherAdmin(u)
<1>1. IsFiniteSet(ActiveAdmins)
  BY AccountAssumption, FS_Subset DEF ActiveAdmins
<1>2. SUFFICES ASSUME ~AnotherAdmin(u) PROVE FALSE
  OBVIOUS
<1>3. ActiveAdmins \subseteq {u}
  BY <1>2 DEF AnotherAdmin
<1>4. IsFiniteSet({u}) /\ Cardinality({u}) = 1
  BY FS_Singleton
<1>5. Cardinality(ActiveAdmins) \in Nat /\ Cardinality(ActiveAdmins) <= 1
  BY <1>1, <1>3, <1>4, FS_Subset, FS_CardinalityType
<1> QED
  BY <1>5

LEMMA AccountInvInit == AccountsInit => AccountInv
<1> SUFFICES ASSUME AccountsInit PROVE AccountInv
  OBVIOUS
<1>1. \A u \in Users : users[u] = IF u = Founder THEN [Blank EXCEPT !.role = "ADMIN"] ELSE Absent
  BY DEF AccountsInit
<1>2. IsRow([Blank EXCEPT !.role = "ADMIN"])
  BY DEF Blank, IsRow, RowFields
<1>3. AccountsTypeOK
  BY <1>1, <1>2, BlankIsRow, IdleIsRequest DEF AccountsInit, AccountsTypeOK
<1>4. \A d \in Desks : work[d].at = "idle"
  BY IdleIsRequest DEF AccountsInit
<1>5. RequestsAreJudged
  BY <1>4 DEF RequestsAreJudged, WritesAreShaped, StillJudged, Past
<1> QED
  BY <1>3, <1>5 DEF AccountInv

\* A request that goes on without a write.
LEMMA GoesKeeps ==
  ASSUME AccountInv, NEW d \in Desks, NEW r, IsRequest(r), WritesAreShaped(r), StillJudged(r),
         work' = [work EXCEPT ![d] = r], users' = users
  PROVE  AccountInv'
<1>1. \A e \in Desks : work'[e] = IF e = d THEN r ELSE work[e]
  BY DEF AccountInv, AccountsTypeOK
<1>2. AccountsTypeOK'
  BY <1>1 DEF AccountInv, AccountsTypeOK
<1>3. ActiveAdmins' = ActiveAdmins
  BY DEF ActiveAdmins
<1>4. \A e \in Desks : WritesAreShaped(work'[e]) /\ StillJudged(work'[e])
  BY <1>1 DEF AccountInv, RequestsAreJudged
<1>5. ASSUME NEW e \in Desks
      PROVE  WritesAreShaped(work[e])' /\ StillJudged(work[e])'
  <2>1. WritesAreShaped(work'[e]) /\ StillJudged(work'[e])
    BY <1>4
  <2>2. WritesAreShaped(work[e])'
    BY <2>1 DEF WritesAreShaped
  <2>3. StillJudged(work[e])'
    BY <2>1, <1>3 DEF StillJudged, AnotherAdmin
  <2> QED
    BY <2>2, <2>3
<1>6. RequestsAreJudged'
  BY <1>5 DEF RequestsAreJudged
<1> QED
  BY <1>2, <1>6 DEF AccountInv

\* A write keeps what the others were judged on, or they know of it.
LEMMA WriteKeeps ==
  ASSUME AccountInv, NEW d \in Desks, NEW u \in Users, NEW row, IsRow(row), NEW at,
         Write(d, u, row, at), work[d].target = u,
         NEW r, IsRequest(r), WritesAreShaped(r), work'[d] = r,
         r.at \in {"idle", "role", "scope"}, r.at # "idle" => r.target = u,
         ~r.edited /\ r.at = "role" => row = Blank,
         ~r.edited /\ r.at = "scope" =>
           row.dataScope = "ALL" /\ row.wide = "no" /\ row.employee = r.writes["employee"]
  PROVE  AccountInv'
<1>1. users' = [users EXCEPT ![u] = row] /\ DOMAIN users = Users
  BY DEF Write, AccountInv, AccountsTypeOK
<1>2. \A v \in Users : users'[v] = IF v = u THEN row ELSE users[v]
  BY <1>1
<1>3. ASSUME NEW e \in Desks, e # d
      PROVE  work'[e] = Witnessed(work[e], u, row) /\ IsRequest(work[e])
  BY <1>3 DEF Write, AccountInv, AccountsTypeOK
<1>4. ASSUME NEW e \in Desks, e # d
      PROVE  /\ IsRequest(work'[e]) /\ work'[e].at = work[e].at /\ work'[e].target = work[e].target
             /\ work'[e].writes = work[e].writes
             /\ work'[e].removed = (work[e].removed \/ (IsActiveAdmin(users[u]) /\ ~IsActiveAdmin(row)))
             /\ work'[e].edited = (work[e].edited \/ work[e].target = u)
  <2> DEFINE w == work[e]
             rem == w.removed \/ (IsActiveAdmin(users[u]) /\ ~IsActiveAdmin(row))
             edi == w.edited \/ w.target = u
  <2>1. work'[e] = [w EXCEPT !.removed = rem, !.edited = edi] /\ IsRequest(w)
    BY <1>3, <1>4 DEF Witnessed
  <2>2. rem \in BOOLEAN /\ edi \in BOOLEAN
    BY <2>1 DEF IsRequest
  <2> HIDE DEF w, rem, edi
  <2>3. /\ work'[e] = [f \in RequestFields |-> work'[e][f]]
        /\ work'[e].at = w.at /\ work'[e].target = w.target /\ work'[e].writes = w.writes
        /\ work'[e].removed = rem /\ work'[e].edited = edi
    BY <2>1 DEF IsRequest, RequestFields
  <2>4. IsRequest(work'[e])
    BY <2>1, <2>2, <2>3 DEF IsRequest
  <2> QED
    BY <2>3, <2>4 DEF w, rem, edi
<1>5. AccountsTypeOK'
  <2>1. work' = [e \in Desks |-> work'[e]]
    BY DEF Write
  <2>2. \A e \in Desks : IsRequest(work'[e])
    BY <1>4
  <2>3. DOMAIN users' = Users /\ \A v \in Users : IsRow(users'[v])
    BY <1>1, <1>2 DEF AccountInv, AccountsTypeOK
  <2> QED
    BY <2>1, <2>2, <2>3 DEF AccountsTypeOK, IsRequest, IsRow
<1>6. ASSUME NEW e \in Desks
      PROVE  WritesAreShaped(work[e])'
  <2>1. CASE e = d
    BY <2>1 DEF WritesAreShaped
  <2>2. CASE e # d
    BY <1>4, <2>2 DEF AccountInv, RequestsAreJudged, WritesAreShaped
  <2> QED
    BY <2>1, <2>2
<1>7. ASSUME NEW e \in Desks
      PROVE  StillJudged(work[e])'
  <2>1. CASE e = d
    <3>1. r.at # "idle" => users'[r.target] = row
      BY <1>2
    <3> QED
      BY <2>1, <3>1 DEF StillJudged, Past
  <2>2. CASE e # d
    <3>1. SUFFICES ASSUME work[e].at \in Past, ~work'[e].edited
                   PROVE  StillJudged(work[e])'
      BY <1>4, <2>2 DEF StillJudged
    <3>2. /\ ~work[e].edited /\ work[e].target # u /\ work[e].target \in Users
          /\ users'[work[e].target] = users[work[e].target]
      BY <1>2, <1>3, <1>4, <2>2, <3>1 DEF IsRequest
    <3>3. ASSUME ~work'[e].removed, AnotherAdmin(work[e].target)
          PROVE  AnotherAdmin(work[e].target)'
      <4>1. PICK v \in ActiveAdmins : v # work[e].target
        BY <3>3 DEF AnotherAdmin
      <4>2. v \in Users /\ IsActiveAdmin(users[v])
        BY <4>1 DEF ActiveAdmins
      <4>3. IsActiveAdmin(users'[v])
        BY <1>2, <1>4, <2>2, <3>3, <4>2
      <4>4. v \in ActiveAdmins'
        BY <4>2, <4>3 DEF ActiveAdmins
      <4>5. work'[e].target = work[e].target
        BY <1>4, <2>2
      <4> QED
        BY <4>1, <4>4, <4>5 DEF AnotherAdmin
    <3>4. ~work'[e].removed => ~work[e].removed
      BY <1>4, <2>2
    <3>5. StillJudged(work[e])
      BY DEF AccountInv, RequestsAreJudged
    <3> QED
      BY <1>4, <2>2, <3>1, <3>2, <3>3, <3>4, <3>5 DEF StillJudged
  <2> QED
    BY <2>1, <2>2
<1> QED
  BY <1>5, <1>6, <1>7 DEF AccountInv, RequestsAreJudged

LEMMA UnjudgedKeeps ==
  ASSUME AccountInv, NEW d \in Desks, NEW r, IsRequest(r), WritesAreShaped(r), r.at \notin Past,
         work' = [work EXCEPT ![d] = r], users' = users
  PROVE  AccountInv'
<1>1. StillJudged(r)
  BY DEF StillJudged
<1> QED
  BY <1>1, GoesKeeps

LEMMA RefusedKeeps ==
  ASSUME AccountInv, NEW d \in Desks, Refused(d)
  PROVE  AccountInv'
<1>1. WritesAreShaped(Idle) /\ Idle.at \notin Past
  BY IdleIsRequest DEF WritesAreShaped, Past
<1> QED
  BY <1>1, IdleIsRequest, UnjudgedKeeps DEF Refused, Goes

LEMMA PressKeeps ==
  ASSUME AccountInv, NEW d \in Desks, Press(d)
  PROVE  AccountInv'
<1>1. PICK actor \in ActiveAdmins, u \in Users :
        LET r == [Idle EXCEPT !.target = u, !.self = (actor = u)] IN
          \/ \E p \in Patches : work' = [work EXCEPT ![d] = [r EXCEPT !.at = "edit", !.writes = p]]
          \/ work' = [work EXCEPT ![d] = [r EXCEPT !.at = "remove"]]
          \/ \E p \in Drafts : work' = [work EXCEPT ![d] = [r EXCEPT !.at = "make", !.writes = p]]
  BY DEF Press
<1> DEFINE r == [Idle EXCEPT !.target = u, !.self = (actor = u)]
<1>2. /\ r = [f \in RequestFields |-> r[f]] /\ r.target = u /\ r.removed = FALSE /\ r.edited = FALSE
  BY DEF Idle, RequestFields
<1> HIDE DEF r
<1>3. users' = users
  BY DEF Press
<1>4. CASE \E p \in Patches : work' = [work EXCEPT ![d] = [r EXCEPT !.at = "edit", !.writes = p]]
  <2>1. PICK p \in Patches : work' = [work EXCEPT ![d] = [r EXCEPT !.at = "edit", !.writes = p]]
    BY <1>4
  <2> DEFINE q == [r EXCEPT !.at = "edit", !.writes = p]
  <2>2. IsRequest(q) /\ q.at = "edit" /\ q.writes = p
    BY <1>2 DEF IsRequest, RequestFields
  <2>3. IsPatch(p)
    BY AccountAssumption DEF RowFields, IsPatch
  <2> HIDE DEF q
  <2>4. WritesAreShaped(q) /\ q.at \notin Past
    BY <2>2, <2>3 DEF WritesAreShaped, Past
  <2>5. work' = [work EXCEPT ![d] = q]
    BY <2>1 DEF q
  <2> QED
    BY <1>3, <2>2, <2>4, <2>5, UnjudgedKeeps
<1>5. CASE work' = [work EXCEPT ![d] = [r EXCEPT !.at = "remove"]]
  <2> DEFINE q == [r EXCEPT !.at = "remove"]
  <2>2. IsRequest(q) /\ q.at = "remove"
    BY <1>2 DEF IsRequest, RequestFields
  <2>5. work' = [work EXCEPT ![d] = q]
    BY <1>5
  <2> HIDE DEF q
  <2>4. WritesAreShaped(q) /\ q.at \notin Past
    BY <2>2 DEF WritesAreShaped, Past
  <2> QED
    BY <1>3, <2>2, <2>4, <2>5, UnjudgedKeeps
<1>6. CASE \E p \in Drafts : work' = [work EXCEPT ![d] = [r EXCEPT !.at = "make", !.writes = p]]
  <2>1. PICK p \in Drafts : work' = [work EXCEPT ![d] = [r EXCEPT !.at = "make", !.writes = p]]
    BY <1>6
  <2> DEFINE q == [r EXCEPT !.at = "make", !.writes = p]
  <2>2. IsRequest(q) /\ q.at = "make" /\ q.writes = p
    BY <1>2 DEF IsRequest, RequestFields
  <2>3. DOMAIN p = DraftFields
    BY AccountAssumption DEF DraftFields
  <2> HIDE DEF q
  <2>4. WritesAreShaped(q) /\ q.at \notin Past
    BY <2>2, <2>3 DEF WritesAreShaped, Past
  <2>5. work' = [work EXCEPT ![d] = q]
    BY <2>1 DEF q
  <2> QED
    BY <1>3, <2>2, <2>4, <2>5, UnjudgedKeeps
<1> QED
  BY <1>1, <1>4, <1>5, <1>6 DEF r

\* An edit that is judged sound leaves a sound account, its stored ticks included.
LEMMA EditStaysSound ==
  ASSUME NEW row, IsRow(row), NEW writes, IsPatch(writes),
         Sound(row), EditIsUsable(row, writes)
  PROVE  Sound(Applied(row, EditWrites(row, writes)))
<1> DEFINE after == Applied(row, writes)
<1>1. \A f \in RowFields : after[f] = IF f \in DOMAIN writes THEN writes[f] ELSE row[f]
  BY AppliedFields
<1>2. Usable(after)
  BY DEF EditIsUsable
<1>3. CASE ~TouchesScope(writes)
  <2>1. EditWrites(row, writes) = writes
    BY <1>3 DEF EditWrites
  <2>2. "dataScope" \notin DOMAIN writes /\ "wide" \notin DOMAIN writes
    BY <1>3 DEF TouchesScope
  <2>3. after.dataScope = row.dataScope /\ after.wide = row.wide
    BY <1>1, <2>2 DEF RowFields
  <2> QED
    BY <1>2, <2>1, <2>3 DEF Sound
<1>4. CASE TouchesScope(writes)
  <2> DEFINE w == EditWrites(row, writes)
             end == Applied(row, w)
  <2>1. w = [f \in DOMAIN writes \cup {"wide"} |->
               IF f = "wide" THEN WideToStore(Applied(row, writes)) ELSE writes[f]]
    BY <1>4 DEF EditWrites
  <2>2. /\ DOMAIN w = DOMAIN writes \cup {"wide"} /\ w["wide"] = WideToStore(after)
        /\ \A f \in DOMAIN writes \ {"wide"} : w[f] = writes[f]
    BY <2>1
  <2> HIDE DEF w
  <2>3. \A f \in RowFields : end[f] = IF f \in DOMAIN w THEN w[f] ELSE row[f]
    BY AppliedFields
  <2> HIDE DEF end, after
  <2>4. end.dataScope = after.dataScope /\ end.employee = after.employee /\ end.wide = WideToStore(after)
    BY <1>1, <2>2, <2>3 DEF RowFields
  <2>5. Usable(end) /\ (end.dataScope = "ALL" => end.wide = "no")
    BY <1>2, <2>4 DEF Usable, WideToStore
  <2> QED
    BY <2>5 DEF Sound, end, w
<1> QED
  BY <1>3, <1>4

\* What loses no administrator keeps one.
LEMMA EditKeepsAdmin ==
  ASSUME NEW row, IsRow(row), NEW writes, IsPatch(writes),
         IsActiveAdmin(row), ~LosesAdmin(row, writes)
  PROVE  IsActiveAdmin(Applied(row, EditWrites(row, writes)))
<1> DEFINE w == EditWrites(row, writes)
           end == Applied(row, w)
<1>1. /\ DOMAIN w \subseteq DOMAIN writes \cup {"wide"}
      /\ \A f \in DOMAIN w \ {"wide"} : w[f] = writes[f]
  BY DEF EditWrites
<1> HIDE DEF w
<1>2. \A f \in RowFields : end[f] = IF f \in DOMAIN w THEN w[f] ELSE row[f]
  BY AppliedFields
<1> HIDE DEF end
<1>3. row.there = "yes" /\ row.role = "ADMIN" /\ row.isActive = "yes"
  BY DEF IsActiveAdmin
<1>4. /\ "role" \in DOMAIN writes => writes["role"] = "ADMIN"
      /\ "isActive" \in DOMAIN writes => writes["isActive"] # "no"
  BY <1>3 DEF LosesAdmin
<1>5. end.there = "yes" /\ end.role = "ADMIN"
  BY <1>1, <1>2, <1>3, <1>4 DEF RowFields, IsPatch
<1>6. "isActive" \in DOMAIN writes => writes["isActive"] = "yes"
  BY <1>4 DEF IsPatch
<1> QED
  BY <1>1, <1>2, <1>3, <1>5, <1>6 DEF RowFields, IsActiveAdmin, end, w

LEMMA ReadEditKeeps ==
  ASSUME AccountInv, NEW d \in Desks, ReadEdit(d)
  PROVE  AccountInv'
<1> DEFINE r == work[d]
           before == users[r.target]
           w == EditWrites(before, r.writes)
           next == IF LosesAdmin(before, r.writes) THEN "count edit" ELSE "write edit"
           q == [r EXCEPT !.at = next, !.writes = w, !.removed = FALSE, !.edited = FALSE]
<1>1. IsRequest(r) /\ WritesAreShaped(r) /\ r.at = "edit" /\ IsRow(before)
  BY DEF AccountInv, AccountsTypeOK, RequestsAreJudged, ReadEdit, IsRequest
<1>2. CASE before.there = "no" \/ LocksSelfOut(r, before) \/ ~EditIsUsable(before, r.writes)
  BY <1>2, RefusedKeeps DEF ReadEdit
<1>3. CASE ~(before.there = "no" \/ LocksSelfOut(r, before) \/ ~EditIsUsable(before, r.writes))
  <2>1. work' = [work EXCEPT ![d] = q] /\ users' = users
    BY <1>3 DEF ReadEdit, Goes
  <2>2. /\ q = [f \in RequestFields |-> q[f]] /\ q.target = r.target /\ q.removed = FALSE /\ q.edited = FALSE
        /\ q.at = next /\ q.writes = w
    BY <1>1 DEF IsRequest, RequestFields
  <2>3. IsPatch(r.writes) /\ EditIsUsable(before, r.writes)
    BY <1>1, <1>3 DEF WritesAreShaped
  <2>4. Sound(before) => Sound(Applied(before, w))
    BY <1>1, <2>3, EditStaysSound
  <2>5. next = "write edit" /\ IsActiveAdmin(before) => IsActiveAdmin(Applied(before, w))
    BY <1>1, <2>3, EditKeepsAdmin
  <2>6. next \in {"count edit", "write edit"}
    OBVIOUS
  <2>7. users[q.target] = before
    BY <2>2
  <2> HIDE DEF q, w, next, before
  <2>8. IsRequest(q) /\ WritesAreShaped(q)
    BY <1>1, <2>2, <2>6 DEF IsRequest, WritesAreShaped
  <2>9. StillJudged(q)
    BY <2>2, <2>4, <2>5, <2>6, <2>7 DEF StillJudged
  <2> QED
    BY <2>1, <2>8, <2>9, GoesKeeps
<1> QED
  BY <1>2, <1>3

LEMMA ReadRemoveKeeps ==
  ASSUME AccountInv, NEW d \in Desks, ReadRemove(d)
  PROVE  AccountInv'
<1> DEFINE r == work[d]
           before == users[r.target]
           next == IF IsActiveAdmin(before) THEN "count remove" ELSE "write remove"
           q == [r EXCEPT !.at = next, !.removed = FALSE, !.edited = FALSE]
<1>1. IsRequest(r) /\ r.at = "remove"
  BY DEF AccountInv, AccountsTypeOK, ReadRemove
<1>2. CASE before.there = "no" \/ r.self
  BY <1>2, RefusedKeeps DEF ReadRemove
<1>3. CASE ~(before.there = "no" \/ r.self)
  <2>1. work' = [work EXCEPT ![d] = q] /\ users' = users
    BY <1>3 DEF ReadRemove, Goes
  <2>2. /\ q = [f \in RequestFields |-> q[f]] /\ q.target = r.target /\ q.removed = FALSE /\ q.edited = FALSE
        /\ q.at = next
    BY <1>1 DEF IsRequest, RequestFields
  <2>3. next \in {"count remove", "write remove"} /\ (next = "write remove" => ~IsActiveAdmin(before))
    OBVIOUS
  <2>4. users[q.target] = before
    BY <2>2
  <2> HIDE DEF q, next, before
  <2>5. IsRequest(q) /\ WritesAreShaped(q)
    BY <1>1, <2>2, <2>3 DEF IsRequest, WritesAreShaped
  <2>6. StillJudged(q)
    BY <2>2, <2>3, <2>4 DEF StillJudged
  <2> QED
    BY <2>1, <2>5, <2>6, GoesKeeps
<1> QED
  BY <1>2, <1>3

LEMMA CountKeeps ==
  ASSUME AccountInv, NEW d \in Desks, Count(d)
  PROVE  AccountInv'
<1> DEFINE r == work[d]
           next == IF r.at = "count edit" THEN "write edit" ELSE "write remove"
           q == [r EXCEPT !.at = next]
<1>1. IsRequest(r) /\ StillJudged(r) /\ r.at \in {"count edit", "count remove"}
  BY DEF AccountInv, AccountsTypeOK, RequestsAreJudged, Count
<1>2. CASE ~OthersRemain
  BY <1>2, RefusedKeeps DEF Count
<1>3. CASE OthersRemain
  <2>1. work' = [work EXCEPT ![d] = q] /\ users' = users
    BY <1>3 DEF Count, Goes
  <2>2. /\ q = [f \in RequestFields |-> q[f]] /\ q.target = r.target /\ q.removed = r.removed
        /\ q.edited = r.edited /\ q.writes = r.writes /\ q.at = next
    BY <1>1 DEF IsRequest, RequestFields
  <2>3. AnotherAdmin(r.target)
    BY <1>3, OneIsAnother DEF OthersRemain
  <2>4. next \in {"write edit", "write remove"} /\ (next = "write edit" => r.at = "count edit")
    BY <1>1
  <2> HIDE DEF q, next
  <2>5. IsRequest(q) /\ WritesAreShaped(q)
    BY <1>1, <2>2, <2>4 DEF IsRequest, WritesAreShaped
  <2>6. StillJudged(q)
    <3>1. r.at \in Past
      BY <1>1 DEF Past
    <3> QED
      BY <1>1, <2>2, <2>3, <2>4, <3>1 DEF StillJudged
  <2> QED
    BY <2>1, <2>5, <2>6, GoesKeeps
<1> QED
  BY <1>2, <1>3

LEMMA CommitKeepsAccounts ==
  ASSUME AccountInv, NEW d \in Desks, CommitEdit(d) \/ CommitRemove(d)
  PROVE  AccountInv'
<1> DEFINE r == work[d]
           u == r.target
<1>1. IsRequest(r) /\ u \in Users /\ IsRow(users[u])
  BY DEF AccountInv, AccountsTypeOK, IsRequest
<1>2. PICK row : IsRow(row) /\ Write(d, u, row, "idle")
  <2>1. CASE CommitEdit(d)
    BY <1>1, <2>1, AppliedFields DEF CommitEdit
  <2>2. CASE CommitRemove(d)
    BY <2>2, BlankIsRow DEF CommitRemove
  <2> QED
    BY <2>1, <2>2
<1>3. work'[d] = Idle
  BY <1>2 DEF Write
<1>4. WritesAreShaped(Idle)
  BY IdleIsRequest DEF WritesAreShaped
<1>5. Idle.at = "idle" /\ IsRequest(Idle) /\ Idle.at \in {"idle", "role", "scope"}
  BY IdleIsRequest
<1> QED
  BY <1>1, <1>2, <1>3, <1>4, <1>5, WriteKeeps

LEMMA ReadMakeKeeps ==
  ASSUME AccountInv, NEW d \in Desks, ReadMake(d)
  PROVE  AccountInv'
<1> DEFINE r == work[d]
           asked0 == Applied(Blank, r.writes)
           w == [r.writes EXCEPT !["wide"] = WideToStore(asked0)]
           q == [r EXCEPT !.at = "provision", !.writes = w, !.removed = FALSE, !.edited = FALSE]
<1>1. IsRequest(r) /\ WritesAreShaped(r) /\ r.at = "make"
  BY DEF AccountInv, AccountsTypeOK, RequestsAreJudged, ReadMake
<1>2. CASE users[r.target].there = "yes" \/ ~Usable(asked0)
  BY <1>2, RefusedKeeps DEF ReadMake
<1>3. CASE ~(users[r.target].there = "yes" \/ ~Usable(asked0))
  <2>1. work' = [work EXCEPT ![d] = q] /\ users' = users
    BY <1>3 DEF ReadMake, Goes
  <2>2. /\ q = [f \in RequestFields |-> q[f]] /\ q.target = r.target /\ q.removed = FALSE /\ q.edited = FALSE
        /\ q.at = "provision" /\ q.writes = w
    BY <1>1 DEF IsRequest, RequestFields
  <2>3. DOMAIN r.writes = DraftFields
    BY <1>1 DEF WritesAreShaped
  <2>4. /\ DOMAIN w = DraftFields /\ w["wide"] = WideToStore(asked0)
        /\ w["dataScope"] = r.writes["dataScope"] /\ w["employee"] = r.writes["employee"]
    BY <2>3 DEF DraftFields
  <2>5. asked0.dataScope = r.writes["dataScope"] /\ asked0.employee = r.writes["employee"]
    BY <2>3, BlankIsRow, AppliedFields DEF DraftFields, RowFields
  <2>6. Usable(asked0)
    BY <1>3
  <2>7. users[r.target].there # "yes" /\ IsRow(users[r.target])
    BY <1>1, <1>3 DEF AccountInv, AccountsTypeOK, IsRequest
  <2> HIDE DEF q, w, asked0
  <2>8. /\ w["dataScope"] = "ALL" \/ w["employee"] # "none"
        /\ w["dataScope"] = "ALL" => w["wide"] = "no"
    BY <2>4, <2>5, <2>6 DEF Usable, WideToStore
  <2>9. IsRequest(q) /\ WritesAreShaped(q)
    BY <1>1, <2>2, <2>4, <2>8 DEF IsRequest, WritesAreShaped
  <2>10. StillJudged(q)
    BY <2>2, <2>7 DEF StillJudged
  <2> QED
    BY <2>1, <2>9, <2>10, GoesKeeps
<1> QED
  BY <1>2, <1>3

LEMMA ProvisionRowKeeps ==
  ASSUME AccountInv, NEW d \in Desks, ProvisionRow(d)
  PROVE  AccountInv'
<1> DEFINE r == work[d]
           q == [r EXCEPT !.at = "role"]
<1>1. /\ IsRequest(r) /\ WritesAreShaped(r) /\ StillJudged(r) /\ r.at = "provision" /\ r.target \in Users
  BY DEF AccountInv, AccountsTypeOK, RequestsAreJudged, ProvisionRow, IsRequest
<1>2. /\ q = [f \in RequestFields |-> q[f]] /\ q.target = r.target /\ q.removed = r.removed
      /\ q.edited = r.edited /\ q.at = "role" /\ q.writes = r.writes
  BY <1>1 DEF IsRequest, RequestFields
<1>3. IsRequest(q) /\ WritesAreShaped(q)
  BY <1>1, <1>2 DEF IsRequest, WritesAreShaped
<1>4. CASE users[r.target].there = "yes"
  <2>1. work' = [work EXCEPT ![d] = q] /\ users' = users
    BY <1>4 DEF ProvisionRow, Goes
  <2>2. r.edited
    BY <1>1, <1>4 DEF StillJudged, Past
  <2>3. StillJudged(q)
    BY <1>2, <2>2 DEF StillJudged
  <2> QED
    BY <1>3, <2>1, <2>3, GoesKeeps
<1>5. CASE ~(users[r.target].there = "yes")
  <2>1. Write(d, r.target, Blank, "role")
    BY <1>5 DEF ProvisionRow
  <2>2. work'[d] = q
    BY <2>1 DEF Write
  <2> HIDE DEF q
  <2>3. q.at \in {"idle", "role", "scope"} /\ q.at # "scope"
    BY <1>2
  <2> QED
    BY <1>1, <1>2, <1>3, <2>1, <2>2, <2>3, BlankIsRow, WriteKeeps
<1> QED
  BY <1>4, <1>5

LEMMA ProvisionRoleKeeps ==
  ASSUME AccountInv, NEW d \in Desks, ProvisionRole(d)
  PROVE  AccountInv'
<1> DEFINE r == work[d]
           u == r.target
           row == [users[u] EXCEPT !.role = r.writes["role"], !.isActive = "yes",
                                   !.employee = r.writes["employee"]]
           q == [r EXCEPT !.at = "scope"]
<1>1. /\ IsRequest(r) /\ WritesAreShaped(r) /\ StillJudged(r) /\ r.at = "role" /\ u \in Users
      /\ IsRow(users[u])
  BY DEF AccountInv, AccountsTypeOK, RequestsAreJudged, ProvisionRole, IsRequest
<1>2. /\ q = [f \in RequestFields |-> q[f]] /\ q.target = u /\ q.removed = r.removed
      /\ q.edited = r.edited /\ q.at = "scope" /\ q.writes = r.writes
  BY <1>1 DEF IsRequest, RequestFields
<1>3. IsRequest(q) /\ WritesAreShaped(q)
  BY <1>1, <1>2 DEF IsRequest, WritesAreShaped
<1>4. Write(d, u, row, "scope")
  BY DEF ProvisionRole
<1>5. work'[d] = q
  BY <1>4 DEF Write
<1>6. /\ IsRow(row) /\ row.employee = r.writes["employee"] /\ row.dataScope = users[u].dataScope
      /\ row.wide = users[u].wide
  BY <1>1 DEF IsRow, RowFields
<1>7. ~r.edited => users[u].dataScope = "ALL" /\ users[u].wide = "no"
  BY <1>1 DEF StillJudged, Past, Blank
<1> HIDE DEF q, row
<1>8. q.at \in {"idle", "role", "scope"} /\ q.at # "role"
  BY <1>2
<1> QED
  BY <1>1, <1>2, <1>3, <1>4, <1>5, <1>6, <1>7, <1>8, WriteKeeps

LEMMA SaveScopeKeeps ==
  ASSUME AccountInv, NEW d \in Desks, SaveScope(d)
  PROVE  AccountInv'
<1> DEFINE r == work[d]
           u == r.target
           row == [users[u] EXCEPT !.wide = r.writes["wide"], !.dataScope = r.writes["dataScope"]]
<1>1. IsRequest(r) /\ u \in Users /\ IsRow(users[u]) /\ Write(d, u, row, "idle")
  BY DEF AccountInv, AccountsTypeOK, SaveScope, IsRequest
<1>2. IsRow(row)
  BY <1>1 DEF IsRow, RowFields
<1>3. work'[d] = Idle
  BY <1>1 DEF Write
<1>4. WritesAreShaped(Idle)
  BY IdleIsRequest DEF WritesAreShaped
<1>5. Idle.at = "idle" /\ IsRequest(Idle) /\ Idle.at \in {"idle", "role", "scope"}
  BY IdleIsRequest
<1> HIDE DEF row
<1> QED
  BY <1>1, <1>2, <1>3, <1>4, <1>5, WriteKeeps

LEMMA AccountInvStep == AccountInv /\ [AccountsNext]_accountVars => AccountInv'
<1> SUFFICES ASSUME AccountInv, [AccountsNext]_accountVars PROVE AccountInv'
  OBVIOUS
<1>1. CASE UNCHANGED accountVars
  BY <1>1 DEF accountVars, AccountInv, AccountsTypeOK, RequestsAreJudged, WritesAreShaped, StillJudged,
              AnotherAdmin, ActiveAdmins
<1>2. ASSUME NEW d \in Desks, RequestFails(d)
      PROVE  AccountInv'
  BY <1>2, RefusedKeeps DEF RequestFails
<1> QED
  BY <1>1, <1>2, PressKeeps, ReadEditKeeps, ReadRemoveKeeps, CountKeeps, CommitKeepsAccounts, ReadMakeKeeps,
     ProvisionRowKeeps, ProvisionRoleKeeps, SaveScopeKeeps DEF AccountsNext

\* What a request's write makes of its account.
Written(r, row) ==
  LET old == users[r.target] IN
    \/ r.at = "write edit" /\ row = Applied(old, r.writes)
    \/ r.at = "write remove" /\ row = Absent
    \/ r.at = "provision" /\ row = Blank /\ old.there # "yes"
    \/ r.at = "role" /\ row = [old EXCEPT !.role = r.writes["role"], !.isActive = "yes",
                                           !.employee = r.writes["employee"]]
    \/ r.at = "scope" /\ row = [old EXCEPT !.wide = r.writes["wide"], !.dataScope = r.writes["dataScope"]]

LEMMA WriterWrites ==
  ASSUME AccountInv, [AccountsNext]_accountVars, users' # users
  PROVE  \E d \in Desks : /\ Writer(d)
                          /\ \E row : /\ Written(work[d], row)
                                      /\ users' = [users EXCEPT ![work[d].target] = row]
<1>1. PICK d \in Desks :
        CommitEdit(d) \/ CommitRemove(d) \/ ProvisionRow(d) \/ ProvisionRole(d) \/ SaveScope(d)
  BY DEF AccountsNext, accountVars, Press, ReadEdit, ReadRemove, Count, ReadMake, RequestFails, Refused, Goes
<1> DEFINE r == work[d]
           u == r.target
<1>2. IsRequest(r)
  BY DEF AccountInv, AccountsTypeOK
<1>3. ASSUME NEW row, NEW at, Write(d, u, row, at), r.at # at, r.at # "idle"
      PROVE  Writer(d) /\ users' = [users EXCEPT ![u] = row]
  <2>1. work'[d] = IF at = "idle" THEN Idle ELSE [r EXCEPT !.at = at]
    BY <1>3 DEF Write
  <2>2. [r EXCEPT !.at = at].at = at
    BY <1>2 DEF IsRequest, RequestFields
  <2> QED
    BY <1>3, <2>1, <2>2, IdleIsRequest DEF Writer, Write
<1>4. CASE CommitEdit(d)
  BY <1>3, <1>4 DEF CommitEdit, Written
<1>5. CASE CommitRemove(d)
  BY <1>3, <1>5 DEF CommitRemove, Written
<1>6. CASE ProvisionRow(d)
  <2>1. r.at = "provision" /\ users[u].there # "yes" /\ Write(d, u, Blank, "role")
    BY <1>6 DEF ProvisionRow, Goes
  <2> QED
    BY <1>3, <2>1 DEF Written
<1>7. CASE ProvisionRole(d)
  BY <1>3, <1>7 DEF ProvisionRole, Written
<1>8. CASE SaveScope(d)
  BY <1>3, <1>8 DEF SaveScope, Written
<1> QED
  BY <1>1, <1>4, <1>5, <1>6, <1>7, <1>8

(***************************************************************************)
(* The accounts' rows and the requests on them keep their shapes, whatever *)
(* of a making is done (userAdminService.ts, provisioning.ts).             *)
(***************************************************************************)
THEOREM AccountsAreWellFormed == AccountsSpec => []AccountsTypeOK
<1>1. AccountInv => AccountsTypeOK
  BY DEF AccountInv
<1> QED
  BY AccountInvInit, AccountInvStep, <1>1, PTL DEF AccountsSpec

(***************************************************************************)
(* The last active administrator goes only by a request that another       *)
(* overtook since it read the account (updateUser, deleteUser,             *)
(* activeAdminCount), for any accounts and administrators at work.         *)
(***************************************************************************)
THEOREM TheLastAdminStays == AccountsSpec => LastAdminStays
<1>1. ASSUME AccountInv, [AccountsNext]_accountVars, ActiveAdmins # {}, ActiveAdmins' = {}
      PROVE  \E d \in Desks : Writer(d) /\ (work[d].removed \/ work[d].edited)
  <2>1. users' # users
    BY <1>1 DEF ActiveAdmins
  <2>2. PICK d \in Desks : Writer(d) /\ \E row : /\ Written(work[d], row)
                                                  /\ users' = [users EXCEPT ![work[d].target] = row]
    BY <1>1, <2>1, WriterWrites
  <2>3. PICK row : Written(work[d], row) /\ users' = [users EXCEPT ![work[d].target] = row]
    BY <2>2
  <2> DEFINE r == work[d]
             u == r.target
             old == users[u]
  <2>4. IsRequest(r) /\ StillJudged(r) /\ DOMAIN users = Users /\ u \in Users /\ IsRow(old)
    BY <1>1 DEF AccountInv, AccountsTypeOK, RequestsAreJudged, IsRequest
  <2>5. users'[u] = row /\ \A v \in Users : v # u => users'[v] = users[v]
    BY <2>3, <2>4
  <2>6. \A v \in Users : ~IsActiveAdmin(users'[v])
    BY <1>1 DEF ActiveAdmins
  <2>7. ~IsActiveAdmin(row)
    BY <2>4, <2>5, <2>6
  <2>8. ~AnotherAdmin(u)
    BY <2>5, <2>6 DEF AnotherAdmin, ActiveAdmins
  <2>9. IsActiveAdmin(old)
    BY <1>1, <2>8 DEF AnotherAdmin, ActiveAdmins
  <2>10. SUFFICES ASSUME ~r.removed, ~r.edited PROVE FALSE
    BY <2>2
  <2>11. CASE r.at = "write edit"
    <3>1. row = Applied(old, r.writes)
      BY <2>3, <2>11 DEF Written
    <3> QED
      BY <2>4, <2>7, <2>8, <2>9, <2>10, <2>11, <3>1 DEF StillJudged, Past
  <2>12. CASE r.at = "write remove"
    BY <2>4, <2>8, <2>9, <2>10, <2>12 DEF StillJudged, Past
  <2>13. CASE r.at = "provision"
    BY <2>4, <2>9, <2>10, <2>13 DEF StillJudged, Past, IsActiveAdmin
  <2>14. CASE r.at = "role"
    BY <2>4, <2>9, <2>10, <2>14, BlankIsRow DEF StillJudged, Past
  <2>15. CASE r.at = "scope"
    <3>1. row = [old EXCEPT !.wide = r.writes["wide"], !.dataScope = r.writes["dataScope"]]
      BY <2>3, <2>15 DEF Written
    <3>2. row.there = old.there /\ row.role = old.role /\ row.isActive = old.isActive
      BY <2>4, <3>1 DEF IsRow, RowFields
    <3> QED
      BY <2>7, <2>9, <3>2 DEF IsActiveAdmin
  <2> QED
    BY <2>3, <2>11, <2>12, <2>13, <2>14, <2>15 DEF Written
<1>2. AccountInv /\ [AccountsNext]_accountVars
      => [ActiveAdmins # {} /\ ActiveAdmins' = {}
          => \E d \in Desks : Writer(d) /\ (work[d].removed \/ work[d].edited)]_accountVars
  BY <1>1
<1> QED
  BY AccountInvInit, AccountInvStep, <1>2, PTL DEF AccountsSpec, LastAdminStays

(***************************************************************************)
(* An account comes to a scope it has no employee for, or to ticks that    *)
(* would spring back, only by a request that another overtook on the same  *)
(* account (assertScopeIsUsable, wideSectionsToStore, provisionUser).      *)
(***************************************************************************)
THEOREM ScopesStaySoundAlone == AccountsSpec => ScopesStaySound
<1>1. ASSUME AccountInv, [AccountsNext]_accountVars, NEW v \in Users, Sound(users[v]), ~Sound(users'[v])
      PROVE  \E d \in Desks : Writer(d) /\ work[d].target = v /\ work[d].edited
  <2>1. users' # users
    BY <1>1
  <2>2. PICK d \in Desks : Writer(d) /\ \E row : /\ Written(work[d], row)
                                                  /\ users' = [users EXCEPT ![work[d].target] = row]
    BY <1>1, <2>1, WriterWrites
  <2>3. PICK row : Written(work[d], row) /\ users' = [users EXCEPT ![work[d].target] = row]
    BY <2>2
  <2> DEFINE r == work[d]
             old == users[v]
  <2>4. /\ IsRequest(r) /\ StillJudged(r) /\ WritesAreShaped(r) /\ DOMAIN users = Users /\ IsRow(old)
    BY <1>1 DEF AccountInv, AccountsTypeOK, RequestsAreJudged
  <2>5. r.target = v /\ users'[v] = row
    BY <1>1, <2>3, <2>4
  <2>6. SUFFICES ASSUME ~r.edited PROVE Sound(row)
    BY <1>1, <2>2, <2>5
  <2>7. CASE r.at = "write edit"
    <3>1. row = Applied(old, r.writes)
      BY <2>3, <2>5, <2>7 DEF Written
    <3> QED
      BY <1>1, <2>4, <2>5, <2>6, <2>7, <3>1 DEF StillJudged, Past
  <2>8. CASE r.at = "write remove" \/ r.at = "provision"
    BY <2>3, <2>8, BlankIsRow DEF Written
  <2>9. CASE r.at = "role"
    <3>1. row = [old EXCEPT !.role = r.writes["role"], !.isActive = "yes", !.employee = r.writes["employee"]]
      BY <2>3, <2>5, <2>9 DEF Written
    <3>2. old = Blank
      BY <2>4, <2>5, <2>6, <2>9 DEF StillJudged, Past
    <3>3. row.dataScope = "ALL" /\ row.wide = "no"
      BY <3>1, <3>2 DEF Blank
    <3> QED
      BY <3>3 DEF Sound, Usable
  <2>10. CASE r.at = "scope"
    <3>1. row = [old EXCEPT !.wide = r.writes["wide"], !.dataScope = r.writes["dataScope"]]
      BY <2>3, <2>5, <2>10 DEF Written
    <3>2. old.employee = r.writes["employee"]
      BY <2>4, <2>5, <2>6, <2>10 DEF StillJudged, Past
    <3>3. row.dataScope = r.writes["dataScope"] /\ row.wide = r.writes["wide"] /\ row.employee = old.employee
      BY <2>4, <3>1 DEF IsRow, RowFields
    <3> QED
      BY <2>4, <2>10, <3>2, <3>3 DEF Sound, Usable, WritesAreShaped
  <2> QED
    BY <2>3, <2>7, <2>8, <2>9, <2>10 DEF Written
<1>2. AccountInv /\ [AccountsNext]_accountVars
      => [\A u \in Users : Sound(users[u]) /\ ~Sound(users'[u])
          => \E d \in Desks : Writer(d) /\ work[d].target = u /\ work[d].edited]_accountVars
  BY <1>1
<1> QED
  BY AccountInvInit, AccountInvStep, <1>2, PTL DEF AccountsSpec, ScopesStaySound

(***************************************************************************)
(* The audit tells what happened to the setting, for any number of panels, *)
(* fields and saves (save).                                                *)
(***************************************************************************)
THEOREM HistoryIsTrueAlways == ConfigSpec => []HistoryIsTrue
BY AuditsAreHistory, SavesKeepTheRest, PTL DEF HistoryIsTrue

(***************************************************************************)
(* Requests one at a time keep the accounts sound, for any number of       *)
(* accounts and requests (updateUser, deleteUser, createUser).             *)
(***************************************************************************)
THEOREM AccountsStaySoundAlways == AccountsSpec => AccountsStaySound
BY TheLastAdminStays, ScopesStaySoundAlone, PTL DEF AccountsStaySound

-------------------------------------------------------------------------------
(* The presses. *)

PressAnswer == {"pending", "final"}
PressRow == [key : Buttons, old : BOOLEAN, state : {"none"} \cup PressAnswer, secret : BOOLEAN,
             seen : Nat, polledOld : BOOLEAN]
Asking == {NotAsking} \cup [at : {"create"}, key : Buttons, seen : Nat]

\* What the agent has done it is no longer handed, and a report says what it did.
PressShapes ==
  /\ presses \in Seq(PressRow)
  /\ asking \in [Windows -> Asking]
  /\ handed \subseteq Ids /\ DOMAIN done \subseteq Ids /\ handed \cap DOMAIN done = {}
  /\ \A i \in DOMAIN done : done[i] \in PressAnswer
  /\ DOMAIN report = Reports
  /\ \A r \in Reports : /\ DOMAIN report[r] \subseteq DOMAIN done
                        /\ \A i \in DOMAIN report[r] : report[r][i] \in PressAnswer

\* A late report says "final" only of what is.
ReportsAreTrue ==
  \A r \in Reports : \A i \in DOMAIN report[r] : report[r][i] = "final" => done[i] = "final"

\* A request about to write saw no press like its own among those it looked at.
LooksAreTrue ==
  \A w \in Windows : asking[w].at = "create" =>
    /\ asking[w].seen <= Len(presses)
    /\ \A i \in Open \ reopened :
         i <= asking[w].seen => ~Alike(presses[i].key, asking[w].key)

\* Of LikePressesCrossed, the later press too may have closed since, and a late
\* report may open it again.
LikeCrossed ==
  \A i \in Open \ reopened, j \in Ids :
    i < j /\ Alike(presses[i].key, presses[j].key) => presses[j].seen < i

SealedHaveSecrets == \A i \in Ids : presses[i].secret => presses[i].key \in Sealed

PressInv ==
  /\ PressShapes /\ SealedHaveSecrets /\ Cardinality(handed) <= MaxActions
  /\ ReportsAreTrue /\ LooksAreTrue /\ LikeCrossed
  /\ SecretsAreShort /\ AnswersAreTheAgents

LEMMA AnswersAreNotNone == NoAnswers = [i \in {} |-> "final"] /\ DOMAIN NoAnswers = {}
  BY DEF NoAnswers

LEMMA IdsFacts ==
  ASSUME PressShapes
  PROVE  /\ Len(presses) \in Nat /\ Ids = 1..Len(presses) /\ IsFiniteSet(Ids)
         /\ \A i \in Ids : presses[i] \in PressRow /\ i \in Nat
<1>1. Len(presses) \in Nat /\ Ids = 1..Len(presses)
  BY DEF PressShapes, Ids
<1>2. IsFiniteSet(1..Len(presses))
  BY <1>1, FS_Interval
<1> QED
  BY <1>1, <1>2 DEF PressShapes

LEMMA PressInvInit == PressInit => PressInv
<1> SUFFICES ASSUME PressInit PROVE PressInv
  OBVIOUS
<1>1. Ids = {} /\ Open = {} /\ Len(presses) = 0 /\ presses \in Seq(PressRow)
  BY DEF PressInit, Ids, Open
<1>2. asking \in [Windows -> Asking] /\ \A w \in Windows : asking[w].at # "create"
  BY DEF PressInit, Asking, NotAsking
<1>3. PressShapes
  BY <1>1, <1>2, AnswersAreNotNone DEF PressInit, PressShapes
<1>4. Cardinality(handed) <= MaxActions
  BY PressAssumption, FS_EmptySet DEF PressInit
<1> QED
  BY <1>1, <1>2, <1>3, <1>4, AnswersAreNotNone
     DEF PressInit, PressInv, SealedHaveSecrets, ReportsAreTrue, LooksAreTrue, LikeCrossed,
         SecretsAreShort, AnswersAreTheAgents

\* No press changes its button or what its request saw, and none opens again but
\* by a late report.
PressesStay ==
  /\ Ids' = Ids /\ Len(presses') = Len(presses)
  /\ \A i \in Ids : presses'[i].key = presses[i].key /\ presses'[i].seen = presses[i].seen
  /\ Open' \ reopened' \subseteq Open \ reopened

LEMMA StayKeeps ==
  ASSUME PressInv, PressesStay, UNCHANGED asking
  PROVE  LooksAreTrue' /\ LikeCrossed'
<1>1. Open \subseteq Ids /\ Ids' = Ids /\ Len(presses') = Len(presses)
  BY DEF Open, PressesStay
<1>2. LooksAreTrue'
  BY <1>1 DEF PressInv, LooksAreTrue, PressesStay, Alike
<1>3. LikeCrossed'
  BY <1>1 DEF PressInv, LikeCrossed, PressesStay, Alike
<1> QED
  BY <1>2, <1>3

LEMMA GrowOldKeeps ==
  ASSUME PressInv, GrowOld
  PROVE  PressInv'
<1> USE DEF PressInv
<1>1. PICK k \in Ids : presses' = [presses EXCEPT ![k].old = TRUE]
  BY DEF GrowOld
<1>2. UNCHANGED <<asking, handed, done, report, reopened>>
  BY DEF GrowOld
<1>3. /\ \A i \in Ids : presses[i] \in PressRow
      /\ presses' = [presses EXCEPT ![k] = [presses[k] EXCEPT !.old = TRUE]]
      /\ [presses[k] EXCEPT !.old = TRUE] \in PressRow
  BY <1>1, IdsFacts DEF PressRow
<1>4. presses' \in Seq(PressRow) /\ Ids' = Ids /\ Len(presses') = Len(presses)
  BY <1>1, <1>3 DEF PressShapes, Ids
<1>5. \A i \in Ids : /\ presses'[i].key = presses[i].key /\ presses'[i].seen = presses[i].seen
                     /\ presses'[i].state = presses[i].state
                     /\ presses'[i].secret = presses[i].secret
                     /\ presses'[i].polledOld = presses[i].polledOld
                     /\ presses[i].old => presses'[i].old
  BY <1>1, <1>3, <1>4 DEF PressRow, Ids
<1>6. PressesStay
  BY <1>2, <1>4, <1>5 DEF PressesStay, Open, Unanswered, Young
<1>7. PressShapes'
  BY <1>2, <1>4 DEF PressShapes
<1>8. SealedHaveSecrets' /\ SecretsAreShort' /\ AnswersAreTheAgents' /\ ReportsAreTrue'
  BY <1>2, <1>4, <1>5 DEF SealedHaveSecrets, SecretsAreShort, AnswersAreTheAgents, ReportsAreTrue
<1> QED
  BY <1>2, <1>6, <1>7, <1>8, StayKeeps

\* A look that shows every open press finds none like its own.
LEMMA LookFirstKeeps ==
  ASSUME PressInv, NEW w \in Windows, LookFirst(w)
  PROVE  PressInv'
<1> USE DEF PressInv
<1>1. PICK k \in Buttons :
        /\ ~Waits(k)
        /\ asking' = [asking EXCEPT ![w] = [at |-> "create", key |-> k, seen |-> Seen]]
  BY DEF LookFirst
<1>2. UNCHANGED <<presses, handed, done, report, reopened, Ids, Open>>
  BY DEF LookFirst, Ids, Open, Unanswered, Young
<1>3. Seen \in Nat /\ Seen <= Len(presses) /\ (Seen > 0 => OpenActions = Open)
  BY IdsFacts DEF Seen
<1>4. asking' \in [Windows -> Asking]
  BY <1>1, <1>3 DEF PressShapes, Asking
<1>5. ASSUME NEW i \in Open, i <= Seen PROVE ~Alike(presses[i].key, k)
  <2>1. i \in Ids /\ i \in Nat /\ i > 0
    BY IdsFacts DEF Open
  <2> QED
    BY <1>1, <1>3, <1>5, <2>1 DEF Waits
<1>6. LooksAreTrue'
  <2> SUFFICES ASSUME NEW v \in Windows, asking'[v].at = "create"
               PROVE  /\ asking'[v].seen <= Len(presses)
                      /\ \A i \in Open \ reopened :
                           i <= asking'[v].seen => ~Alike(presses[i].key, asking'[v].key)
    BY <1>2 DEF LooksAreTrue, Alike
  <2>1. CASE v = w
    <3>1. asking'[v].seen = Seen /\ asking'[v].key = k
      BY <1>1, <2>1 DEF PressShapes
    <3> QED
      BY <1>3, <1>5, <3>1
  <2>2. CASE v # w
    <3>1. asking'[v] = asking[v]
      BY <1>1, <2>2 DEF PressShapes
    <3> QED
      BY <3>1 DEF LooksAreTrue
  <2> QED
    BY <2>1, <2>2
<1> QED
  BY <1>2, <1>4, <1>6
     DEF PressShapes, SealedHaveSecrets, ReportsAreTrue, LikeCrossed, SecretsAreShort,
         AnswersAreTheAgents, Alike

\* The press written is newer than those its request saw.
LEMMA CreateKeeps ==
  ASSUME PressInv, NEW w \in Windows, Create(w)
  PROVE  PressInv'
<1> USE DEF PressInv
<1> DEFINE n == Len(presses) + 1
           new == [key |-> asking[w].key, old |-> FALSE, state |-> "none",
                   secret |-> asking[w].key \in Sealed,
                   seen |-> asking[w].seen, polledOld |-> FALSE]
<1>1. /\ presses' = Append(presses, new) /\ asking[w].at = "create"
      /\ asking' = [asking EXCEPT ![w] = NotAsking]
      /\ UNCHANGED <<handed, done, report, reopened>>
  BY DEF Create
<1>2. asking[w].key \in Buttons /\ asking[w].seen \in Nat
  <2>1. asking[w] \in Asking /\ asking[w] # NotAsking
    BY <1>1 DEF PressShapes, NotAsking
  <2> QED
    BY <2>1 DEF Asking
<1>3. new \in PressRow
  BY <1>2 DEF PressRow
<1> HIDE DEF new
<1>4. /\ presses' \in Seq(PressRow) /\ Len(presses') = n /\ Ids' = Ids \cup {n}
      /\ presses'[n] = new /\ \A i \in Ids : presses'[i] = presses[i] /\ i < n
      /\ n \in Nat /\ n \notin Ids /\ \A i \in Ids : i \in Nat
  <2>1. Len(presses) \in Nat /\ Ids = 1..Len(presses) /\ presses \in Seq(PressRow)
    BY IdsFacts DEF PressShapes
  <2>2. presses' \in Seq(PressRow) /\ Len(presses') = n /\ DOMAIN presses' = 1..n
    BY <1>1, <1>3, <2>1
  <2>3. presses'[n] = new /\ \A i \in 1..Len(presses) : presses'[i] = presses[i]
    BY <1>1, <1>3, <2>1
  <2>4. 1..n = 1..Len(presses) \cup {n}
    BY <2>1
  <2> QED
    BY <2>1, <2>2, <2>3, <2>4 DEF Ids
<1>5. Open' \subseteq Open \cup {n} /\ Open \subseteq Ids
  BY <1>4 DEF Open, Unanswered, Young
<1>6. PressShapes'
  <2>1. asking' \in [Windows -> Asking]
    BY <1>1 DEF PressShapes, Asking
  <2> QED
    BY <1>1, <1>4, <2>1 DEF PressShapes
<1>7. new.state = "none" /\ (new.secret => new.key \in Sealed) /\ ~new.polledOld
      /\ new.key = asking[w].key /\ new.seen = asking[w].seen
  BY DEF new
<1>8. SealedHaveSecrets' /\ SecretsAreShort' /\ AnswersAreTheAgents' /\ ReportsAreTrue'
  <2>1. SealedHaveSecrets'
    BY <1>4, <1>7 DEF SealedHaveSecrets
  <2>2. SecretsAreShort'
    BY <1>1, <1>4, <1>7 DEF SecretsAreShort
  <2>3. AnswersAreTheAgents'
    BY <1>1, <1>4, <1>7 DEF AnswersAreTheAgents
  <2>4. ReportsAreTrue'
    BY <1>1, <1>4, <1>7 DEF ReportsAreTrue
  <2> QED
    BY <2>1, <2>2, <2>3, <2>4
<1>9. LooksAreTrue'
  <2> SUFFICES ASSUME NEW v \in Windows, asking'[v].at = "create"
               PROVE  /\ asking'[v].seen <= Len(presses')
                      /\ \A i \in (Open \ reopened)' :
                           i <= asking'[v].seen => ~Alike(presses'[i].key, asking'[v].key)
    BY DEF LooksAreTrue, Alike
  <2>1. asking'[v] = asking[v] /\ asking[v].at = "create"
    BY <1>1 DEF PressShapes, NotAsking
  <2>2. asking[v].seen <= Len(presses) /\ asking[v].seen \in Nat
    <3>1. asking[v] \in Asking /\ asking[v] # NotAsking
      BY <2>1 DEF PressShapes, NotAsking
    <3> QED
      BY <2>1, <3>1 DEF Asking, LooksAreTrue
  <2>3. Len(presses) \in Nat /\ asking[v].seen < n
    BY <2>2, IdsFacts
  <2>4. \A i \in Open \ reopened : i <= asking[v].seen => ~Alike(presses[i].key, asking[v].key)
    BY <2>1 DEF LooksAreTrue
  <2>5. ASSUME NEW i \in (Open \ reopened)', i <= asking[v].seen
        PROVE  ~Alike(presses'[i].key, asking[v].key)
    <3>1. i # n
      BY <2>2, <2>3, <2>5, <1>4
    <3>2. i \in Open \ reopened /\ presses'[i] = presses[i]
      BY <1>1, <1>4, <1>5, <3>1
    <3> QED
      BY <2>4, <2>5, <3>2
  <2> QED
    BY <1>4, <2>1, <2>2, <2>3, <2>5
<1>10. LikeCrossed'
  <2> SUFFICES ASSUME NEW i \in (Open \ reopened)', NEW j \in Ids',
                      i < j, Alike(presses'[i].key, presses'[j].key)
               PROVE  presses'[j].seen < i
    BY DEF LikeCrossed, Alike
  <2>1. i # n /\ i \in Open \ reopened /\ presses'[i] = presses[i] /\ i \in Nat
    <3>1. i # n
      BY <1>4
    <3> QED
      BY <1>1, <1>4, <1>5, <3>1
  <2>2. CASE j = n
    <3>1. ~(i <= asking[w].seen)
      BY <1>1, <1>4, <1>7, <2>1, <2>2 DEF LooksAreTrue
    <3> QED
      BY <1>2, <1>4, <1>7, <2>1, <2>2, <3>1
  <2>3. CASE j # n
    BY <1>4, <2>1, <2>3 DEF LikeCrossed
  <2> QED
    BY <2>2, <2>3
<1> QED
  BY <1>1, <1>6, <1>8, <1>9, <1>10

LEMMA CreateFailsKeeps ==
  ASSUME PressInv, NEW w \in Windows, CreateFails(w)
  PROVE  PressInv'
<1> USE DEF PressInv
<1>1. /\ UNCHANGED <<presses, handed, done, report, reopened, Ids, Open>>
      /\ asking' = [asking EXCEPT ![w] = NotAsking]
  BY DEF CreateFails, Ids, Open, Unanswered, Young
<1>2. asking' \in [Windows -> Asking]
  BY <1>1 DEF PressShapes, Asking
<1>3. LooksAreTrue'
  BY <1>1 DEF LooksAreTrue, PressShapes, NotAsking, Alike
<1> QED
  BY <1>1, <1>2, <1>3
     DEF PressShapes, SealedHaveSecrets, ReportsAreTrue, LikeCrossed, SecretsAreShort,
         AnswersAreTheAgents, Alike

LEMMA LeastOf ==
  ASSUME NEW T \in SUBSET Nat, T # {}
  PROVE  \E x \in T : \A y \in T : x <= y
<1> DEFINE R == OpToRel(<, Nat)
<1>1. IsWellFoundedOn(R, Nat)
  BY NatLessThanWellFounded
<1>2. \A x, y \in Nat : x < y => <<x, y>> \in R
  BY DEF OpToRel
<1> HIDE DEF R
<1>3. PICK x \in T : \A y \in T : ~ (<<y, x>> \in R)
  BY <1>1, WFMin
<1>4. ASSUME NEW y \in T PROVE x <= y
  <2>1. x \in Nat /\ y \in Nat /\ ~ (y < x)
    BY <1>2, <1>3
  <2> QED
    BY <2>1
<1> QED
  BY <1>4

\* The oldest shown has fewer than MaxActions open after it.
LEMMA FewAreShown ==
  ASSUME PressShapes
  PROVE  IsFiniteSet(OpenActions) /\ Cardinality(OpenActions) \in Nat
         /\ Cardinality(OpenActions) <= MaxActions
<1>1. OpenActions \subseteq Open /\ Open \subseteq Ids /\ IsFiniteSet(Ids) /\ \A i \in Ids : i \in Nat
  BY IdsFacts DEF OpenActions, Open
<1>2. IsFiniteSet(OpenActions) /\ Cardinality(OpenActions) \in Nat
  BY <1>1, FS_Subset, FS_CardinalityType
<1>3. CASE OpenActions = {}
  BY <1>2, <1>3, FS_EmptySet, PressAssumption
<1>4. CASE OpenActions # {}
  <2>1. OpenActions \in SUBSET Nat
    BY <1>1
  <2>2. PICK m \in OpenActions : \A j \in OpenActions : m <= j
    BY <1>4, <2>1, LeastOf
  <2> DEFINE After == {j \in Open : j > m}
  <2>3. OpenActions \ {m} \subseteq After
    BY <1>1, <2>1, <2>2
  <2>4. IsFiniteSet(After) /\ Cardinality(After) \in Nat /\ Cardinality(After) < MaxActions
    <3>1. After \subseteq Ids
      BY <1>1
    <3>2. IsFiniteSet(After) /\ Cardinality(After) \in Nat
      BY <1>1, <3>1, FS_Subset, FS_CardinalityType
    <3> QED
      BY <3>2 DEF OpenActions
  <2> HIDE DEF After
  <2>5. Cardinality(OpenActions \ {m}) <= Cardinality(After)
    BY <2>3, <2>4, FS_Subset
  <2>6. Cardinality(OpenActions \ {m}) = Cardinality(OpenActions) - 1
    BY <1>2, <2>2, FS_RemoveElement
  <2> QED
    BY <1>2, <2>4, <2>5, <2>6, PressAssumption
<1> QED
  BY <1>2, <1>3, <1>4

\* A poll drops the passwords of the old, and hands over nothing done.
LEMMA PollKeeps ==
  ASSUME PressInv, Poll
  PROVE  PressInv'
<1> USE DEF PressInv
<1>1. /\ presses' = Kept /\ handed' \subseteq OpenActions \ DOMAIN done
      /\ UNCHANGED <<asking, done, report, reopened>>
  BY DEF Poll
<1>2. Len(presses) \in Nat /\ Ids = 1..Len(presses) /\ \A i \in Ids : presses[i] \in PressRow
  BY IdsFacts
<1> DEFINE Row(i) == [presses[i] EXCEPT !.secret = @ /\ ~Drops(i), !.polledOld = ~Young(i)]
<1>3. \A i \in Ids : presses'[i] = Row(i)
  BY <1>1 DEF Kept
<1>4. ASSUME NEW i \in Ids
      PROVE  /\ Row(i) \in PressRow
             /\ Row(i).key = presses[i].key /\ Row(i).seen = presses[i].seen
             /\ Row(i).old = presses[i].old /\ Row(i).state = presses[i].state
             /\ Row(i).secret = (presses[i].secret /\ ~Drops(i))
             /\ Row(i).polledOld = ~Young(i)
  BY <1>2 DEF PressRow
<1> HIDE DEF Row
<1>5. presses' \in Seq(PressRow) /\ Ids' = Ids /\ Len(presses') = Len(presses)
  <2>1. presses' = [i \in 1..Len(presses) |-> presses'[i]]
    BY <1>1, <1>2 DEF Kept
  <2>2. presses' \in [1..Len(presses) -> PressRow]
    BY <1>2, <1>3, <1>4, <2>1
  <2> QED
    BY <1>2, <2>2 DEF Ids
<1>6. PressesStay
  BY <1>1, <1>3, <1>4, <1>5 DEF PressesStay, Open, Unanswered, Young
<1>7. PressShapes'
  BY <1>1, <1>5 DEF PressShapes, OpenActions, Open
<1>8. Cardinality(handed') <= MaxActions
  <2>1. handed' \subseteq OpenActions
    BY <1>1
  <2>2. IsFiniteSet(handed') /\ Cardinality(handed') <= Cardinality(OpenActions)
        /\ Cardinality(handed') \in Nat
    BY <2>1, FewAreShown, FS_Subset, FS_CardinalityType
  <2> QED
    BY <2>2, FewAreShown, PressAssumption
<1>9. SealedHaveSecrets' /\ AnswersAreTheAgents' /\ ReportsAreTrue'
  <2>1. SealedHaveSecrets'
    <3> SUFFICES ASSUME NEW i \in Ids, presses'[i].secret PROVE presses'[i].key \in Sealed
      BY <1>5 DEF SealedHaveSecrets
    <3>1. presses[i].secret /\ presses'[i].key = presses[i].key
      BY <1>3, <1>4
    <3> QED
      BY <3>1 DEF SealedHaveSecrets
  <2>2. AnswersAreTheAgents' /\ ReportsAreTrue'
    BY <1>1, <1>3, <1>4, <1>5 DEF AnswersAreTheAgents, ReportsAreTrue
  <2> QED
    BY <2>1, <2>2
<1>10. SecretsAreShort'
  BY <1>3, <1>4, <1>5 DEF SecretsAreShort, Drops
<1> QED
  BY <1>1, <1>6, <1>7, <1>8, <1>9, <1>10, StayKeeps

\* What the agent does, and what a report copies of it.
LEMMA AgentKeeps ==
  ASSUME PressInv, DoPress \/ FinishPress \/ \E r \in Reports : ReadAnswered(r) \/ EndReport(r)
  PROVE  PressInv'
<1> USE DEF PressInv
<1>1. UNCHANGED <<presses, asking, reopened, Ids, Open>>
  BY DEF DoPress, FinishPress, ReadAnswered, EndReport, Ids, Open, Unanswered, Young
<1>2. SealedHaveSecrets' /\ LooksAreTrue' /\ LikeCrossed' /\ SecretsAreShort'
  BY <1>1 DEF SealedHaveSecrets, LooksAreTrue, LikeCrossed, SecretsAreShort, Alike
<1>3. CASE DoPress
  <2>1. PICK i \in handed, answer \in PressAnswer :
          /\ handed' = handed \ {i}
          /\ done' = [j \in DOMAIN done \cup {i} |-> IF j = i THEN answer ELSE done[j]]
    BY <1>3 DEF DoPress, PressAnswer
  <2>2. UNCHANGED report /\ i \notin DOMAIN done
    BY <1>3, <2>1 DEF DoPress, PressShapes
  <2>3. /\ DOMAIN done' = DOMAIN done \cup {i} /\ done'[i] = answer
        /\ \A j \in DOMAIN done : done'[j] = done[j]
    BY <2>1, <2>2
  <2>4. PressShapes'
    BY <1>1, <2>1, <2>2, <2>3 DEF PressShapes
  <2>5. Cardinality(handed') <= MaxActions
    <3>1. IsFiniteSet(handed)
      BY IdsFacts, FS_Subset DEF PressShapes
    <3>2. Cardinality(handed') <= Cardinality(handed) /\ IsFiniteSet(handed')
      BY <2>1, <3>1, FS_Subset
    <3>3. Cardinality(handed) \in Nat /\ Cardinality(handed') \in Nat
      BY <3>1, <3>2, FS_CardinalityType
    <3> QED
      BY <3>2, <3>3, PressAssumption
  <2>6. ReportsAreTrue' /\ AnswersAreTheAgents'
    BY <1>1, <2>2, <2>3 DEF ReportsAreTrue, AnswersAreTheAgents, PressShapes
  <2> QED
    BY <1>2, <2>4, <2>5, <2>6
<1>4. CASE FinishPress
  <2>1. PICK i \in DOMAIN done : done[i] = "pending" /\ done' = [done EXCEPT ![i] = "final"]
    BY <1>4 DEF FinishPress
  <2>2. UNCHANGED <<report, handed>>
    BY <1>4 DEF FinishPress
  <2>3. /\ DOMAIN done' = DOMAIN done /\ done'[i] = "final"
        /\ \A j \in DOMAIN done : j # i => done'[j] = done[j]
    BY <2>1
  <2>4. PressShapes'
    BY <1>1, <2>2, <2>3 DEF PressShapes, PressAnswer
  <2>5. ReportsAreTrue' /\ AnswersAreTheAgents'
    BY <1>1, <2>2, <2>3 DEF ReportsAreTrue, AnswersAreTheAgents, PressShapes
  <2> QED
    BY <1>2, <2>2, <2>4, <2>5
<1>5. ASSUME NEW r \in Reports, ReadAnswered(r) \/ EndReport(r) PROVE PressInv'
  <2>1. UNCHANGED <<done, handed>>
    BY <1>5 DEF ReadAnswered, EndReport
  <2>2. \E S \in SUBSET DOMAIN done : report' = [report EXCEPT ![r] = [i \in S |-> done[i]]]
    <3>1. CASE ReadAnswered(r)
      BY <3>1 DEF ReadAnswered, AnswersYet
    <3>2. CASE EndReport(r)
      <4>1. NoAnswers = [i \in {} |-> done[i]]
        BY DEF NoAnswers
      <4> QED
        BY <3>2, <4>1 DEF EndReport
    <3> QED
      BY <1>5, <3>1, <3>2
  <2>3. PICK S \in SUBSET DOMAIN done : report' = [report EXCEPT ![r] = [i \in S |-> done[i]]]
    BY <2>2
  <2>4. /\ DOMAIN report' = Reports /\ DOMAIN report'[r] = S
        /\ \A i \in S : report'[r][i] = done[i]
        /\ \A q \in Reports : q # r => report'[q] = report[q]
    BY <2>3 DEF PressShapes
  <2>5. PressShapes'
    BY <1>1, <2>1, <2>4 DEF PressShapes
  <2>6. ReportsAreTrue' /\ AnswersAreTheAgents'
    BY <1>1, <2>1, <2>4 DEF ReportsAreTrue, AnswersAreTheAgents
  <2> QED
    BY <1>2, <2>1, <2>5, <2>6
<1> QED
  BY <1>3, <1>4, <1>5

\* An answer closes its press or, too late, opens it again.
LEMMA WriteAnswerKeeps ==
  ASSUME PressInv, NEW r \in Reports, WriteAnswer(r)
  PROVE  PressInv'
<1> USE DEF PressInv
<1>1. PICK i \in DOMAIN report[r] :
        /\ presses' = [presses EXCEPT ![i] = Answered(i, AnswerOf(r, i))]
        /\ report' = [report EXCEPT ![r] = [j \in DOMAIN @ \ {i} |-> @[j]]]
        /\ reopened' = IF AnswerOf(r, i) = "pending" /\ presses[i].state = "final"
                       THEN reopened \cup {i} ELSE reopened
  BY DEF WriteAnswer
<1>2. UNCHANGED <<asking, handed, done>>
  BY DEF WriteAnswer
<1> DEFINE answer == report[r][i]
           row == [presses[i] EXCEPT !.state = answer, !.secret = FALSE]
<1>3. i \in Ids /\ i \in DOMAIN done /\ answer \in PressAnswer /\ (answer = "final" => done[i] = "final")
  BY DEF PressShapes, ReportsAreTrue
<1>4. presses[i] \in PressRow
  BY <1>3, IdsFacts
<1>5. /\ row \in PressRow /\ row.state = answer /\ row.secret = FALSE
      /\ row.key = presses[i].key /\ row.seen = presses[i].seen /\ row.old = presses[i].old
      /\ row.polledOld = presses[i].polledOld
  BY <1>3, <1>4 DEF PressRow
<1>6. presses' = [presses EXCEPT ![i] = row]
  BY <1>1 DEF Answered, AnswerOf
<1> HIDE DEF row
<1>7. /\ presses' \in Seq(PressRow) /\ Ids' = Ids /\ Len(presses') = Len(presses)
      /\ presses'[i] = row /\ \A j \in Ids : j # i => presses'[j] = presses[j]
  BY <1>3, <1>5, <1>6 DEF PressShapes, Ids
<1>8. /\ DOMAIN report' = Reports /\ DOMAIN report'[r] \subseteq DOMAIN report[r]
      /\ \A j \in DOMAIN report'[r] : report'[r][j] = report[r][j]
      /\ \A q \in Reports : q # r => report'[q] = report[q]
  BY <1>1 DEF PressShapes
<1>9. Open' \ reopened' \subseteq Open \ reopened
  <2> SUFFICES ASSUME NEW j \in Open' \ reopened' PROVE j \in Open \ reopened
    OBVIOUS
  <2>1. j \in Ids /\ presses'[j].state # "final" /\ ~presses'[j].old /\ j \notin reopened
    BY <1>1, <1>7 DEF Open, Unanswered, Young
  <2>2. CASE j = i
    <3>1. answer # "final" /\ ~presses[i].old
      BY <1>5, <1>7, <2>1, <2>2
    <3>2. presses[i].state # "final"
      <4>1. answer = "pending"
        BY <1>3, <3>1 DEF PressAnswer
      <4> QED
        BY <1>1, <2>2, <4>1 DEF AnswerOf
    <3> QED
      BY <2>1, <2>2, <3>1, <3>2 DEF Open, Unanswered, Young
  <2>3. CASE j # i
    BY <1>7, <2>1, <2>3 DEF Open, Unanswered, Young
  <2> QED
    BY <2>2, <2>3
<1>10. PressesStay
  BY <1>5, <1>7, <1>9 DEF PressesStay
<1>11. PressShapes'
  BY <1>2, <1>7, <1>8 DEF PressShapes
<1>12. SealedHaveSecrets' /\ SecretsAreShort' /\ AnswersAreTheAgents'
  BY <1>2, <1>3, <1>5, <1>7 DEF SealedHaveSecrets, SecretsAreShort, AnswersAreTheAgents
<1>13. ReportsAreTrue'
  BY <1>2, <1>8 DEF ReportsAreTrue
<1> QED
  BY <1>2, <1>10, <1>11, <1>12, <1>13, StayKeeps

LEMMA PressInvStep == PressInv /\ [PressNext]_pressVars => PressInv'
<1> SUFFICES ASSUME PressInv, [PressNext]_pressVars PROVE PressInv'
  OBVIOUS
<1>1. CASE UNCHANGED pressVars
  BY <1>1
     DEF pressVars, PressInv, PressShapes, SealedHaveSecrets, ReportsAreTrue, LooksAreTrue,
         LikeCrossed, SecretsAreShort, AnswersAreTheAgents, Ids, Open, Unanswered, Young, Alike
<1>2. CASE PressNext
  BY <1>2, GrowOldKeeps, LookFirstKeeps, CreateKeeps, CreateFailsKeeps, PollKeeps, AgentKeeps,
     WriteAnswerKeeps DEF PressNext
<1> QED
  BY <1>1, <1>2

LEMMA AlwaysPressInv == PressSpec => []PressInv
  BY PressInvInit, PressInvStep, PTL DEF PressSpec

\* No more is handed to the agent than a poll may carry, and reports name only
\* what it did, for any windows, buttons and reports at once.
THEOREM PressesAreWellFormed == PressSpec => []PressesTypeOK
<1>1. PressInv => PressesTypeOK
  <2> SUFFICES ASSUME PressInv PROVE PressesTypeOK
    OBVIOUS
  <2>1. \A i \in Ids : presses[i] \in PressRow
    BY IdsFacts DEF PressInv
  <2>2. \A i \in Ids : /\ presses[i].key \in Buttons /\ presses[i].old \in BOOLEAN
                       /\ presses[i].state \in {"none", "pending", "final"}
    BY <2>1 DEF PressRow, PressAnswer
  <2> QED
    BY <2>2 DEF PressInv, PressShapes, SealedHaveSecrets, PressesTypeOK
<1> QED
  BY AlwaysPressInv, <1>1, PTL

(***************************************************************************)
(* The presses tell the panel and the agent the truth, for any windows,    *)
(* buttons and reports at once: one waits beside its like only when their  *)
(* requests crossed, no password outlives its use, and no answer is shown  *)
(* that the agent did not give (requestAction, agentConfig, putStatus).    *)
(***************************************************************************)
THEOREM PressesAreTrueAlways == PressSpec => []PressesAreTrue
<1>1. PressInv => PressesAreTrue
  <2>1. Open \subseteq Ids
    BY DEF Open
  <2> QED
    BY <2>1 DEF PressInv, LikeCrossed, LikePressesCrossed, PressesAreTrue
<1> QED
  BY AlwaysPressInv, <1>1, PTL

-------------------------------------------------------------------------------
(* The process. *)

\* Each part runs as it would alone.
LEMMA PartsRunAlone == MCSpec => Spec /\ LockoutSpec /\ ConfigSpec /\ PressSpec /\ AccountsSpec
<1>1. MCInit => Init /\ LockoutInit /\ ConfigInit /\ PressInit /\ AccountsInit
  BY DEF MCInit
<1>2. [MCNext]_<<parts, part>> =>
        /\ [Next]_vars /\ [LockoutNext]_lockoutVars /\ [ConfigNext]_configVars /\ [PressNext]_pressVars
        /\ [AccountsNext]_accountVars
  BY DEF MCNext, parts
<1> QED
  BY <1>1, <1>2, PTL DEF MCSpec, Spec, LockoutSpec, ConfigSpec, PressSpec, AccountsSpec

(***************************************************************************)
(* Of the process that keeps the memo, the sign-ins, the settings and the  *)
(* presses, each keeps its types, for any number of requests at once.      *)
(***************************************************************************)
THEOREM WebIsWellFormed == MCSpec => []WebTypeOK
BY PartsRunAlone, CacheTypeCorrect, SignInsAreWellFormed, SettingsAreWellFormed, PressesAreWellFormed,
   AccountsAreWellFormed, PTL DEF WebTypeOK

===============================================================================
