------------------------------- MODULE NightWork -------------------------------
(***************************************************************************)
(* The worker's night (schedule.ts, syncWorker.ts): the deletion sweep,    *)
(* and the reads asked for once, which spend the portal's hour between     *)
(* them and so keep an hour clear of each other.  What a process has run   *)
(* it keeps in memory, and its row in the log for the next one.            *)
(***************************************************************************)
EXTENDS Integers

CONSTANTS
  Reads,        \* The reads asked for once, all at 0.
  Deals,        \* DEALS_BACKFILL, the one that does not wait for the others.
  Day, FromHour, ToHour,   \* BACKFILL_NIGHT
  Retry,        \* SWEEP_RETRY_MS
  SweepEvery,   \* SWEEP_MS
  Expires,      \* BACKFILL_EXPIRES_MS
  Retention,    \* SYNC_LOG_RETENTION_MS
  LongRun,      \* Bound: how long a sweep or a read takes.
  MaxDeploys,   \* Bound: restarts and resyncs by hand.
  FirstHour,    \* Bound: the clock at the first start.
  LastHour      \* Bound: the clock.

ASSUME NightAssumption ==
  /\ Deals \in Reads /\ Reads \cap {"nothing", "sweep"} = {}
  /\ Day \in Nat \ {0} /\ FromHour \in Nat /\ ToHour \in Nat /\ FromHour < ToHour /\ ToHour <= Day
  /\ Retry \in Nat \ {0} /\ SweepEvery \in Nat /\ SweepEvery >= Day
  /\ Retry < SweepEvery - (ToHour - FromHour)
  /\ Expires \in Nat /\ Retention \in Nat /\ Expires < Retention
  /\ LongRun \in Nat /\ MaxDeploys \in Nat /\ FirstHour \in Nat /\ LastHour \in Nat

VARIABLES
  hour,          \* The clock.
  \* The process:
  running,       \* What runs, and since when.
  swept,         \* lastSweepAt
  sweepFailed,   \* lastSweepFailedAt
  lastRead,      \* lastOneOffAt
  settled,       \* backfillSettled, oneOffSettled
  failed,        \* backfillFailedAt, oneOffFailedAt
  looked,        \* sweepNear's hour, once the tick has gone on past the deals'.
  \* The log:
  sweepRow,      \* The newest row that reads as a sweep.
  relinkRow,     \* Whether a relink was ever recorded.
  readRow,       \* Each read's row, by its start.
  \* For the properties:
  readLooked,    \* The look that the last read of any process was begun by.
  sweepStood,    \* When the last sweep of any process stood, ...
  rowSaved,      \* ... and whether its row was written.
  unsure,        \* A process began without knowing it.
  served,        \* The reads that have settled.
  unread,        \* A process could not read the log of the reads.
  deploys

nightMemory == <<running, swept, sweepFailed, lastRead, settled, failed, looked>>
nightLog == <<sweepRow, relinkRow, readRow>>
nightWitness == <<readLooked, sweepStood, rowSaved, unsure, served, unread, deploys>>
nightVars == <<hour, nightMemory, nightLog, nightWitness>>

NoTime == -1
Nothing == [what |-> "nothing", since |-> 0]

NightInit ==
  /\ hour = FirstHour /\ running = Nothing
  /\ swept = NoTime /\ sweepFailed = NoTime /\ lastRead = NoTime
  /\ settled = {} /\ failed = [r \in Reads |-> NoTime] /\ looked = NoTime
  /\ sweepRow = NoTime /\ relinkRow = FALSE /\ readRow = [r \in Reads |-> NoTime]
  /\ readLooked = NoTime /\ sweepStood = NoTime /\ rowSaved = TRUE /\ unsure = FALSE
  /\ served = {} /\ unread = FALSE /\ deploys = 0

NextHour ==
  /\ hour < LastHour /\ hour' = hour + 1
  /\ running # Nothing => hour < running.since + LongRun
  /\ looked' = NoTime
  /\ UNCHANGED <<running, swept, sweepFailed, lastRead, settled, failed, nightLog, nightWitness>>

-------------------------------------------------------------------------------
(* schedule.ts *)

Night(t) == (t % Day) \in FromHour..(ToHour - 1)

\* isPassDue
PassDue(last, t, every) == last = NoTime \/ t - last >= every

\* A sweep late in one night is due from the start of the next.
NightlyEvery == SweepEvery - (ToHour - FromHour)

SweepDue(last, t) == Night(t) /\ PassDue(last, t, NightlyEvery)

\* Mutant: the sweep still to come due is not foreseen.
NearNow(last, t) == (last # NoTime /\ t - last < Retry) \/ SweepDue(last, t)

SweepNear(last, t) ==
  \/ last # NoTime /\ t - last < Retry
  \/ SweepDue(last, t) \/ SweepDue(last, t + Retry)

StillAsked(t) == t <= Expires

\* isBackfillDue
ReadDue(r, t) ==
  /\ r \notin settled /\ StillAsked(t) /\ Night(t) /\ PassDue(failed[r], t, Retry)

-------------------------------------------------------------------------------
(* The sweep. *)

StartSweep ==
  /\ running = Nothing /\ SweepDue(swept, hour) /\ PassDue(sweepFailed, hour, Retry)
  /\ running' = [what |-> "sweep", since |-> hour] /\ looked' = NoTime
  /\ UNCHANGED <<hour, swept, sweepFailed, lastRead, settled, failed, nightLog, nightWitness>>

\* Mutant: the startup does not take a refused sweep for one.
SuccessOnly(refused) == ~refused

\* sweepLogRow, and the startup's reading of it.
ReadsAsSweep(refused) == TRUE

\* It deleted, or was refused; its row may not be written.  The relink
\* follows, and may refuse too.
SweepStands ==
  /\ running.what = "sweep" /\ running' = Nothing
  /\ swept' = hour /\ sweepFailed' = NoTime
  /\ \E refused \in BOOLEAN, saved \in BOOLEAN :
       /\ sweepRow' = (IF saved /\ ReadsAsSweep(refused) THEN hour ELSE sweepRow)
       /\ rowSaved' = saved
  /\ \E relinked \in BOOLEAN : relinkRow' = (relinkRow \/ relinked)
  /\ sweepStood' = hour /\ unsure' = FALSE
  /\ UNCHANGED <<hour, lastRead, settled, failed, looked, readRow, readLooked, served, unread, deploys>>

SweepFails ==
  /\ running.what = "sweep" /\ running' = Nothing /\ sweepFailed' = hour
  /\ UNCHANGED <<hour, swept, lastRead, settled, failed, looked, nightLog, nightWitness>>

-------------------------------------------------------------------------------
(* The reads. *)

\* A tick looks for the sweep once, before the deals' read it waits for, and
\* the other reads go by that look, though it be hours old by then.
Looks(r) == {hour} \cup (IF r = Deals THEN {} ELSE {looked} \ {NoTime})

\* The deals' waits for none of the others.
StartRead(r) ==
  /\ running = Nothing /\ ReadDue(r, hour)
  /\ r = Deals \/ PassDue(lastRead, hour, Retry)
  /\ \E look \in Looks(r) : ~SweepNear(swept, look) /\ readLooked' = look
  /\ running' = [what |-> r, since |-> hour] /\ lastRead' = hour /\ looked' = NoTime
  /\ UNCHANGED <<hour, swept, sweepFailed, settled, failed, nightLog, sweepStood, rowSaved, unsure,
                 served, unread, deploys>>

\* The tick goes on to the others, after the deals'.
GoesOn(r) == looked' = IF r = Deals THEN running.since ELSE NoTime

\* runOneOff: the engine's row settles it.
ReadSettles(r) ==
  /\ running.what = r /\ running' = Nothing /\ GoesOn(r)
  /\ settled' = settled \cup {r} /\ readRow' = [readRow EXCEPT ![r] = running.since]
  /\ served' = served \cup {r}
  /\ UNCHANGED <<hour, swept, sweepFailed, lastRead, failed, sweepRow, relinkRow, readLooked,
                 sweepStood, rowSaved, unsure, unread, deploys>>

ReadFails(r) ==
  /\ running.what = r /\ running' = Nothing /\ GoesOn(r)
  /\ failed' = [failed EXCEPT ![r] = hour]
  /\ UNCHANGED <<hour, swept, sweepFailed, lastRead, settled, nightLog, nightWitness>>

-------------------------------------------------------------------------------
(* A new process. *)

\* DEALS / FULL, by hand: read back as a sweep.
ResyncByHand ==
  /\ deploys < MaxDeploys /\ deploys' = deploys + 1
  /\ sweepRow' = hour
  /\ UNCHANGED <<hour, nightMemory, relinkRow, readRow, readLooked, sweepStood, rowSaved, unsure, served,
                 unread>>

\* pruneSyncLog
Pruned == [r \in Reads |-> IF readRow[r] < hour - Retention THEN NoTime ELSE readRow[r]]

\* Unknown is due; so is a sweep before the first relink.
StartupSweep(known) ==
  IF known /\ relinkRow /\ sweepRow # NoTime /\ hour - sweepRow < 2 * SweepEvery THEN sweepRow ELSE NoTime

Deploy ==
  /\ deploys < MaxDeploys /\ deploys' = deploys + 1
  /\ running' = Nothing /\ sweepFailed' = NoTime /\ lastRead' = NoTime
  /\ failed' = [r \in Reads |-> NoTime] /\ looked' = NoTime
  /\ readRow' = Pruned
  /\ \E known \in BOOLEAN :
       /\ swept' = StartupSweep(known)
       /\ unsure' = (unsure \/ ~known \/ ~relinkRow \/ ~rowSaved)
  /\ \E known \in BOOLEAN :
       /\ settled' = (IF known THEN {r \in Reads : readRow'[r] # NoTime} ELSE {})
       /\ unread' = (unread \/ ~known)
  /\ UNCHANGED <<hour, sweepRow, relinkRow, readLooked, sweepStood, rowSaved, served>>

NightNext ==
  \/ NextHour \/ StartSweep \/ SweepStands \/ SweepFails
  \/ \E r \in Reads : StartRead(r) \/ ReadSettles(r) \/ ReadFails(r)
  \/ ResyncByHand \/ Deploy

NightSpec == NightInit /\ [][NightNext]_nightVars

-------------------------------------------------------------------------------
(* Properties. *)

Time == {NoTime} \cup Nat

NightTypeOK ==
  /\ hour \in Nat /\ running \in [what : Reads \cup {"nothing", "sweep"}, since : Nat]
  /\ running.since <= hour
  /\ swept \in Time /\ swept <= hour
  /\ sweepRow \in Time /\ sweepRow <= hour
  /\ sweepStood \in Time /\ sweepStood <= hour
  /\ looked \in Time /\ looked <= hour
  /\ readLooked \in Time /\ readLooked <= hour
  /\ readRow \in [Reads -> Time] /\ settled \subseteq Reads /\ served \subseteq Reads

Starts(what) == running = Nothing /\ running'.what = what

(***************************************************************************)
(* A sweep comes once a night, however many processes a day of deploys     *)
(* has: a sweep that was refused stands like another, and a process sweeps *)
(* again only when it could not know - no row, no log, no relink yet.      *)
(***************************************************************************)
SweepsAreNightly ==
  [][Starts("sweep") /\ sweepStood # NoTime => hour - sweepStood >= NightlyEvery \/ unsure]_nightVars

(***************************************************************************)
(* A read foresees the sweep, which nothing holds back for it: none comes  *)
(* within an hour of the look the read was begun by ("an hour clear of the *)
(* sweep, either side").  Of the look, and not of the read: behind a long  *)
(* read of the deals in its tick, a read may begin right before the sweep. *)
(* Nor in the night's last hour, when a sweep still to come due before its *)
(* end is not foreseen.                                                    *)
(***************************************************************************)
ReadsForeseeSweeps ==
  [][Starts("sweep") /\ readLooked # NoTime /\ Night(readLooked + Retry)
     => hour - readLooked >= Retry \/ unsure]_nightVars

(***************************************************************************)
(* The other side: no read begins within an hour after a sweep stood, by   *)
(* whatever process it ran and however old the look the read goes by.      *)
(***************************************************************************)
ReadsFollowSweeps ==
  [][\A r \in Reads : Starts(r) /\ sweepStood # NoTime => hour - sweepStood >= Retry \/ unsure]_nightVars

(***************************************************************************)
(* A read asked for once is run no more once it has settled, whenever its  *)
(* row is pruned and by whatever process, but one that cannot read the log.*)
(***************************************************************************)
ServedOnce ==
  [][\A r \in Reads : Starts(r) => r \notin served \/ unread]_nightVars

(***************************************************************************)
(* The one-off reads keep their place: by the look they go by clear of the *)
(* sweeps, either side, and never again once served, across any deploys.   *)
(***************************************************************************)
ReadsKeepTheirPlace == ReadsForeseeSweeps /\ ReadsFollowSweeps /\ ServedOnce

===============================================================================
