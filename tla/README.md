# Verification of the Sinolife dashboard

The dashboard shows what a Bitrix24 portal holds. A worker
(`scripts/syncWorker.ts`) imports the portal into a Postgres database every two
minutes, under a portal that answers late, refuses, blocks for hours, and shows
rows after the moment it stamps them with; between two imports it reads feeds,
sweeps, relinks, counts days and imports orders. Web processes read the database
through memos that rebuild behind their readers, keep accounts and sign-ins, and
drive an AI registrator. What is hard to get right is the import's bookkeeping
(which rows are still owed), the manners of the worker when it is refused, what
a read that came late or half may delete, and the requests that read before they
write. This directory models those in TLA+, checks them with TLC and proves the
central properties with TLAPS.

Paths below are relative to the repository; `sync/` stands for
`src/server/integrations/crm/sync/`, `bitrix24/` for
`src/server/integrations/crm/bitrix24/`.

## 1. Inventory

| Component | State | Operations | Interacts with | Hard behaviour |
|---|---|---|---|---|
| Import engine: `sync/SyncEngine.ts`, `PrismaSyncStore.ts`, `bulkUpsert.ts`, `backfill.ts` | the cursor of each entity, `sync_log`, the rows; of a run: page, counts | `runEntity` (FULL, INCREMENTAL, BACKFILL), `persistRecords`, `runAll` | the provider (pages), the handlers (persist, finalize) | rows visible after the read, skips, rejected records, crashes, a second runner by hand |
| Handlers: `sync/handlers.ts`, `idResolver.ts` | lists kept across the pages of a run (`touchedDeals`, `linesRead`) | persist, finalize, deleteMissing of each entity | the engine, Postgres | a failed finalize, skipped rows, deletion guards |
| Portal gate: `bitrix24/portalGate.ts`, and `call`, `probe`, `batchWalk` of `Bitrix24CrmProvider.ts` | what shut it, since, probe ladder, transient run, method holds | hold, trip, noteSuccess, noteProbe, seed | every portal call; the worker's loop and start | retries into a block, refusals in a batch, restarts inside a block |
| Portal events: `sync/crmEvents.ts`, `crmEventRepository.ts`, `recentDeletions.ts` | the `crm_event` queue, the deals | record (route), drain, expire | the route, the engine's `persistRecords`, the tick | lost, repeated, reordered events; a drain that fails half way; floods |
| Slow passes: `sync/schedule.ts` and the head of the worker's loop | `lastReferenceAt`, `lastResolveAt`, what is owed, `calm` | `planTick`, `isResolvePassDue` | the engine's skips, the gate, `sync_log` at startup | restarts, outages longer than the windows |
| Night work: sweep, relink, one-off reads (`scripts/syncWorker.ts`, `sync/contactRelink.ts`) | `lastSweepAt`, `lastSweepFailedAt`, `lastOneOffAt`, `sync_log` rows | sweep, relink, one-off reads, the checks of recent deals | the gate, the budget, `sync_log` at startup | restarts, refused sweeps, a portal that hides or merges during a walk |
| Budget, meter, limiter: `bitrix24/portalBudget.ts`, `portalMeter.ts`, `rateLimiter.ts` | minutes' counters, measured seconds, a token bucket | waitMs, spend, acquire, note | every portal call | the window's edge; waits between the question and the spending |
| Feeds: `sync/leadWatchFeeds.ts`, `formFillFeed.ts`, `dealBirthFeed.ts` | bookmarks and floors in the database | one refresh each | the provider | a bookmark that passes an unread row; a list that lies by omission |
| MoySklad import: `integrations/moysklad/moyskladImport.ts` | the orders, the newest update read | pages by update, id sweep, payments | beside the loop | offset pages over a list that moves, caps, second-wide stamps |
| Registrar's day counts: `domain/registration/bezkval.ts`, `sync/bezkvalRefresh.ts`, `registrationRepository.ts` | one stored count a day | which days are due, count one, store it | the worker between imports; the database it imports | a day read before it was over; people with several numbers |
| Memo: `src/server/services/ttlCache.ts` | entries with their promise, age, rebuild | get, refresh, sweep | readers and warmers of one web process | overlapping builds, failures, an entry replaced while a build runs |
| Sign-in: `src/server/auth/lockout.ts`, `signInHooks.ts`, `signInThrottle.ts` | failures and locks per identifier | reserve, prune, settle | concurrent sign-ins | settlements of several attempts, a name that changes meanwhile |
| Accounts: `services/userAdminService.ts`, `auth/provisioning.ts` | the users' rows | create, edit, remove | administrators at the same page | two requests judged on one state |
| AI registrator panel: `services/aiRegistratorControlService.ts`, `repositories/aiRegistratorControlRepository.ts`, `lib/aiControlRules.ts` | the setting, its audit, the presses | save, press, poll, report | panels, the agent that polls | lost saves, doubled presses, answers out of order |
| Repairs by the worker: `sync/triageMoves.ts`, `seedKpi.ts` | – | re-reads through `persistRecords` | the loop | – |
| Other imports (Meta, Roistat, TimePay, rates) | their own tables; Meta's `readThrough` and history markers | windows of days, replaced as answered | beside the loop | refusals of one account and grain |
| Analytics services, repositories, routes, pages | none beyond the memos | SQL, arithmetic, rendering | – | – |

For each component, what makes it correct:

- **Engine.** Every version the portal has shown is written, or a later run
  still reads it, unless it is older than every lookback. A run logged as a
  success left nothing out. Re-reads and second runners change nothing.
- **Gate.** A refused portal is asked only by probes, a rung apart; one outage
  stays one outage; a method whose budget is spent rests; the gate opens again.
- **Events.** No event, order of events, flood or failure loses a deal; a
  deletion is applied or is known to be left to the nightly walk.
- **Slow passes.** A skipped row is resolved inside its window; a deploy costs
  no pass; an outage is followed by calm.
- **Night work.** Sweeps are a night apart whatever fails or restarts, and a
  one-off read leaves them room and is served once. A sweep deletes only what a
  whole walk, or the portal asked by id, did not have, takes what has gone
  within its limit, and sends a deal to the contact its own was merged into.
- **Budget.** No hour spends more than its ceiling.
- **Feeds.** Nothing under a bookmark is missing, and a pass that ends well has
  all the portal showed when it began. An open chat of the last day is watched,
  and chats are closed on evidence.
- **MoySklad.** A change of an order reaches the database by the next whole
  run, a payment by the end of its own, and only orders that are gone go.
- **Day counts.** A day counted after its end stands as it was when it was
  over; two deals are one client exactly when they share a number or a contact.
- **Memo.** No rejection is kept, answers only move forward, an answer that may
  be shown is not taken away, a build on offer is one that runs.
- **Sign-in.** The row counts the failures that stand, past the allowance no
  password is tried before the lock is over, and attempts do not deadlock.
- **Accounts.** The last administrator stays, and a scope stays usable, unless
  two requests raced.
- **AI panel.** The audit is the setting's history and no save undoes another;
  a button is not pressed twice unless two looks crossed, a secret does not
  outlive its press, and the last answer is the agent's.

## 2. Modules

| Module | Models | Checked by | Proved in |
|---|---|---|---|
| `CrmMirror` | what the engine promises: each record shown is stored, owed or too late | as `ImplementsMirror` of `SyncEngine` | `SyncEngineProofs` |
| `SyncEngine` | `runEntity` and `persistRecords` for runners beside each other | `MCSyncEngine`, `MCPortal` | `SyncEngineProofs` |
| `PortalGate` | the gate, calls and batches through it, the worker's start, probes and ticks | `MCPortalGate` | `PortalGateProofs` |
| `CrmEvents` | the portal's events, the queue, the tick and the drain | `MCCrmEvents` | `CrmEventsProofs` |
| `SlowPasses` | the plan of a tick over outages and restarts | `MCSlowPasses`, `MCWorker` | `WorkerProofs` |
| `FloorFeed` | a feed's bookmark over rows shown late | `MCWorker` | `WorkerProofs` |
| `OpenChats` | the open chats: floor, anchors, holds and control reads | `MCWorker` | `WorkerProofs` |
| `NightWork` | when the sweep, the relink and the one-off reads run | `MCWorker` | `WorkerProofs` |
| `Moysklad` | the warehouse's orders, their sweep and payments | `MCWorker` | `WorkerProofs` |
| `DealSweeps` | what the walk, the deletion, the relink and the recent checks do | `MCPortal` | `PortalProofs` |
| `PortalPace` | the waits of a call: budget, meter, token | `MCPortal` | `PortalProofs` |
| `DayClients` | a day's deals grouped into clients, new or repeat | `MCPortal` | `PortalProofs` |
| `DayCounts` | which days are counted and stored, when | `MCPortal` | `PortalProofs` |
| `TtlCache` | one key of a memo, its readers, its warmer and its builds | `MCTtlCache`, `MCWeb` | `TtlCacheProofs` |
| `Lockout` | concurrent sign-ins of one account with several names | `MCWeb` | `LockoutProofs` |
| `Accounts` | administrators making, editing and removing accounts at once | `MCWeb` | `WebProofs` |
| `AiConfig` | the AI registrator's setting and its audit | `MCWeb` | `WebProofs` |
| `AiPresses` | the panel's presses, the agent's polls and reports | `MCWeb` | `WebProofs` |

`MCWeb`, `MCWorker` and `MCPortal` each host several modules that share no
state: a variable `part`, chosen at the start, says which one runs while the
others stay where they began. A run of a host checks each part on its own; it
claims nothing about their interleaving, which has no effect. `SyncEngine`
promises what `CrmEvents` assumes of the tick, and what the days of `DayCounts`
are counted from; that is the only composition by contract.

Operators that a "mutant" of PROJECT.json names are wrong versions of the
definition that follows them (`FirstFailsByObject`, `DatedByEnd`,
`UnionOfKeys`, ...), kept to show that a property notices. They take no part in
the specification.

### SyncEngine

A record of the portal has a version, and each version is stamped at one
instant (`Stamp`) and visible from a later one (`Show`); the time between is
what `SETTLE_LOOKBACK_MS` is for. A runner (the worker, a resync) goes through
the awaits of `runEntity`: `Begin` (the run row, then `startedAt`), `OpenRun`
(the watermark), `FetchPage`/`FetchLastPage`, `PersistBatch` or, when the
batch is rejected, `PersistRecord`/`RecordRejected` one by one, `Finalize`,
`SetCursor`, `FinishRun`. A deal's history record refers to the deal and is
skipped while the deal is not stored. `Crash` ends a run anywhere; `StoreFails`
is a database error. What is written is the version the page holds, which may
be older than the one stored.

`CrmMirror` has no runs and no cursors: a shown version is owed until it is
written, and nothing else happens. `SyncEngine` implements it with "owed" mapped
to "written, or read by a later run".

### PortalGate

The worker makes one call at a time, so one program counter follows the call,
its retries and its caller (startup's health check, a probe, an entity of a
tick). `Transport` and `metered` differ in a walk: `batch` is sent and
`crm.deal.list` is spent. `Trip`, `NoteSuccess`, `NoteProbe`, `Open` are the
gate's methods; `Refused` is the catch of `call`, `RowsRefused` the refusal in
`result_error` of a batch answered 200. `Restart` forgets the gate and keeps
`sync_log`, from which `StartShut` seeds it. Portal and clock change at any
point. The budget, the meter and the limiter that delay a call are
`PortalPace`.

### CrmEvents

`Change` moves a deal and posts its event; `Record` (any order, any number of
times) queues it unless a pending row says the same; the drain reads rows
(`DrainStart`), reads the deals (`ReadDeals`), writes (`WriteDeals`), deletes
(`DeleteDeals`) and marks (`MarkProcessed`), each a step of its own, and fails
or dies between any two. The tick's incremental pass is abstracted to the set
of deals its cursor still offers, the promise `SyncEngine` checks. The history
variables say why a deal that left is still stored: `toSweep` when its event
was lost, deferred, held or expired, all of which the comments leave to the
nightly walk, and `swallowed` when its event met a row already used.

### SlowPasses

One deal and its arrival in a stage wait for reference data. Ages replace
instants. A tick is `Plan`, perhaps `SlowPass`, then `Hot` or `HotFails`, then
`EndTick`; outages shut the gate inside a tick and `Recover` opens it. The
tick's length is bounded by `Slack`, the "tick" of the comments.

### FloorFeed

The feed of form fills (`refreshFormFills`), whose shape the deal births and
moves share: rows have ids in the order they were made and stamps, and the
portal shows a row up to `Lag` after. A pass (`BeginPass`, `FirstFloor`,
`FetchRows`, `InsertRows`, `RememberFloor`) walks from the stored floor, stores
each page, and moves the floor only over rows settled for `Overlap`; it may
stop at `MaxPages`, fail or crash between any two. `promised` is what the
portal showed when the pass began. `MonthHasBegun` is assumed of the first
floor: the month it walks from has a row older than the lag.

### OpenChats

The list of open chats (`refreshOpenLineChats`) has one cursor a floor, moved by
anchors: an anchor keeps the newest activity and its time, and becomes the
floor a window later, when every chat under it is older than a day. A pass is
`BeginChats`, `DatedRead`, `HeadFloor` or `Anchor`, `FetchChats`, `Control`,
`Replace`, `WriteChats`; a list far shorter than the table is held until a
control read or a second answer confirms it, and a pass that sees no line at
all deletes nothing. `Permission` takes the webhook's sight of the lines away
and gives it back.

### NightWork and DealSweeps

`NightWork` has the clocks: `lastSweepAt` and its failure, `lastOneOffAt`, what
settled and what failed, and the rows of `sync_log` from which `Deploy` reads
them again; a read that settled may have its row pruned. `ResyncByHand` writes
a row that reads as a sweep. A tick asks once whether a sweep is near
(`syncWorker.ts:2244`), then awaits the deals' backfill, and the other one-off
read goes by the same answer: `looked` is that look's hour once the deals' read
is over (`GoesOn`), a read may go by it or by a look of its own (`Looks`), and
it is lost when the tick ends. `readLooked` is history, the look that the last
read was begun by. `unsure` marks a process that could not know of
the last sweep (no row and no log), which the property excuses by name.

`DealSweeps` has the work: `WalkPage` by ids, `DeleteMissing` behind its guard
and limit, `RelinkContacts`, and the checks of recent deals (`AskPage`,
`DeleteGone`). Between two pages the portal opens, moves, hides, merges and
deletes, and an import may run beside. `missed`, `absent` and `turned` are
history: which deals were out of the webhook's sight at some time, or all the
time, of the job, and whose contact changed in it.

### PortalPace

A call asks the budget (`CallPortal`), perhaps sleeps, then the meter
(`Spend`, `MeterWaits`), then takes a token and leaves (`SendAway`), and each
retry asks again. Buckets are of one minute and are evicted as the code evicts
them; `sent` is what really left at each instant.

### Moysklad

Orders are edited, paid and put in the bin while `importMoyskladOrders` reads
pages in the order of `updated`, steps by offset inside a second or by stamp
from one to the next, stops at its cap, and every so many runs lists the ids
and asks for what it misses (`ListIds`, `AskGone`) before the payments
(`BeginPayments`, `PayPage`). `slid` names the orders that a step by offset can
miss, `owed` the payments behind when a pass began.

### DayClients and DayCounts

`DayClients` is `bezkvalClients`: deals are tied one by one in any order
(`Tie`) in a forest of keys (numbers, contacts, deals) whose roots are the
least keys, then read out as clients (`Group`) and looked up in the earlier
deals (`Look`, `novelty`). Its property restates a client as a connected
component of "shares a number or a contact", without the forest.

`DayCounts` is `refreshBezkval`: a pass plans the days due, today and yesterday
first, counts each and stores it with the time its count began; it may fail
anywhere, days are counted across midnight, and a deploy may change the rules.

### TtlCache

Code between two awaits is one action, as JavaScript runs it. Builds are
numbered; an entry holds the build its promise came from. The object identity
the code compares (`entries.get(key) === hit`) is the set `mine` of builds that
know the entry now in the map: a copy made by an owned refresh empties it.
`copied` is a history variable, true from an owned refresh that replaces the
entry to the next entry; the two properties that exclude copies name it, and
`memo_joins` shows what they exclude.

### Lockout

An attempt counts as a failure before its password is checked (`Reserve`,
`Refuse`, `Prune`) and settles after (`Succeed`, `Refund`, `Abandon`, or nothing
at all for a wrong one). Each transaction takes its keys' advisory locks one by
one in their order (`TakeLock`). `now` is read before the locks, as in the code.
An identifier resolves to the name typed, or to both names of the account.
`open` and `charged` are history: whose reservation is in the row, and how many
stand.

### Accounts, AiConfig and AiPresses

Requests read, then write, with other requests between. `Accounts` has the edit
(`ReadEdit`, `Count`, `CommitEdit`), the removal and the creation in its three
writes (`ProvisionRow`, `ProvisionRole`, `SaveScope`), cut anywhere by
`RequestFails`; a request remembers whether another overtook it.

`AiConfig` has a save: read the stored setting, put the panel's own field in it,
write the whole under the version the page showed, with the audit row; the
first save inserts. `AiPresses` has the press (`LookFirst`, `Create`), the
agent's poll, which drops secrets of old presses, its doing of a press, and its
reports (`ReadAnswered`, `WriteAnswer`), several of which may be written at
once.

## 3. Runs

Passing runs, with the bounds that matter:

| Run | Shows | Bounds |
|---|---|---|
| `sync_worker` | type invariant, `NothingForgotten`, `SuccessIsComplete`: pages of one or two rows, batches rejected and written record by record, skips, the wound-back cursor | two deals and a history record of the first; one failure or crash; lookbacks of one and two and a clock of three, so that a cursor passes the first stamps and a row not stored falls out if it can |
| `sync_two_runners` | `NothingForgotten` under a second runner (FULL beside BACKFILL, reads by ids, older pages over newer rows); `SweepsTakeTheGone`, `MergesAreFollowed`; `HourIsBounded`; `ClientsAreThePeople`; `DaysAreClosed`; types | one deal, a row listed one instant late, no failure; a lookback of two and a clock of four, so that the cursor passes the first stamps, and a second runner that reads the whole table or a window that begins late; three ids, two contacts, three changes of the portal, pages and limits of one; calls of one and two invocations and a ceiling of three over an hour of three minutes; three deals, two contacts, two numbers of which one ends in the other; four days with a week of one |
| `sync_live` | the refinement `ImplementsMirror`; `EventuallyStored`, with writes by id beside the cursor and a skip that waits for its deal | a deal and its history record, one failure or crash, so a page may be refused or lost, a derivation; the lookbacks and the clock of `sync_worker`, so that what a failed page held is lost if the cursor goes on |
| `gate` | type invariant, `SpentMethodRests`, `KnocksAreSpaced`, `OutageIsOne`, `Recovers` | ladders of one to three rungs, one retry, one restart; two walked methods, one of them batched |
| `events_flood` | type invariant, `NothingLost`, `GhostsAreKnown` | two deals, which are a flood for a drain of one; two events in flight; crashes |
| `events_live` | `GhostsEnd` where no deal may be taken for gone on a missing answer alone | the same, one event in flight, no crash |
| `memo` | `EntriesAreSound`, `AnswersAreKept`, `NewestLands` of the memo; `LocksAreSound`, `LocksAreServed`; `HistoryIsTrue`; `PressesAreTrue`; `AccountsStaySound`; types | five builds, ages past the grace; two attempts with two names, an allowance of two, locks of one and two units; two panels, two fields, three saves; two windows, two reports, two presses; two accounts, two desks, four requests |
| `slow` | `OnlyOutagesLose`, `SlowPassesAreSpared`; `FeedIsWhole`; `WatchIsKept`, `ChatsCloseOnEvidence`; `SweepsAreNightly`, `ReadsKeepTheirPlace`; `OrdersCatchUp`, `OnlyGoneAreRemoved`; types | outages at any point, one restart, units of five minutes (the gap and the arrival's window are the code's, the full pass and the deal's window are shortened to fifty minutes); three rows shown up to one unit late; two chats, a window of two; the end of one night and the next, of five units in ten, an hour of two units and reads and sweeps as long as that, two one-off reads, two deploys or resyncs by hand; three orders, three changes, a clock of two seconds |

Two deals are enough for a flood, for a batch with one good and one bad record,
and for one deal to be held while another is applied; the code treats deals
alike otherwise. Two actors are enough for every race named here, since each
needs one request that read and one that wrote after; three ids are enough for
a page, a deal before it and one after. Two rungs show the step from one to the
next and the last rung that repeats. Times are small integers in the order the
constants of the code have (a settle lookback shorter than a skip lookback, a
gap shorter than the windows, a lag shorter than an overlap); only that order
enters a guard. In `memo` the two actors of every part are exchanged by
symmetry, which no definition tells apart; no liveness is checked there.

Deadlock is not checked where a bound on the clock, the changes, the builds or
the requests lets the model stop (`CHECK_DEADLOCK FALSE`), which is so in the
three hosts; the other runs check it. `slow` bounds restarts because a process
that dies in every tick before its hot pass writes nothing, which no schedule
survives. In `sync_worker` and `sync_live` a row is listed in the instant that
stamps it (but after other steps of that instant); `sync_two_runners` has the
late listing. In all three a page is written in the instant that reads it,
with other steps between, which is enough for an older page to be written over
a newer row; the proofs have any lateness and any holding of a page.

Runs that must find a violation, each a disagreement between the code and its
own words:

| Run | Property | What happens |
|---|---|---|
| `sync_derivation` | `DerivationWaits` | `finalize` clears `touchedDeals` before the UPDATE that may fail, and the cursor advances: what was to be derived does not wait for a later run. A row of the last minutes is read and derived again all the same, being within the lookback; the row of the run is stamped before it, as after an outage |
| `events_swallowed` | `EveryEventCounts` | the UPDATE of a deal that moves to a pipeline not imported is deduplicated against the row of its earlier UPDATE, which a drain has acted on, by reading the deal while it was here, and is about to mark |
| `memo_joins` | `JoinedBuildRuns` | an owned refresh copies the entry of a running build it never joined; the copy offers that build for ever, and the warmer stops rebuilding until a reader finds the copy too old |
| `slow_lost` | `NothingFallsOut` | an outage longer than the window, then hot ticks first: the row is skipped and the cursor leaves it behind |

### Observations

What the properties exclude by name, or the models showed on the way, and no run
states:

- Gate: a `QUERY_LIMIT_EXCEEDED` is marked retryable and shuts the gate, so its
  retry is always refused by the gate.
- Night: a successful `bitrix:resync -- DEALS` writes the same `sync_log` row as
  the nightly sweep, which the next start then takes for it. A sweep that comes
  due in the night's last hour is not foreseen by a one-off read. A tick looks
  for the sweep once (`syncWorker.ts:2244`): behind a deals' read of an hour, a
  one-off read of the same tick goes by a look an hour old and may begin right
  before a sweep, against "an hour clear of the sweep, either side, for both
  night reads below" (`:2238-2243`). The property counts the hour before a sweep
  from the look; the hour after one is kept whatever the look. A retry of
  the deals' backfill may start twenty minutes after another one-off read,
  because a failure is dated by its end and a read by its start;
  `lastOneOffAt` is lost at a restart.
- Events: `confirmedGoneLimit` is never below what one drain takes, so a flood
  of deletions is applied drain after drain and none of it is held
  (`crmEvents.ts:91`).
- Memo: a reader past the grace starts a second build beside a rebuild that
  runs, which the comment at `ttlCache.ts:194` says it shares.
- Sweeps: a deal hidden from the webhook below the limits, or moved out and back
  during a walk, or imported by hand after the walk's last page, is deleted and
  returns only when its `DATE_MODIFY` moves, without its stage history.
  `batchWalk` takes a command with no answer and no error for the end of the
  data, which `dealsById` treats as a refusal. A relink beside an import by hand
  may write an older contact until the next sweep.
- Budget: the buckets of a minute are forgotten after something over 59
  minutes, and a call may leave later than it was counted, so a rolling hour can
  exceed the ceiling; what is checked is an hour less a minute, and the ceiling
  and one call. The meter's hard rung is not looked at again after its wait.
- Chats: any second answer within fifteen minutes of a hold is believed, whether
  or not it agrees with the first, and a held bookmark that could not be
  rewritten makes a third answer believed. An anchor is read after the pass took
  its `now`, so the floor can pass a chat younger than a day by as much as a
  pass takes. A call of more than some forty minutes can miss its finished
  re-read.
- MoySklad: an order can be missed for good when a run steps by offset through a
  second with more than a page and one of that second is edited or deleted
  (`moyskladImport.ts:341-349`); a capped run whose settle window holds all its
  pages makes no progress (`:336-340`).
- Day counts: a day counted at noon before an outage longer than its week is
  not counted again; a day that always fails keeps the older ones waiting. A
  contact without a number of a client who has numbers is not looked up
  (`registrationRepository.ts:271`), though `bezkval.ts:299-302` says a client
  is looked up by its numbers and its contacts.
- Sign-in: an attempt whose reservation another's success has removed hands back
  a failure that is not its own (`lockout.ts:161-164`).
- Accounts: two administrators who demote each other at once both pass the count
  of administrators, against "the LAST active administrator cannot be demoted or
  disabled". Between provisioning and its scope a new account reads ALL, and a
  creation cut there leaves such an account with its login taken.
- AI panel: two requests that both looked first write the same press twice,
  against "never twice while one is still open"; of two overlapping reports the
  older may take a final answer back until the next; a sealed value stays as
  long as the agent does not poll.

## 4. Fairness

Safety needs none. The liveness runs assume:

- `sync_live`: weak fairness of the steps of a run that has begun, a batch
  rejected included, and of a stamped row being listed; strong fairness of a
  run of every entity beginning (the loop). Failures and crashes are never
  fair, and their number is bounded; nor is a write by id, which nothing
  promises.
- `gate`: weak fairness of the worker and of time; strong fairness of an
  answer, since a request the portal could serve may also fail on its own and
  is assumed not to do so every time. `Recovers` is conditional on the portal
  serving again for good.
- `events_live`: weak fairness of the drain's steps and of an event's arrival,
  strong fairness of a drain's start (the loop drains between ticks) and of
  giving up on old rows (rows do reach an hour). Reads may fail for ever. No
  crash: a process that dies in every drain makes no progress.

The other modules state no liveness: what they must do eventually (a sweep comes,
a day is counted) is a timer's work and is checked as a bound on times where a
bound can be missed.

## 5. Proofs

Checked by TLAPS for every value of the constants allowed by the assumptions
of each module:

| Theorem | Says |
|---|---|
| `TypeCorrect` (`SyncEngineProofs`) | the engine's type invariant |
| `NothingForgottenHolds`, `SuccessIsCompleteHolds` | no version shown is forgotten; a success left nothing settled unwritten |
| `EngineImplementsMirror` | the engine implements `CrmMirror` |
| `GateTypeCorrect`, `SpentMethodRestsHolds`, `KnocksAreSpacedHolds`, `OutageIsOneHolds` (`PortalGateProofs`) | the gate's type invariant and its three safety properties |
| `CrmEventsTypeOK`, `NothingLostHolds`, `GhostsAreKnownHolds` (`CrmEventsProofs`) | no deal is lost to an event, and one that left and is stored is known to have left |
| `EntriesAreSoundAlways`, `AnswersAreKeptAlways`, `NewestLandsAlways` and the parts they join (`TtlCacheProofs`) | the memo's entries and answers, whatever readers and warmer do |
| `LocksAreSoundAlways`, `LocksAreRespected` and parts (`LockoutProofs`) | the count is exact, locks are earned, served and free of circles, for any number of attempts and names |
| `FeedsAreWhole` and parts (`WorkerProofs`) | no hole under a bookmark, and a success has all it promises |
| `TheDayIsWatched`, `ChatsCloseOnEvidenceAlways`, `ChatsAreWellFormed` and parts | the floor of the chats passes no open chat of the last window but by a pass's time; large deletions are doubted first; anchors stand apart and in order |
| `NightlySweeps`, `ReadsKeepTheirPlaceAlways` and parts | sweeps a night apart; one-off reads an hour clear of them, before by the look they go by and after by the clock, and served once; for any calendar and deploys |
| `SlowPassesAreSparedAlways`, `OnlyOutagesLoseAlways` | forced passes a gap apart and none in the calm; a skip that meets no outage is resolved in its window |
| `OrdersCatchUpAlways`, `OnlyGoneAreRemovedAlways`, `OrdersAreWellFormed` | the warehouse's orders, for any number of them, pages and caps |
| `SweepsTakeTheGoneHolds`, `MergesAreFollowedHolds` (`PortalProofs`) | a sweep takes what is gone and nothing else; a relink leaves no merged contact |
| `HourIsBoundedAlways`, `BudgetIsWellFormed` | what leaves in an hour less a minute is within the ceiling and one call; the meter's types, its total within the ceiling |
| `DaysAreClosedAlways` | a day closed by a pass stands as it was when it was over |
| `ClientsAreThePeopleAlways` | a day's clients are the people linked by numbers and contacts, with keys of their own, rightly called new or repeat |
| `HistoryIsTrueAlways` and parts (`WebProofs`) | the audit is the setting's history, each save its own change |
| `AccountsStaySoundAlways` and parts | one request at a time keeps an administrator and sound scopes |
| `PressesAreTrueAlways`, `PressesAreWellFormed` | no press beside its like, no secret past its press, no answer that was not given |
| `WebIsWellFormed`, `WorkerIsWellFormed`, `PortalIsWellFormed` | the joined type invariants of the hosts |

PROJECT.json lists them with what each establishes. The arguments:

- `NothingForgotten` speaks of the cursor, but a cursor is moved at the end of a
  run by what was read at its start. The strengthening says, of each run in
  flight, that a version visible when the watermark was read is written, is on
  the page held, is still to be fetched, was rejected (and then the run may not
  advance the cursor), or is stamped within the lookback of the run's start.
  Each step of a run moves a version from one of these to the next, and
  `SetCursor` turns the last into the property. `SuccessIsComplete` reads the
  same account of a run (`Walked`) at its report. `EngineImplementsMirror` maps
  a row's debt to "not written, and read by a later run": each step publishes,
  imports, gives up, reopens or changes nothing of the mirror, and what it gives
  up is what the cursor has passed by more than its lookback.
- `GateInv` adds to the types that the wait still to come (`probeIn`) and the
  time since the last request cover the current rung, and that a hold and the
  time since its refusal cover `MethodHold`. Both are kept because time takes
  from one what it adds to the other. `KnocksAreSpaced`, `OutageIsOne` and
  `SpentMethodRests` follow.
- `HourIsBounded` is about what left, the budget about what was booked, and a
  call may leave minutes after it was booked. `PaidForButOne` joins them: what
  left since an instant, with the call at the meter, is at most what the
  minutes from that instant on were booked, and one call (the one booked
  before). Calls leave one at a time, so there is one at most. It is inductive
  only for the instants whose minutes are still kept, which the hour less a
  minute is. The sums are the model's own folds; the lemmas on them (adding a
  member, a subset, a larger function) rest on `RunningExists`, that a finite
  set has a running total. No induction theorem can be used for it, so it is
  proved from a smallest set without one (`WFMin` over the strict subsets of a
  finite set), and the other lemmas likewise.
- `NothingLost` is inductive with the disjointness of what a drain deletes and
  what it read, and that a deal changed after a read is not `clean`.
- `GhostsAreKnown` is not inductive, because `MarkProcessed` takes away rows
  that name deals. `KnownInv` adds that a deal read while it was here and gone
  since is told of by a row that is not being marked (`PageIsWatched`), that a
  deletion put off as unknown is of a deal just written, and that what is
  condemned is deleted before the marking.
- `SweepsInv` says that a walk has passed no deal but one the portal was without
  at some time of the job, read none that was absent all along, and has for each
  the contact of its time, unless it turned; so what was not found was unseen,
  and what was never seen is not found.
- For the memo, the invariant says that every build that knows the entry runs
  and is not newer than the newest started, that a held build has not failed,
  and that an entry not copied offers a build that runs and knows it: a failing
  first build evicts by promise, not by object, which the warmer's copies need
  (the mutant `FirstFailsByObject` shows it). `NewestLands` adds that there is
  one rebuild that may land, and that it is the newest build unless the warmer
  copied the entry.
- `LockoutInv` joins the exact count, that a reservation in a row belongs to an
  attempt that still has to settle, that locks are held inside the keys asked
  for and from the least up (which rules out circles), and that a count past the
  allowance has armed its lock. The last uses a lemma on the escalation: the
  duration grows with the count, so a failure handed back shortens nothing.
- `FeedInv` follows one pass: everything below where it stands that is recent is
  stored, the page in hand has every row shown above it up to its end, and what
  was shown when the pass began is stored or still above. `FloorIsWhole` follows
  because a row under a settled one can no longer be hidden: the overlap is
  longer than the lag.
- `FloorsFollow` gives `WatchIsKept`: an anchor is the newest activity read at
  most a pass's time after the pass's `now`, and a floor stands on an anchor one
  window old or on a permission's first sight. `ChatShape` adds, for the types,
  that anchors are `AnchorEvery` apart and in the order of their ids, and that
  there are none without a floor.
- `NightInv` relates what a process remembers to what the world did: unless it
  is unsure, `lastSweepAt` is not before the last sweep that stood, and a read
  that settled is known to the process or still in the log while it is asked
  for, because rows outlive the request (`Expires < Retention`). Of the reads it
  says that a sweep known now is not due before an hour has passed since the
  last read's look, but in the night's last hour (`ReadIsClear`), which is one
  side; the other is that a look, however old, is never later than the clock
  nor earlier than an hour after `lastSweepAt`.
- `SparedInv` says that a pass owed is one the gap already lets run, and that
  the memory of a full pass is younger than the log's by no more than its tick.
  `SkipInv` bounds how long a skipped deal has waited for its pass: the gap, a
  tick and the one before it, once more for each restart. That bound must fit
  the windows, which `OnlyOutagesLose` takes as its hypothesis `WindowsReach`:
  the code keeps twenty minutes between forced passes and looks back thirty-five
  for arrivals, fifteen minutes that hold the ticks of two minutes it works
  with, and the run `slow` has the same numbers and one restart.
- `MoyInv` follows one run of the orders. While it reads, an order not yet
  stored as it is was edited since the run began or is ahead of the place the
  run stands at; the page in hand holds it, or ends before it; and afterwards
  it is no older than the newest row stored less `Settle`, where the next run
  begins. The step from the second to the third needs that a run's reading and
  the lateness of a date together fit in `SETTLE_MS`
  (`ShownLate + ReadTime <= Settle`, an assumption of `Moysklad`). What an edit
  pushes over a page's edge is `slid`, and excused by name. A page is a slice of
  an ordered list: a member stands at the number of those before it, so a page
  has no more members than places (`PageFits`).
- `CountInv` says that a stored count is dated by the start of its reading, so
  that a date past the day's end means rows of after it; a day of the pass's
  week that has ended and is not due was therefore read after its end.
- `ClientsInv` says that the trees are the people among the deals tied so far: a
  deal's keys are in one tree (`OneTree`), and no tree leaves a set of keys that
  every such deal is wholly in or wholly out of. The second half is what makes a
  client nobody else: were a client two groups with nothing in common, the keys
  of one would be such a set, with a root on both sides (`ClassIsOnePerson`). A
  key of a client is a key of one of its deals, so two clients with one key were
  one; and a contact looked up for having no number is of a client without
  numbers, so it speaks for no other (`BehindIsSame`). Under this stands the
  forest: what find and union do to every key's root (`FoundRoots`,
  `UnionJoins`) and that a fold of unions joins the trees of all its keys
  (`FoldJoins`). The functions in the model are recursive and the fold is the
  library's; that they have values, and what holds of them, is argued from a
  least key, or a smallest set, for which it fails.
- `ConfigInv` adds that no request holds a newer setting than the stored one;
  with the version checked in the write, a save's base is the setting it
  changes. `AccountInv` says that what a request was judged on still holds of
  the row unless another has written the account, which each step of every
  request must keep.
- `PressInv` relates a look to the presses since: a request about to write saw
  no press like its own among those it looked at (`LooksAreTrue`), so of two
  alike that are open the later had not seen the earlier (`LikeCrossed`, stated
  also of a later one that has closed, since a late report may open it again);
  and a report says "final" only of what is.
- A host's step is a step of one part and a stutter of the others, so each part
  sees its own specification and the joined invariant is the parts' together
  (`PartsRunAlone`, `WorkerPartsRunAlone`, `PortalPartsRunAlone`).

Each invariant is checked by TLC before it is proved: `TypeOK` and the listed
invariants by the runs; the strengthenings were tried on the same instances.

Of the constants, the proofs assume what each module's named ASSUME says. Those
of `DayClients` are that a day has finitely many keys and that all contacts' come
before all deals' and these before all numbers', as the prefixes `c:`, `d:` and
`p:` sort.

Only model-checked: the liveness properties `EventuallyStored`, `Recovers` and
`GhostsEnd`, since fairness and ENABLED are out of the prover's reach. Every
other property of a passing run is a theorem.

## 6. Not modelled

- Analytics services and repositories: one SQL statement and its arithmetic
  each, with no state but the memo in front of them. They are most of the code
  by lines. A model of them would restate each query on a small table; what can
  be wrong there (a wrong join, a wrong filter) is in the SQL's text, which a
  translation would copy and not check.
- Routes, pages and components: rendering and request parsing.
- The mapping of portal records, field by field, and `portalAddresses`.
- Meta, Roistat, TimePay and exchange-rate imports: each asks for a window of
  days and replaces the days it was answered in one transaction. Meta's has
  three grains with windows of their own, refusals of one account and grain, and
  a walk back through the history from its markers.
- Of the entities, the surplus lines of DEAL_ITEMS and the sweeps of the small
  tables; `sweepDeleted`, which nothing passes. The stage history that a
  deleted deal takes along (`recentDeletions.ts:119`).
- Of the feeds, the calls' feed, which keeps a time and not an id.
- Of the gate, how a class of failure is read from a message's text
  (`syncWorker.ts:748`).
- Of the night work, what a one-off read asks of the budget and the re-reads of
  closed AI deals.
- Of sign-ins, the per-address throttle: a promise per address in front of
  better-auth's own limiter.
- Of the panel, the rules a setting must pass and the lines the agent reports.
- Of the day counts, which of a client's deals is the main one, the ROP teams
  and the SQL that lists the deals.
- Two inserts racing past `record`'s check (the comment there is right that
  they are harmless: both rows are marked by the same drain); the drain's pause
  during calm and under a shut gate, which only delays; the pruning of processed
  events.
- Repairs by the worker: re-reads through `persistRecords`, which `SyncEngine`
  models as reads by ids.

## 7. What is left

What is modelled is what keeps a state of its own over time. What would add
most next:

1. The calls' feed, with its time for a bookmark, beside `FloorFeed`.
2. The surplus lines of a deal, whose deletion relies on a whole read of the
   deal's items, beside `DealSweeps`.
3. The windows and refusals of Meta's import.
