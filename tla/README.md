# Ottabase in TLA+

Models, model-checking configurations and machine-checked proofs for the parts of
Ottabase that decide things between several invocations of a Cloudflare Worker: the
DB-driven cron scheduler, alert delivery, usage credits and the metering of AI calls,
the job queue with its dead letters, an organization's roster with the membership cache,
and the session store.

A Worker invocation can stop at any `await`, two invocations share nothing but the
database, and D1 gives single-statement atomicity (or a batch), no transaction across
awaits. So the same scheme is used everywhere: **one action per await that writes a row,
or per group of reads that decides the next write**; everything a handler does between
two awaits is in one action; any invocation can die between two actions.

Contents: [inventory](#1-the-system), [modules](#2-modules), [runs](#3-runs),
[fairness](#4-fairness), [proofs](#5-proofs), [disagreements](#6-where-the-code-and-its-documentation-disagree),
[not modelled](#7-what-is-not-modelled), [plan](#8-plan).

## 1. The system

Ottabase is a monorepo for SaaS applications on Cloudflare Workers: `apps/otta-web` is the
application, `packages/*` the parts it is composed of. State lives in D1 (SQLite), KV
(eventually consistent), R2, Queues (at-least-once) and Durable Objects.

| component | state | operations | talks to | what makes it correct |
|---|---|---|---|---|
| cron scheduler (`packages/cron`, `ScheduledTask`) | `scheduled_tasks`: active flag, `next_run_at`, `last_status` and `last_run_at` (the lock and its fence), counters | `tick`, `runTask`, `runQueued`, `executeTask` | queue (one message per run), handlers of every package | an execution has the task to itself for a lock timeout; outcomes are recorded once, by the owner, in order; a due time is served in the end |
| cron administration (`admin-cron.ts`) | the same rows | toggle, run, delete, create | scheduler | an edit does not undo what a run does meanwhile |
| alerts (`packages/alerts`) | `alert_keys` (cooldown), `alert_events`, `alert_channels`, `alert_deliveries` (a status machine) | `raise`, `deliver`, `retry`, `sweep`, `updateChannel`, `removeChannel`, `prune` | cron (sweep every five minutes), email, HTTP services | a delivery has one sender, is sent or given up, and is repeated only when an answer was lost |
| meter (`packages/meter`) | `meter_balances`, `meter_usage` | `consume`, `refund`, `grant`, `topUp`, `reset`, `requireCredits` | metered routes, AI calls, plans | spend stays within the allowance; the ledger tells what moved |
| AI credit metering (`packages/ottaai`, `worker/lib/ai.ts`) | none of its own | quota check, call, deferred debit | meter | a platform call is paid for |
| queue (`packages/queue`, the application's hooks and console in `otta-web/ottabase/queue`) | messages; dedupe keys and dead letters in KV | `dispatch`, `dispatchBatch`, `processNormalizedMessage`, hooks, chains, `retryDLQJob`, delete, purge | every package | no job lost in silence, no needless repeat, one job per retry |
| organization roster (`OrganizationMember`, `admin-organization-members.ts`) | memberships, invites, role grants | update, remove, add or invite, activate at sign-in | membership cache, sessions | an active owner remains; owners change owners; grants go with the role |
| membership cache (`auth-utils.ts`) | a KV entry per user | `cachedMembershipLookup`, `invalidateMembershipCache` | roster | access follows the roster |
| sessions (`packages/auth`) | registry records, tombstones, a revoked-since marker, profile version in KV | sign in, get (refresh, self-heal), sign out, revoke one, others or all, purge, rename, bump | D1 profile | a revoked session stays revoked; an erased one stays erased; a snapshot is not older than its version |
| permission cache (`packages/rbac`) | versioned keys in KV and a per-request cache | get, set, invalidate | roster, roles | permissions older than an invalidation are not served as newer |
| realtime (`packages/cf-realtime`) | connections of a Durable Object | connect, subscribe, broadcast, disconnect | browsers | a connected client is reachable |
| webhooks (`packages/webhooks`) | endpoints, delivery log | `dispatchWebhookEvent`, `recordDelivery` | HTTP services | counts and the owner's edits survive concurrent deliveries |
| events, flags, postmaster, vault, API keys, audit and other CRUD packages | one row per operation, mostly | | D1 | single statements |
| content, UI, tooling packages | documents, view state | | | sequential code |

**How they interact.** The minute trigger (`handleAppScheduled`) calls `Scheduler.tick`;
due tasks become `cron:run` messages, and the queue consumer calls back
`runQueuedAppCronTask`. The alert sweep is such a task, the meter's pruning another. An AI
route resolves a client, whose quota hook and event sink are the meter's `requireCredits`
and `consume`; the debit is handed to `waitUntil` and outlives the response.

**What is hard.** Claims by conditional `UPDATE` are atomic, but everything around them is
not: what a refusal reports is read later, an edit writes back a row read earlier, a count
is compared and acted on after an await, a send happens before it can be recorded, a cache
is filled with what was read before it was dropped, a record is put back after its deletion.
Handlers may outlive the lock that protects them. Messages come twice and late.
`PROJECT.json` lists these hazards at their lines, with the property that watches each.

## 2. Modules

### Cron: `FencedLease`, `CronScheduler`, `CronAdmin`

`FencedLease` is the promise: one holder of the task's fence, passed on from a holder that
has not published only after a whole lease, results published by the holder, once and in
the order of the fences.

`CronScheduler` is the machinery for one row (two tasks share no row).

| model | code |
|---|---|
| `row` | the row: `active`, `next`, `status`, `last`, `runs`, `fails`; `corrupt` stands for an expression damaged in the table, which `getNextRun` throws on |
| `msgs`, `Deliver`, `Ack`, `Reject`, `Drop` | the queue and `processNormalizedMessage` around `executeTask`: ack when it resolves, whatever its status; retry when it rejects; ack on the last attempt |
| `exec[w]` | an invocation in `executeTask`: `at` is `startedAt`, the fence; `req` is `requestedAt` of a manual run |
| `Tick`, `RequestRun`, `Submit` | `Scheduler.tick`, the console's run, handing over with a queue or running inline |
| `Claim` / `Locked`, `CanClaim` | `acquireExecutionLock` and its `WHERE` |
| `Reload`, `HandlerReturns`, `HandlerThrows`, `ToFail` | the rest of `executeTask`: `getNextRun` runs before the completion and may throw into the catch block |
| `Complete`, `Fail`, `Record`, `Owns`, `FinishedAt` | `completeExecution`, `failExecution`: an `UPDATE` only the owner of the fence matches |
| `CompleteFault`, `FailFault`, `BookkeepingFault`, `Crash` | a statement that rejects before or after it took effect, an invocation that dies |
| `claims`, `results` | history only |

`CronAdmin` adds the pause switch as two steps, the read of the row and `save()`, which
writes every column back, unless `getNextRun` or the validation throws; `CanToggle` grants it wherever a
next run can be had, which is more than the validation does and only adds behaviours. Without a queue
the hand-over of a run to `executeTask` is one step with the read before it: what comes in between is
met again at the claim, which looks at the row afresh.
`undone` is history: a save put back another lock (`last_status`, `last_run_at`) than the row had.

### Alerts: `Outbox`, `AlertDeliveries`

`Outbox` is the promise of a channel, without attempts, claims, batches and clocks: an alert is
handed to the service only while it is owed and nobody knows, or is about to record, that the
service has it; the one exception is a `Double`, an alert that a second batch took while a first had
it. It is recorded as gone out only if the service has it, and while the channel is there that is never
taken back. `ImplementsOutbox` maps a row's eight statuses to `none`, `owed`, `sent`, `digested` and
`dead`, and what nobody will learn of any more to `doubted`.

One channel and its deliveries. `row[a]` is an alert with its one delivery row; `job[w]` a
worker inside `raise` or `deliver`; `sweep[s]` an invocation of the sweep task, whose retries run as
jobs of workers; `removing` the gap between the two statements of `removeChannel`. Columns that
hold instants are kept as the time left until, or gone since, the limit the code compares
them with (`wait`, `age`, `busy`, `gone`), so the state space is finite without a bound on
the clock. `accepted`, `unmarked` and `doubled` are history: messages a service took, those whose
acceptance was never learned, and of the rest those sent by a sweep that read the alert while another
sweep had it in hand.

Sweeps overlap freely. `flush` reads what waits, sends it and marks it, and claims nothing; only the
task's lock in the cron table keeps two sweeps apart, it lasts five minutes like the schedule, so a long
sweep outlives it, and the pause switch can undo it (`OneWorkerPerTask` in section 6). A sweep takes
the time once, when it starts: `late` are the alerts raised since, which it leaves alone, `slot` is
whether the digest's hour had come, and `days` the midnights since, so that `SweepRecord` writes the
start time, also over a later one.

Abstractions: `critical` also stands for a channel type that does not batch; the failure
streak that makes a sweep pass a channel over is a nondeterministic pass; at most one
delivery per alert; a sweep's batches of five run as far as workers are idle; no sweep lives to see two
midnights.

### Credits: `Allowance`, `Meter`, `CreditMetering`

`Allowance` is the promise of a balance. `Meter` has one action per statement of
`consume` and `refund` (the conditional `UPDATE`, the read that explains a refusal, the
best-effort ledger row) and one for each of `grant`, `topUp` and `reset`. Instants and
amounts are numbers, and SQL `NULL` is the constant `Null`. `charged`, `taken` and `lost`
are history.

`CreditMetering` extends it with AI calls: the pre-call check (which fails closed), the call,
the deferred debit and the second debit of what is left, each in its place between the
meter's own steps. `raced` and `dead` are history. A debit that finds the period over takes nothing and
is not tried again, as only a shortage is. `Other` stands for the metered routes of
an app: take first, give back when the work fails.

### Queue: `QueueDispatch`, `QueueJobs`

`QueueDispatch` is the producer. A call takes its list job by job: the read of the dedupe
key, the write of it, and when the list is through, the send, which is one for a single
adapter and one per bound priority queue otherwise (`Single`, `Bound`). Sends fail and
callers die in between; a key's TTL ends at any time (`window` numbers its lifetimes).

`QueueJobs` extends it to the job's end: `work[i]` is the message of job `i` and the
invocation that has it, through `onBefore`, the handler (which may ack or retry the message
itself), `onAfter`, the chain, `onFailure` with its dead letter in KV, and the verdict the
platform applies when the invocation ends; every hook may reject, and the invocation may
die anywhere. A chained job goes with the priority of its template, to the queue the consumer was given
for it: one (`ChainQueue`), one per priority (`ChainBound`), or none, in which case the consumer warns,
skips the chain and acks the parent (`SkipChain`). The application's own consumer is given no queue for
chains, which is `ChainQueue = FALSE`, `ChainBound = {}`: whatever chain a job has there is skipped. `console[a]` is an admin's retry of a dead letter: read, send, delete. History:
`wins`, `hurt`, `cut`, `skips`, `unsent`, `raced`, `stored`, `purged`, `doubted`.

### Organizations: `Organization`, `Roster`, `OrgAccess`

`Organization` is the promise: a request, however long it takes, acts in one step on the row it
finds then; what it did not ask for stays; an active owner remains; a person's grants go with
the role.

`Roster` is one organization's memberships, invites and grants, and a request about them, one
action per await: the caller's role, the row, the owner check when an owner is touched, and
the D1 batch whose predicate (`Matches`) repeats what was read and asks for another active
owner. `Change` writes the row and the grants in one step, as the batch does. `ImplementsOrganization` says
that the rows, invites and grants change as if every request had acted at once. `OrgAccess`
extends it with `cachedMembershipLookup`: `Lookup` reads D1, `Fill` writes KV later, and the
drop that follows every change is a step of its own that may fail. `late` and `excused` are
history: lookups a change overtook, and entries they filled or whose drop failed. `AccessFollows` is
about the other entries: a fill that spans a change leaves the old role in the cache until its TTL ends,
which the property excuses and does not deny.

### Sessions: `SessionStore`

One user's sessions. `SignIn`, `Sign`, `Issue` are `createSessionForUser` with its order of
reads (context, version, record); `Begin`, `Read`, `Load`, `Serve` are `getSession`: its four
KV reads run at once, so either what denies (tombstone, marker) or what grants (record,
version) may be read first. `Revoke`, `RevokeOthers`, `RevokeAll`, `Tomb`, `Remove`, `List`, `Sweep`,
`Purged`, `Rename`, `RenamePut` are the sessions page, the sign-out, the password reset and the
erasure. `Change` and `Bump` are a change of the user in D1 and `bumpProfileVersion`. A load
that fails is swallowed by `loadUserContext` and gives an empty snapshot (`Empty`). The data of
a snapshot is the number of the change it shows. `ended`, `bulk`, `told`, `erased`, `loose` are
history. `ServedReflects` and `LoadedReflects` say so of the loads D1 answered: an empty snapshot shows nothing
old, and counts as showing the change. `Bump` takes the time and writes it in one step. The version is a
millisecond, so a second bump in the same one leaves it as it was and no session is refreshed for it:
nothing counts as told of such a change (`told`).
So are two fields history: `raced` of a record that a sign-in made while the version was
raised, and `due` of a request, the change that had been told when it began.

### MC modules

They hold the sets the configurations use, and the symmetry: workers, alerts, callers,
admins, sweeps, requests and operations are interchangeable where the initial states do not tell them
apart; the two other users of a balance are when there is one AI call. Runs with liveness
properties use no symmetry. Three of them take fewer steps than the specification they are
about, to keep the runs finite in time; the theorems of section 5 are about the
unrestricted specifications:

- `MCQueueJobs`: callers go first, then the messages in turn, with the console between deliveries. The
  dispatcher reads nothing the consumer writes, one message's invocation nothing another's
  writes, and a letter in the console belongs to no invocation, so the steps commute.
- `MCOrgAccess`: rosters of two people, and lookups of one of them (entries do not meet).
- `MCSessionStore`: one of two sessions has signed in before, to end the other from and to be swept
  with it, and takes no requests of its own.

## 3. Runs

| run | configuration | shows |
|---|---|---|
| `cron_core` | `CronScheduler.cfg` | `LeaseRespected`, `DueTimesApart`, `FencesUnique`, `ManualAtMostOnce`, `RunsCountResults` and the refinement `ImplementsFencedLease` |
| `cron_admin` | `CronAdmin.cfg` | under the pause switch, without a queue: `ActiveCanBecomeDue`; `SafeUnlessUndone`: what `cron_core` shows of the lock holds until a save puts back another lock; and `DueIsServed`: once faults are over a due time does not stay due, also behind a dead execution's lock |
| `cron_toggle_race` | `CronToggleRace.cfg` | violation of `OneWorkerPerTask` |
| `alert_batches` | `AlertDeliveries.cfg` | `NoNeedlessRepeat` across direct sends, summaries and digests of two sweeps that may overlap, and the refinement `ImplementsOutbox` |
| `alert_live` | `AlertLive.cfg` | `OneSender`, `AttemptsBounded`, `OwedIsSettled` |
| `credit_metering` | `CreditMetering.cfg` | `NetSpend`, `LedgerFollows`, `FreeOnlyIfRacedOrLate` and the refinement `ImplementsAllowance` |
| `credit_overcharge` | `CreditOvercharge.cfg` | violation of `NeverOvercharged` |
| `queue_jobs` | `QueueJobs.cfg` | `DuplicatesOverlap`, `SkipsAreCovered`, `RunsAgainOnlyAfterFault`, `ChainFollowsSuccess`, `ChainIsSent`, `GivenUpIsKept`, `LetterIsKept`, `RetriedOnce` |
| `queue_dedupe` | `QueueDedupe.cfg` | violation of `SkippedWasSent` |
| `org_access` | `OrgAccess.cfg` | `OwnerRemains`, `OwnersTouchOwners`, the refinement `ImplementsOrganization`, and of the cache `AccessFollows` |
| `sessions` | `SessionStore.cfg` | `EndedStaysEnded`, `LaterIsKept`, `ErasedStaysErased`, `ServedReflects` |
| `session_signin` | `SessionSignIn.cfg` | violation of `SnapshotReflects` |

Four more configurations belong to no run of `PROJECT.json`; `tlc -config X.cfg` on their MC module
prints a counterexample: `CronDueOnce.cfg` (`MCCronScheduler`), `AlertCap.cfg` and
`AlertDigest.cfg` (`MCAlertDeliveries`), `CreditOverrun.cfg` (`MCCreditMetering`). Section 6 says
what each shows. A fifth, `AlertOverlap.cfg` (`MCAlertDeliveries`), passes: it is `alert_batches` for one
alert, two requests at once and every kind of disturbance after another, against the overlapping sweeps.

**Bounds, and why they are enough.**

- *Cron.* Two workers, because the lock is a matter between two executions; the schedule
  matches every two units and a minute is two units. In `cron_core` the lock lasts one unit and
  the clock runs to four, so an execution can overlap the next due time and outlive its
  lock. Two deliveries per message, one manual run and two faults make a redelivery after a
  crash that crashes again, while a manual run is pending (3.1 million states). `cron_admin`
  has one switch, one manual run and one fault, without a queue; its schedule matches past the
  end of the clock, so resuming a row always finds a next run (that it may not is part of
  the theorem; 0.34 million states).
- *Alerts.* In `alert_batches` two sweeps, which is what it takes to overlap, a request and two alerts: a
  batch and an alert next to it, a cap of one per hour, a digest due at any time of day. One disturbance
  of any kind (`MaxTrouble`), since the overlap itself needs none; `AlertOverlap.cfg` has three, with one
  alert. A claim is stale after one unit there, so that it can only be taken over from the dead
  (3.8 million states). In `alert_live` one alert, two workers and one sweep at a time, with a retry, an
  edit and a fault: the paths of one delivery are independent of other alerts, but for the cap. A claim is
  stale after two units, so it ages, can be taken over, and so can its takeover. One retry delay makes two
  attempts, enough to pass through every branch of `deliver`.
- *Credits.* Credits of 2 and amounts of 1 and 3: one fits, one never does, and two small
  ones meet at the last credit. One AI call and two other users who take twice between
  them, one grant, purchase or reset, and a period that ends at the first tick. The
  violation run uses two AI calls and nobody else.
- *Queue.* Two callers and two calls, one key whose lifetime can end once, a job with a chain
  that has a queue, and a batch that spans a bound queue, another bound queue, for a job whose chain has
  no queue, and one that is not bound; two
  attempts and three deliveries; two admins; one fault. Three jobs at most, of which two are
  processed: the third is a chained or retried job, which is a job like the first (0.9 million
  states).
- *Roster.* Two people and two requests: the race for the last owner needs two, and the cache one
  of each (1.7 million states). Rosters start as two owners, an owner and an admin, or an owner
  alone with an invite to come.
- *Sessions.* A sign-in, a request, and two operations over two sessions, three instants, a grace
  window of one, one change of the user and one fault (2.5 million states). Two writes must meet a
  third party's read for a record to come back, which is what these are.

Deadlock is checked for the alerts and the roster, which go on for ever. The cron, credit, queue and session
models stop where their clock and their bounds end, so it is switched off there. Every
property of a passing run has a mutant of the code's translation that breaks it (the
operators marked *Mutant of* in the modules).

**Bounds named as constants:** `MaxTime`, `MaxManual`, `MaxFaults`, `MaxToggles`,
`MaxEdits`, `MaxRetries`, `MaxTrouble`, `MaxAdmin`, `MaxOps`, `MaxCalls`, `MaxExpiries`, `MaxJobs`,
`MaxChanges`, `MaxServed`. None is in the code.

## 4. Fairness

- `CronScheduler!Fairness`: the clock advances; the trigger fires on a minute the clock
  stays on; the queue delivers; an execution that does not die takes its next step, so a
  handler returns or throws in the end. This is what the platform promises (one trigger a
  minute, at-least-once delivery, a limit on an invocation's life). No fairness for crashes,
  faults or admins. `DueIsServed` is conditional on faults being over and on time being
  left for a minute and the rest of a lock timeout. `CronAdmin!AdminFairSpec` asks the same, and
  nothing of the switch.
- `AlertDeliveries!Fairness`: the clock goes on; a sweep is started again and again, whichever it is (the
  sweep is a scheduled task; its service is what `DueIsServed` is about); a sweep or a worker that does
  not die takes its next step, and so does the second statement of a removal. `OwedIsSettled` needs no assumption
  that a send succeeds.
- `TimelySpec` asks for more than the code guarantees (a sweep finishes between two ticks
  of the clock, and the service keeps taking batches); it is only used to show that
  `DigestEnds` fails even then.
- The queue, roster and session models state no fairness: their properties are safety ones.

## 5. Proofs

For every value of the constants that satisfies the named assumptions, which say only that
timeouts and bounds are natural numbers, lists of jobs are sequences and identities are
distinct. Every safety property and refinement of a passing run is proved, with one
assumption more for `GivenUpIsKept`. No invariant of the runs is inductive by itself; what each
needs is said here.

**`CronSchedulerProofs`.** `TypeCorrect` first. The safety properties are not inductive:
the claim's `WHERE` looks at the row alone, so what it guarantees about executions depends
on how `last_run_at` relates to every fence handed out so far. `IInv` says it: `Dates`
(nothing is dated in the future, an outcome is dated after its fence), `RowDates` (an
unlocked row is not due before its last outcome), `Past` (`last_run_at` is past every
fence whose outcome is known and never behind any), `Fences` (a live execution holds the
row or was overtaken), `Overtaken` (one that has not tried to record its outcome was
overtaken only after a lock timeout) and `Dues` (a due time claimed before stays in the
row only under a lock). Steps that leave the lock's columns alone are treated by one lemma
(`Quiet`, `Moves`); the claim and the outcome are the other two cases. From `IInv` follow
`LeaseCorrect`, `DueTimesCorrect`, `FencesCorrect`, `ManualCorrect`, the action property
`OutcomesInOrder` (outcomes reach the row in the order of their fences; no run checks it, the
refinement says the same), `CountsCorrect` (with the finiteness of `results`) and `Refinement`:
every step of the scheduler is a step of `FencedLease` or a stutter.

**`CreditMeteringProofs`.** `MeterInv` is the types, `NetSpend`, `LedgerFollows` and one
strengthening, that whoever is about to take asks for a positive amount (`Asking`). It
gives `NetSpendCorrect`, `LedgerCorrect` and `AllowanceRefinement`. `CallInv` adds, for a
call nobody raced, what each stage of it knows about the balance: there was room at its
check; a refused debit leaves a rest; the rest still fits when it is taken; a refusal for the period's
end means that the period is over, and it stays so. It gives `TypeCorrect` and
`FreeRidesAreRacesOrLate`. The theorems are about
`CreditMetering!Spec`, whose steps contain the meter's.

**`CronAdminProofs`.** `ActiveCorrect`: `AdminInv` adds to the types that a row the switch holds was
whole when it was read (`EditInv`) and that a completion is only ever recorded with a next
run (`OutcomeHasNext`); resuming an expression that never matches again writes nothing. `SwitchCorrect` is about the
saves that undo nothing: the lock they write is the row's. `LockInv` says why the rest of what they
write does no harm either: what the switch read has an earlier lock than the row, or the same one with
the counts that go with it (`SeenBehind`), and the next run it writes is the row's, none, or one after
now, while locks and outcomes are dated a unit ahead of the clock at most (`Recent`). The scheduler's
`IInv` and its count survive such a save (`SaveKeeps`), so what is proved of the scheduler holds for
as long as `undone` is false, with any number of workers, switches and faults. What an undone lock breaks is `OneWorkerPerTask` in section 6.

**`AlertDeliveriesProofs`.** A delivery's row does not say who is sending it, so `IInv` ties the two
together: a claim is numbered by the row's attempts, and the last one owns the row (`Owns`,
`OwnInv`), with the age of the claim equal to what the staleness check reads; an alert is nobody's
before its row is inserted (`RaiseInv`); a batch's rows wait under the batch's reason
(`BatchInv`); what may still be claimed counts against `MAX_ATTEMPTS` (`BudgetInv`, with `Slack`
for a live attempt that may fail and `Open` for a row without a sender); and whoever may still
send, sends the first message anyone will learn of (`SendInv`). Sweeps claim nothing, so each of these
speaks of all of them at once, and a batch that another sweep had in hand when it was read is in
`again`, to be counted in `doubled` if it goes out. The removal of the channel
suspends the ownership, hence the `chan.exists` in these. It gives `SenderCorrect`,
`RepeatCorrect`, `AttemptsCorrect` and, with a lemma per kind of step, `SentCorrect` (that a row
that went out stays so, `SentStays`; no run checks it, the outbox says more).

`OutboxCorrect` is the refinement. Two facts are needed that no run checks: whoever has the service's
word for an alert and is yet to record it is the only one, and holds a message not counted in
`unmarked` (`ReceiptInv`); and an alert somebody may still send, or fail for another try, is neither
recorded as gone out nor on its way to be, alone or in a batch (`LiveInv`). For the sweeps that overlap,
`DoubleInv`: an alert in a batch that is already recorded, or that a second batch repeats, has been
counted in `doubled`. Every kind of step is then mapped
alert by alert, since a summary or a digest moves many at once; deaths map to `Forget`, lapsed claims
to nothing.

**`QueueDispatchProofs`, `QueueJobsProofs`.** The dispatcher's part: every keyed job is dated in a
lifetime of its key that has begun (`Dated*`), two of one lifetime are excused by a race
(`Apart*`), a call past its read whose key is present has a rival (`Rivals`), and every mark is of
a job sent, about to be, or given up (`MarksCovered`). The consumer's part: what an invocation at
each place has behind it (`WorkInv`), where letters are (`LetterInv`), the number of chained jobs
before and after the parent's verdict, if the chain has a queue (`ChainInv`), and that an undisturbed letter has one retry
and one job at a time (`RedoInv`). `SavedCorrect` assumes `MaxAttempts <= PlatformMax`: the
processor attempts three times by default, the platform redelivers three times by default, so a
message is delivered four times; the repository does not set the platform's number, and a job
type registered with more attempts than that is dropped without its `onFailure`.

**`OrgAccessProofs`.** `OwnerRemains` is kept by the batch's predicate alone; the hierarchy needs that a
request past its check saw its caller as an owner (`OwnerChecked`, a history), and the cache
that a lookup in progress says what the roster says or was overtaken (`LateKnown`).
`OrganizationCorrect` is the refinement: a request's reads, checks and refusals are stutters, and its
batch is one step of `Organization`. What makes that true is the batch's predicate, which matches
the row only as it was read, so what the request computed from its read is computed from the row of
the moment; and that an update names only columns the request asked for. `GrantsCorrect`
(`GrantsGoWithRole`) is what the refinement says of the grants alone.

**`SessionStoreProofs`.** `Known` (records bear their token's time wherever they are held),
`Ending` (what ended a session is in KV, and a request of an ended session is on its way to find
it, in whichever order it reads), `Marked`, `Erasure` (nothing in progress can put back what a purge has
listed, but for `loose`) and `Showing` (a request's record shows what its version was raised for,
also in the hands of a rename). `ServedCorrect` adds `Serving`: a request that has only read what
denies decides on a record and a version of the same moment; one that read the record and the version
first may hold both while they age, and what it knows is that the record was current with *that*
version when it began; one that goes on to load does so after it began, and D1 is never behind
what was told. `SnapshotCorrect` (`LoadedReflects`) is what `Showing` says of the snapshots in KV.

**Only model-checked.** The liveness properties `DueIsServed` and `OwedIsSettled`: fairness and
`ENABLED` are out of the proof system's reach.

## 6. Where the code and its documentation disagree

Four are runs that find the violation, with the quoted line in `PROJECT.json`.

1. *The pause switch undoes a lock* (`OneWorkerPerTask`): `toggle()` saves the whole row.
2. *A call may be charged more than it used* (`NeverOvercharged`): what is left is read
   after the refusal, and a purchase fits in between.
3. *A job may be skipped as a duplicate of one that was never sent* (`SkippedWasSent`): the key is
   written before the send, and a failed send leaves it. What does hold is `SkipsAreCovered`.
4. *A sign-in's snapshot may be older than the version it claims* (`SnapshotReflects`): the context is
   loaded before the version is read. `getSession` reads them the other way round, and
   `ServedReflects` holds: only snapshots a sign-in made that way are served too old.

Four more can be seen by hand with the configurations named in section 3.

5. *A due time can be run twice* (`DueTimeRunOnce`; `packages/cron/README.md:175` says never): a handler that
   outlives the lock timeout. What does hold is `DueTimesApart`.
6. *The hourly cap is not a cap* (`CapRespected`): raises in flight do not count each other.
7. *A digest that never comes* (`DigestEnds`; `schema.ts:84`): after a switch to immediate mode.
8. *An overrun may cost nothing and leave credits* (`OverrunEmpties`): another debit fits
   between that read and the second debit.

Three behaviours disagree with no document, and the properties name them as what they except:

- Two sweeps that overlap send one batch twice, with no fault and both answers received (`doubled` in
  `NoNeedlessRepeat` and `Outbox`).
- A call still running when its period ends pays nothing, with nobody racing it: `worker/lib/ai.ts:317` asks
  again only after a shortage (`FreeOnlyIfRacedOrLate`).
- A chain without a queue is dropped with a warning while its parent is acked, in the application's own
  consumer always (`ChainIsSent`).

## 7. What is not modelled

`PROJECT.json` gives a reason for every component. Of the 2,382 files most are documents, pages, UI and
CRUD packages without behaviour of several actors, so the share of the repository's lines that the
modules translate is small and will stay so. In the modelled components:

- *Cron*: task creation and editing, package schedules kept outside the table, parsing beyond the
  next match.
- *Alerts*: the key cooldown, filters, retention, `SWEEP_BATCH`, test sends, the environment's email
  channel and more than one channel. An attempt is assumed to end before its claim counts as dead;
  email sends have no timeout that ensures it. A sweep is assumed to be over before a second midnight.
- *Credits*: pruning of the ledger and edits through generic CRUD; `embed` and `stream` (the same
  shape), key resolution, and the retry of a failed tenant key on the platform key, which asks no
  credit check.
- *Queue*: a letter or a message that the failure of a hook or a send lost is excused, not denied, by
  `GivenUpIsKept` (`hurt`) and `SkipsAreCovered` (`unsent`). Not modelled: delays, several chained jobs, adapters other than Cloudflare's, statistics.
- *Roster*: groups, personal organizations, cancelling an invite, the admin permission asked before the
  roster check.
- *Sessions*: cookies and signatures, the ways to sign in.
- *KV* answers with the latest value in every module. In reality another data centre may see an older
  one for up to a minute, which the comments of `auth-utils.ts` and `session-store.ts` grant; the
  properties about caches, keys and sessions hold up to that delay.

## 8. Plan

1. `PermissionCache` (`packages/rbac/src/cache.ts`): fills under a version read after the data, lost
   version increments; composed with `Roster`, whose changes invalidate it.
2. `RealtimeActor`: a reconnect against the close of the old socket.
3. `WebhookEndpoints`: counts lost and owner's edits undone by whole-row saves.
4. `AlertDeliveries`: the key cooldown, sends that outlive their claim, a second channel.
5. `CreditMetering`: streams, replies that cannot be read and the degraded retry as actions of their own.
6. A property on accepted manual runs of `CronScheduler`, which a run in progress swallows; the queue
   of `QueueJobs` in place of the one inside `CronScheduler`.
7. Proofs: an abstract specification of a job's life that `QueueJobs` implements, as `Outbox` is for a
   delivery; and the safety half of the two liveness properties, that a row owed or due always has
   somebody, or a time, that takes it further.

The hazards these are about are in `PROJECT.json` with a note in place of a property. Runs are kept
to one per question; a component's passing properties share one configuration, and the violation
runs of disagreements that get fixed become passing properties.
