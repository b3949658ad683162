# Verification of django-micboard

TLA+ specifications of the concurrent core of django-micboard, the TLC runs that check them on small
instances, and TLAPS proofs of what matters most. Paths below are relative to `src/micboard/` unless
they start with `docs/` or `tests/`.

Contents: [1 The system](#1-the-system) · [2 Modules](#2-modules-and-how-they-correspond-to-the-code) ·
[3 Runs](#3-runs) · [4 Fairness](#4-fairness) · [5 Proofs](#5-proofs) ·
[6 Disagreements found](#6-where-the-code-and-its-documentation-disagree) · [7 Limits](#7-what-is-not-modelled) ·
[8 Plan](#8-plan)

## 1 The system

Micboard watches wireless microphone receivers of several vendors. In production it is several
processes: web workers, Huey task workers and long-running realtime commands, over one PostgreSQL
database (READ COMMITTED) and one shared Redis cache, and it calls the vendors' API servers. There is
no coordinator: exclusion comes from row locks, advisory locks, running `DiscoveryJob` rows, and keys
set with `cache.add`.

| component | state it keeps | operations | what is hard |
|---|---|---|---|
| **Chassis lifecycle** (`model_lifecycle.py`, `services/core/hardware_lifecycle.py`, seven writers) | `WirelessChassis.status`, `is_online`, `ip` | realtime/poll upsert, offline pass, synchronization batch, import, refresh, admin form, admin buttons | instances read long before they are saved, three kinds of locks in two orders, a derived column |
| **Discovery reconciliation** (`services/sync/discovery_*`) | `DiscoveryJob` rows, the vendor's discovery list | claim, read sources, compare, add, remove, finalize | work outside any transaction, an hour's lease, half-applied vendor calls |
| **Discovery dispatch** (`discovery_trigger_service.py`, `tasks/sync/discovery.py`) | `on_commit` callbacks, two cache keys, the Huey queue | coalesce, enqueue, claim or retry | dropped duplicates that were none, keys that expire |
| **Queue, identity, approval, promotion** (`discovery_queue_service.py`, `services/deduplication/`, `discovery_approval_*.py`, `device_promotion_service.py`) | `DiscoveryQueue` rows; serial numbers, identifiers and addresses of chassis and chargers | enqueue, classify, approve, dismiss, synchronize, promote, edit a charger | many locks, conflicts between rows of a batch, decisions on entries read earlier |
| **Realtime supervisors** (`services/realtime/*subscription*`) | the token and the cursor in the cache, the subscriptions | acquire, select a window, rounds of turns, renew, stop | a lease renewed beside the work, rotation, deactivation, cancellation |
| **Connection rows** (`services/realtime/connection_service.py`, `health_service.py`) | `RealTimeConnection.status` and two times | connect, message, error, stop, sweep | saves of instances in memory against a sweep by primary key |
| **Alerts** (`services/monitoring/*alert*`) | `Alert` rows, four cursors in the cache, a budget per pass | scan, single check, page, deduplicate, insert, mail, acknowledge, resolve | overlapping passes, mail after the commit, fairness of nested pages |
| **Chargers** (`services/chargers/polling_service.py`) | a poll cycle and a snapshot in the cache | poll a page, continue, publish | a cycle over several polls in a volatile cache |
| **Broadcasts** (`services/notification/device_broadcast_service.py`) | a cursor in the cache | send a window in chunks, continue, complete | a snapshot over several invocations that overlap |
| **HTTP client** (`services/common/base/`) | circuit, failures, health | retry, open, half-open, close | attempts of one request that count one by one |
| **Settings** (`services/settings/`) | rows, versioned cache keys, definitions kept by each process | get, save, invalidate | invalidation inside the saving transaction |
| **Channels** (`services/core/hardware_sync.py`, `hardware_post_save_hooks.py`, `device_specs.py`, `rf_channel_service.py`, `device_update_service.py`) | `max_channels`, model, what the registry of specifications says of it, `RFChannel` rows, the unit on each | save of the chassis with its hook, reported transmitters, deletion by hand | a hook that deletes by one instance, a validation that believes another, exceptions swallowed inside the transaction |
| Units' data, regulatory data, assignments, multitenancy, audit, kiosk, vendor integrations, admin, API and commands | | | sequential or without state of their own |

How they interact: a poll upserts chassis (lifecycle), checks their alerts, and afterwards scans for
alerts and broadcasts; saving a chassis runs hooks that schedule a discovery request after the commit
(dispatch), whose task claims the manufacturer (reconciliation); reconciliations and synchronizations
write the vendor's list and the approval queue; approval, synchronization and promotion create and
update chassis and chargers. A supervisor's turn keeps the connection's row and delivers the vendor's
messages to the same upsert. Every call to a vendor goes through the HTTP client, and every component
reads the settings. Deactivating a manufacturer must stop all of it.

What makes each correct:

* *Lifecycle*: statuses move along the transition table whoever writes; retired is final; maintenance
  belongs to the operator; `is_online` agrees with the status; every writer ends.
* *Channels*: unless an operator interferes or the sources of the model disagree about a channel, no unit
  loses it; the channels end up as those the sources have room for.
* *Reconciliation*: one worker per manufacturer unless a job outlived its hour; verdicts are final; a
  reported success means the vendor's list is what was asked for.
* *Dispatch*: every committed change is read by a run that started after it, and the list converges.
* *Approval*: an address belongs to one chassis or charger, a serial number to one chassis of a
  manufacturer; what a review decided stays; no entry takes another device over; permissions hold when
  the batch is written; every transaction ends although its lock order differs from the others'.
* *Supervisors*: one group of subscriptions per manufacturer and transport; a lost token ends the run;
  every eligible device gets its turn; deactivation ends the run.
* *Connection rows*: no row claims a connection for ever that nobody hears.
* *Alerts*: no duplicates; what a user settled stays settled; no unit, assignment or recipient starves.
* *Chargers, broadcasts*: what is published is one whole inventory; a chassis listed all along is in one
  of the batches of its snapshot; after failures publication resumes.
* *HTTP client, settings*: a healthy client refuses nothing; an open circuit recovers; an outdated
  answer is explained by an edit that is still on its way.

## 2 Modules and how they correspond to the code

```
ExpiringLease                    what a claim promises
   ^             ^
   | refines     | refines
DiscoveryReconcile    SubscriptionSupervisor    DiscoveryApproval    AlertFanout
   ^ EXTENDS
DiscoveryPipeline

MCDeviceServices     =  ChassisLifecycle + ChassisChannels + RealtimeConnections + ChargerCycle + VendorClient
MCDiscoveryServices  =  DiscoveryReconcile + SettingsCache + SnapshotBroadcast + AlertFanout
```

`MC<module>.tla` are the instances for TLC and `*_proofs.tla` the theorems (section 5). The two compositions
hold services that share no cache key and, of the rows, only the chassis; what its lifecycle does to its
channels is one more save, `SavesTransition`. Interleaving them would multiply their states and show
nothing, so a rigid variable `service` chooses the one that runs in a behaviour, and the others keep one initial state; each property is checked of the behaviours of its own service. Definitions named
`Bug...` are plausible mistakes in the definition that follows them; no specification uses them. Every
property of a passing run is violated when one of them replaces the definition it mutates.

**ExpiringLease** is the abstract specification: an owner is replaced only after its lease expired or
it released it, and nobody acquires twice. Expiry may take the record of the owner away (a cache entry)
or leave it (a database row).

**ChassisLifecycle** is one chassis row and all paths that write its status. `row` is the committed
row, `draft` the uncommitted version of the transaction that holds `rowLock`; `addressLock` is
`pg_advisory_xact_lock` on an address, `identityLock` the sentinel row of the identity mutations.
`inst`, `fields` and `old` are what a writer remembers: its model instance, the columns its save
writes, and the status the `pre_save` hook read. `Begin(a)` are the seven ways to start;
`TransitionAccepted/Refused` are `transition_device`, `PreSave/PreSaveRejected` the hook, `Update` the
statement with the derived column, `Saved` what each writer does next (`Plans`), including which of
them commit in between. Crashes and deadlock aborts roll back. `MCChassisLifecycle` adds the history
variable `alone`: has only one writer at a time been under way so far?

**ChassisChannels** is the other half of a chassis: `capacity` is its `max_channels`, `model` its model,
`channels` the numbers that have a row, `unitsOn` how many units are assigned to each. `savedBy` is the
transaction that holds the chassis row. Models are told apart by what the registry of specifications says
of them: a number of channels, or `Unregistered`. Every save asks it (`Specified` is
`apply_specs_to_chassis`): the capacity of the instance becomes the registry's for the model the instance
names, and stays if the registry does not have it. An update names the type the vendor reports, a batch
the payload's model or the one in memory, and `named` is the set of these names. Both write the model and
not the capacity, a transition of the status writes neither, and only the form writes both, so instance
and row may differ after any save. `SavesUpdate`, `SavesTransition`, `SavesBatch` and `SavesForm` are the
kinds of saves, of an instance read under the lock, read long before, and edited. `Fill` is the hook at
the end of the save. It creates and deletes by the instance; what it creates is validated against the
row (`Persists`), and the first refusal ends it before it deletes anything. `FillCollides` is the
violation of the unique index that the hook swallows and that takes the save with it. After an upsert an
update commits statement by statement: `ReportedChannel`, which validates against its instance, then
`Unit` and `InsertsUnit`. A refused write gives up the rest of the device (`DeviceFails`). Abstractions:
the registry does not change, nor does `wmas_capable`; operators delete channels but neither add them nor
reassign units; what a unit refuses (its status table) is one more reason for `DeviceFails`.

**DiscoveryReconcile** is the claimed work of one manufacturer. `jobs` and `lapsed` are its
`DiscoveryJob` rows; `remote` is the vendor's list. Each worker walks `check, read, scan, compare,
get, put, prune, poll, finalize`, one action for each query or vendor call, since others may act
between any two of them. `Faults` chooses what may go wrong: a source larger than its page, a list
that cannot be read, vendor calls that fail before or after they were applied, exceptions, crashes,
jobs older than an hour; *swallowed* faults are errors the vendor client turns into an empty list.

**DiscoveryPipeline** extends it with everything between a committed change and the claim: callbacks,
the 5-second dispatch key of each request shape, enqueueing and its failure, tasks, the 15-second busy
retry and its 10-second key. Keys and delays have no clocks; the only relation between their lengths
that the code relies on, 15 > 10, is the guard of `RetryDue`. `unread` is a history variable: sources
changed since a claimed run last read them. `rough` is chosen once: a rough behaviour loses requests
and has changes closer together than the dispatch window, a calm one has neither.

**DiscoveryApproval** is the review queue and the identity of the hardware. `rows` are the committed
chassis and chargers, `queue` the committed entries, `draft` what a transaction has written and not
committed. Six kinds of transactions run: the approval of a batch, the synchronization of a
manufacturer, the upsert of a realtime message or poll, the promotion of a device, the edit of a
charger, the upsert of a queue entry. Each asks for its locks one at a time from `todo`, in the order
of the code, and `work` is what it remembers. `Proceed` holds its reads, checks and writes by `stage`.
A unique index is modelled as a lock on its key: an insertion waits for the uncommitted one of the
same key. `DeadlockVictim` is PostgreSQL's. `Beginnings` are installations as they may stand: chassis
and chargers at different addresses, pending entries that may contradict them. Abstractions: MAC
addresses, model capabilities and batch limits are omitted; the queries of an identity index are one
read, as are those of a conflict check; "rejected" and "duplicate" are one state, dismissed; a
manufacturer has one synchronization at a time; no chassis is deleted, and retirement is a flag.
`Chassis` bounds the number of rows: a new row takes a free key (`FreeKeys`), one for the first entry
of each new identity of a batch (`Leaders`), and waits while there are too few.

**RealtimeConnections** is one row, the turns that save it and the sweep. A turn saves every column of
its `instance` or the columns it names; the sweep selects ids and updates them by primary key, as two
pairs of steps. Times are told apart by the sweep's thresholds only (`Moments`). Loading the instance
and marking it connecting are one call; counters and the rows per sweep are omitted.

**ChargerCycle** is `poll_chargers`: read the continuation, fetch the inventory (`Gather`), ask the
stations of one page one after another (`Ask`; `Passed` is the body of the loop), then publish or leave a
continuation. `poll` is what an invocation holds, `continuation` and `snapshot` the cache. A continuation
belongs to an inventory (`of`, the fingerprint) and starts over when that changed; a cycle in which a
station failed publishes nothing. An inventory may name a device twice. Limits are constant between
pages. The fingerprint is over identities only: data of the first page may be as old as the
continuation's time to live allows.

**SnapshotBroadcast** is the window, the chunks and the cursor of `device_broadcast_service.py`; `owed`
is a history variable. Tenants and groups are left out: in a multi-tenant deployment a tenant without
rows in the last chunk is not told that its inventory is complete.

**SettingsCache** is one setting in the shared cache: the version of its key, the entry under it, the
definition each process keeps, the settings page (commit, then replace the version) and the admin
(replace, then commit). `overtaken` is a history variable. Entries under a version that was replaced are
forgotten, since nobody can reach them; eviction of the version keys is not modelled.

**VendorClient** is `make_request` with its retries, the circuit breaker and the health flag. A plugin
has a client of its own and makes one request after another.

**SubscriptionSupervisor** is the SSE and the WebSocket supervisor, which share
`subscription_supervisor.py`. A run's `stage` is its main task, `beat` its heartbeat (get, touch, get
as three cache operations), `turn` what its workers do with each device. `Select`/`Advance` read and
write the rotation cursor; `Take/Open/Close/RoundEnds` are a bounded round; `Stops` is the cancellation
that closes every subscription. `lapsed` is a history variable: runs that outlived their token.

**AlertFanout** is the scan after a poll, the single checks of the poll itself, and the users.
`Turn` is a page behind a cursor with wrap-around, used for units, assignments and (assignment, user)
pairs, whose orders are the relations `KeyOrder` and `PairOrder`; `Lock, Dedup, Create` are one transaction under the channel's row lock, `Revalidate, MailEnds,
MailFails` the mail after it. `spent` and `cut` are the budget. An alert older than the interval is
forgotten unless it is still being mailed: no step of a pass reads it. Conditions of a unit do not
change while a run is checked (`Readings`), and the battery's two thresholds are one condition.

Abstractions throughout: strings, telemetry, log lines and metrics are left out; identifiers are model
values or small numbers where their order matters.

## 3 Runs

| run | question | instance | distinct states |
|---|---|---|---|
| `device_services` | no interleaving of writers leaves the table, one writer at a time keeps maintenance and `is_online`, all writers end; units keep the channels nobody disputes, and the channels all sources have room for stay; silent connections are swept; charger snapshots are whole and return; the circuit recovers | 2 writers, all 7 tasks, one address; 2 writers, capacities 1 and 2, a registered and an unregistered name, number 2, 1 edit, 1 death; 2 turns; 2 polls, 3 inventories, pages of 2, at most 2 stations, 3 devices; thresholds 2 and 3, 2 retries | 153 250 |
| `lifecycle_stale_batch` | *violation*: the batch writes `is_online` from a stale status | 2 writers, 3 tasks | stops at the violation |
| `discovery_services` | claims exclude and are leases; verdicts stay; success means reconciled; outdated settings have a cause; the batches of a snapshot join; alerts are unique and settlements last | 2 workers, 2 jobs, 1 address, all changes, all reported faults; 2 readers, 2 edits; 2 casts, 3 chassis, windows of 1, 3 snapshots; 1 scan, 1 single check, 2 units, budget 1, 1 trouble | 739 264 |
| `discovery_swallowed` | *violation*: success although the list was not read | 2 workers, 2 jobs, 2 addresses | stops at the violation |
| `pipeline_converges` | a retry key stands for a retry; in calm behaviours every change is read and the list converges | 2 workers, 2 jobs, 2 requests, crashes, lapses, all trouble, rough and calm | 159 488 |
| `pipeline_retry_shapes` | *violation*: a scan request dropped for a waiting inventory request | 2 workers, 3 jobs, 3 requests | stops at the violation |
| `approval` | addresses and serial numbers are exclusive; approvals do not deadlock; reviews stay; no takeover; permissions hold; every transaction ends | 2 transactions of 6 kinds, 3 chassis keys, 1 charger, 2 entries, 2 manufacturers, 3 addresses, 7 payloads, 3 inventories, 3 beginnings | 209 630 |
| `approval_promotion` | *violation*: a promotion duplicates a serial number | the same, promotions only | stops at the violation |
| `approval_requeue` | *violation*: a synchronization clears a reviewer | the same, approvals and queue upserts | stops at the violation |
| `supervisor` | exclusion, lease, lost tokens, deactivation, rotation | 2 runs, 2 devices, windows of 1 | 124 896 |
| `alerts_starved` | *violation*: nested pages that move in step | 1 unit, 2 assignments, 2 users, pages of 1 | stops at the violation |
| `channels_overcommit` | *violation*: the channel of a WMAS chassis deleted under its unit | 1 writer, capacity 1, number 2 | stops at the violation |

Why these bounds are enough to be interesting:

* *Lifecycle.* Every lock cycle has two members: nobody waits for a second address. Two writers with
  all pairs of tasks give every cycle and every stale instance. There is one row: writers of
  different rows meet only at the locks they share, and those never make a status wrong.
* *Channels.* Two writers give a batch or a form against an update, and two updates. The chassis goes by
  two names (`NamedModels`), of which the registry has one, with one channel or two, and the row has one
  or two: registry and row agree, or either has more. Number 2 is within one capacity and beyond the
  other, 1 is a slot of both. The edit is a capacity or model changed, or a channel deleted, while a batch
  still believes what was there before.
* *Connections.* Turns of one chassis follow each other and overlap when a supervisor lost its token:
  two are enough for an instance that is saved over what the other turn or the sweep wrote.
* *Chargers.* Three inventories of two pages: one in order, one of the same length with a station named
  twice, and one above the hard limit; the first page ends between two stations. Two polls give a continuation overwritten by a poll that read an older one.
* *Client.* Two retries against thresholds of two and three: a request that opens the circuit by
  itself, one that closes it again, and a health flag with a threshold of its own.
* *Reconciliation.* Two workers and two jobs give the take-over of a lapsed job whose worker comes back;
  one address gives every difference of two lists element by element, two give a removal beside an
  addition. Jobs are never reused, so the number of jobs bounds the claims.
* *Settings.* Two readers and two edits: one reader holds a definition or a version while the other
  fills the entry. *Broadcasts.* Three chassis behind windows of one make a snapshot of three
  invocations; a third snapshot lets two overlap while the cursor names another.
* *Pipeline.* `MaxRequests` bounds changes, operators' runs and sweeps together. Two give a change
  against a competing run; the counterexample of `pipeline_retry_shapes` needs three.
* *Approval.* Two transactions of every pair of kinds give every two-member lock cycle and every stale
  decision. The payloads are chosen against each other: one device at two addresses, a second one
  with and without an identifier, one under the identifier of another with its own serial number, a
  charger at an address of theirs, and a device of another manufacturer with the same serial number.
  `MaxTransactions` is 2: transactions of a behaviour all may overlap, and what is committed before them
  is the choice of `Beginnings`.
* *Supervisor.* Two runs compete for one token, two devices behind windows of one make the rotation
  wrap. `MaxTrouble` bounds the cache's errors, `ExpireEarly` is bounded by the number of runs.
* *Alerts.* Two passes give the race of search and insertion; `Copies` leaves room for every alert that
  still matters at once; `MaxTrouble` bounds errors, settlements and reassignments together.

No run uses a state constraint; bounds are guards. `CHECK_DEADLOCK FALSE` is set where the system may
stop: jobs, requests, transactions and runs are used up, or all wait for the operator; in the
compositions only one service moves. Two writers or transactions that wait for each other for ever
violate `EveryWriterEnds` or `EveryTransactionEnds`. Symmetry is used where no liveness is checked.

What the properties allow on purpose:

* `ExclusiveWork`/`ExclusiveGroups` allow overlap with a job or a token that lapsed: no fencing token
  protects the vendor's list or the subscriptions from a worker that outlived its lease.
* `MaintenanceKeptAlone`/`OnlineMatchesAlone` speak of behaviours with one writer at a time. With two,
  TLC finds the stale instances of disagreement 1 below.
* `SettledStays` allows one overwrite: a failing mail writes `failed` over an alert that a user
  acknowledged or resolved while it was under way.
* `UnitsKeepChannels` speaks of channels that all sources of the model have room for, or none
  (`Undisputed`): of the others see the end of section 6. It also speaks of behaviours before the first
  edit: a batch that began before one still deletes what lies beyond the old capacity. `ChannelsFillUp`
  promises the channels within all believed capacities, and none beyond all of them if no source exceeds
  the row, since a hook that stops at the row's limit deletes nothing. It allows a save that collides with
  an update's channel to be lost and says that a later one repairs it. Where row and registry agree on
  every name, the two say what one expects: units keep their channels, and the channels become exactly
  those of the capacity. Both except WMAS chassis (disagreement 7).
* `SilentRowsAreSwept` exempts the status `connecting`: a turn that is cancelled before its first message
  leaves a row that no sweep matches. The opposite error is possible as well: a swept row stays
  `disconnected` although its messages keep coming, until the next turn.
* `SerialsUnique` exempts chassis that a promotion created (disagreement 5).
* `StaleHasCause` allows the two causes the code has: the settings page has committed and not yet replaced
  the version, or the admin replaced it inside a transaction that committed later. An outdated
  definition of the second kind can stay for ever, since definitions do not expire; slow readers alone
  leave nothing behind. `docs/guides/settings-quick-reference.md:200` promises that admin changes are
  instant.
* `EveryChangeRead` speaks of calm behaviours. In rough ones TLC shows that a change may be coalesced
  into a dispatch whose task has already read the sources, which is the documented purpose of the
  window, and that a lost request is lost; both are recorded as hazards. It is satisfied by
  deactivation: activation schedules an inventory reconciliation again, but not the scan that a change
  of scan sources meanwhile had asked for.

## 4 Fairness

* *Lifecycle*: strong fairness of each writer's steps, since the database queues lock requests in
  order and a waiter's lock becomes free again and again; weak fairness of deadlock detection. New
  work and crashes are not assumed to come or to stay away.
* *Channels*: weak fairness of an update's next step and of the next update, since polls and supervisors
  update a chassis for ever; strong fairness of a batch that waits for the row.
* *Connections*: weak fairness of the sweep, which the deployment schedules, and of the passing of time;
  nothing of the turns. *Chargers*: weak fairness of a poll's steps: the host schedules polls
  (`docs/quickstart.md:235`, `:251`) and one that began goes on. *Client*: weak fairness of requests and
  of the passing of the recovery time.
* *Pipeline*: weak fairness of callbacks, queue, expiry of keys, due retries, live workers and the
  passing of the hour.
* *Approval*: weak fairness of some transaction's next step or of deadlock detection: the transactions
  that have begun are finitely many, and a step is disabled only by a lock somebody holds.
* *Supervisor*: weak fairness of a run's main task and of its heartbeat, both tasks of one event loop,
  and of the token's expiry.
* *Alerts* (only `alerts_starved` needs any): weak fairness of scans, which the scheduler enqueues for
  ever, and of a pass's steps; strong fairness of `Lock`, since PostgreSQL queues requests for a row
  lock.

No fairness is assumed of faults, users or operators.

## 5 Proofs

All theorems hold for every value of the constants that satisfies the named assumptions. Those say what
kind of things the constants are (numbers, finite sets, disjoint keys, sequences); a few say more:

* `BeginningsAssumption` (approval): an installation starts with addresses that are exclusive and
  serial numbers that are unique.
* `PayloadsAssumption`, `BlankAssumption` (approval): a synchronization stores devices of one manufacturer,
  each under an identifier that is not blank, as the plugins make them.
* `CastsAssumption` (broadcast): there are more snapshots than invocations, since their identifiers are
  drawn from a space in which they do not meet.
* `TablesAssumption` (alerts): units, assignments and users are finite, as tables are.
* `~Moves`, where a theorem says so: no payload or form changes the address of the chassis. With `Moves`
  the statements are false, and TLC shows it.

| module | theorem | says |
|---|---|---|
| `ChassisLifecycle_proofs` | `TypeCorrect` | `TypeOK`; no pending transition is taken from an empty list |
| | `RetirementIsFinal` | `RetiredIsTerminal`, if `~Moves` |
| | `ValidationIsCurrent` | `ValidatedAgainstRow`, if `~Moves` |
| | `CommitsFollowTable` | `StatusFollowsTable`, if `~Moves` |
| | `LockedWritersKeepOnline` | `OnlineMatchesStatus`, if only the upsert, the offline pass and the refresh write |
| | `OnlineMatchesOneByOne` | `OnlineMatchesAlone`, for finitely many writers |
| | `MaintenanceKeptOneByOne` | `MaintenanceKeptAlone`, for finitely many writers and `~Moves` |
| `DiscoveryJobs_proofs` | `TypeCorrect` | `TypeOK` |
| (`DiscoveryReconcile`, | `WorkIsExclusive` | `ExclusiveWork` |
| `DiscoveryPipeline`) | `VerdictsStay` | `VerdictFinal` |
| | `ClaimsAreLeases` | the jobs implement `ExpiringLease` |
| | `SuccessIsReconciled` | `SuccessMeansReconciled`, if the vendor client hides no error |
| | `PipelineReconciles` | the pipeline implements `DiscoveryReconcile` |
| | `PipelineWorkIsExclusive` | `ExclusiveWork` of the pipeline |
| | `RetryKeyStands` | `RetryKeyMeansRetry` |
| | `PipelineTypes` | `PipelineTypeOK` |
| | `ChangesAreCarried` | in a calm behaviour a change that no run has read is on its way to one, if no run ends with an error |
| | `ScanChangesAreCarried` | the same of the scan sources, if nothing else changes |
| `SubscriptionSupervisor_proofs` | `TypeCorrect` | `TypeOK` |
| | `GroupsExclude` | `ExclusiveGroups` |
| | `TokensAreLeases` | the token implements `ExpiringLease` |
| | `RotationNears` | `WindowsRotate`: a window selects a device or brings it nearer by a whole window |
| | `RunsWithinBounds` | `WithinBounds`: turns within a window, workers within the concurrency |
| `AlertFanout_proofs` | `AlertsAreUnique` | `NoDuplicates` |
| | `SettlementLasts` | `SettledStays` |
| | `AlertTypes` | `AlertsTypeOK`, with the budget of every pass |
| | `AlertsAreWarranted` | `Warranted`: every alert has its group, its assignment and its condition |
| | `PagesRotate` | a page contains a row or brings it nearer by the length of the page |
| `DiscoveryApproval_proofs` | `AddressesStayExclusive` | `AddressesExclusive` |
| | `ReviewsAreFinal` | `ReviewIsFinal` |
| `DiscoveryIdentity_proofs` | `ApprovalTypesHold` | `TypeOK` |
| (`DiscoveryApproval`) | `SerialsStayUnique` | `SerialsUnique` |
| | `NobodyTakesOver` | `NoTakeover` |
| | `PermissionsLast` | `PermissionsHold` |
| | `ApprovalsGoOn` | `ApprovalsNeverDeadlock` |
| `DeviceServices_proofs` | `ChannelsTypeCorrect` | `ChannelsTypeOK` |
| (`ChassisChannels`, | `UnitsStayAssigned` | `UnitsKeepChannels` |
| `VendorClient`, | `ClientTypeCorrect` | `ClientTypeOK` |
| `ChargerCycle`, | `HealthAgreesWithCircuit` | `HealthyMeansClosed` |
| `RealtimeConnections`) | `ChargersTypeCorrect` | `ChargerTypeOK` |
| | `SnapshotsAreWhole` | `PublishedWhole` |
| | `DevicesTypeCorrect` | `DevicesTypeOK` of all five services |
| | `DevicesApart` | the composition implements each of the five |
| | `DevicesAreSafe` | the safety properties of `device_services` of the composition, if `~Moves` and writers are finitely many |
| `DiscoveryServices_proofs` | `SettingsTypeCorrect` | `SettingsTypeOK` |
| (`SettingsCache`, | `OutdatedHasCause` | `StaleHasCause` |
| `SnapshotBroadcast`) | `CompleteSnapshotsOweNothing` | `SnapshotsJoin` |
| | `BroadcastTypeCorrect` | `BroadcastTypeOK` |
| | `ServicesApart` | the composition implements each of the four |
| | `DiscoveryTypeCorrect` | `DiscoveryTypeOK` |
| | `DiscoveryIsSafe` | the properties of `discovery_services` of the composition |

The arguments:

* **Retirement.** `RetiredIsTerminal`, a special case of the table that the runs check, is not inductive: a stale instance could write its status over
  the retirement. `SerialInv` says why it cannot while nobody moves the chassis: every saver holds the
  one address of the row (`SaverHoldsAddress`), so does whoever has an uncommitted status
  (`WriterHoldsAddress`), therefore the status a save was validated against is still the one it
  replaces (`ValidatedNow`), and an uncommitted version of a retired row is retired (`RetiredDraft`).
  With `Moves = TRUE` two savers lock different addresses and TLC finds a resurrection.
* **The table.** A commit may hide a transition: an upsert moves a discovered chassis to provisioning and
  to online in one transaction. `TableInv` adds to `SerialInv` what a writer has still to do (`ShapeOK`)
  and how its uncommitted status relates to the row's (`ChainOK`): equal, one transition on, or
  `Halfway`, provisioning with online still to come. The last is why the row steps at most over one
  status.
* **is_online.** `LockedInv`: a writer that locks the row before it reads it saves a copy of the row
  (`CopyIsCurrent`), so the column derived from its status is the right one (`DerivedIsCurrent`). The
  writers left out are those whose instances may be stale (see 6).
* **One writer at a time.** `AloneInv`: with nobody else at work what the writer reads is the row or its own
  draft, so the instance it holds differs from it only in what it is about to write (`Sound`); a writer that must keep
  maintenance either found the chassis in it and has no transition to make, or did not and makes none to
  it (`Keeps`). It holds of the behaviours of `WatchedSpec` while `alone` does. That a second writer would
  be noticed needs a finite set of writers: `alone` counts them.
* **Claims.** `ClaimInv`: a worker inside has a job of its own, which runs or has lapsed; at most one job
  runs. Two workers inside jobs that both still run are therefore impossible.
* **Lease.** The refinement maps the owner to the running job (`Owner`, a CHOOSE that is unique by
  `ClaimInv`), validity to "runs and has not lapsed". Each action of the model is an `Acquire`, an
  `Expire`, a `Release` or a stutter; the supervisor's token needs `TokenInv` alike.
* **Success.** `TimelyInv`: while nothing has lapsed the worker inside is alone (`Alone`), and what it has
  left to do turns the vendor's list into the eligible candidates, or it has recorded an error
  (`LeftToDo`, one conjunct for each stage).
* **Pipeline.** Every step of the pipeline is a step of `DiscoveryReconcile` or leaves its variables
  alone, so all theorems about the jobs hold in the pipeline. `RequestInv`: a request is in one
  place, so all `Places` together hold no more than were made, and a young retry key has its task
  among the delayed ones.
* **Carried changes.** What `EveryChangeRead` needs besides fairness. `CarryInv`: in a calm behaviour no
  callback finds the dispatch key of its shape (`Uncoalesced`), and an unread change of the inventory has a
  callback, a dispatch, a task or a delayed task of any shape, or a worker that has not read it yet. A
  request leaves its place only for the next one or for a worker; a busy task that ends because of the
  retry key leaves the delayed task behind the key (`RequestInv`). `ScanInv` is the same for one shape
  only. That is no accident: where shapes mix the statement is false (disagreement 3), so the second
  theorem assumes that only scan sources change.
* **Addresses.** The save hook compares the address with the rows its transaction sees, so an uncommitted
  row of another transaction may escape it. `AddressInv` says what closes the gap: a transaction holds or
  is going to take the lock of every address it writes (`WorkOK`, by stage), and an uncommitted chassis
  (`DraftOK`) stands under a held address lock and shares its address with no committed charger; a
  charger is written only under the same lock. That locks are taken in ascending order matters only for
  deadlocks; here it matters that none is forgotten, which is why sorted enumerations are proved to be
  complete. Assumed: `BeginningsAssumption`, the installation starts exclusive.
* **Reviews.** The same invariant says that the entries of a batch past their locks are locked and pending
  (`ApprovalOK`), so neither a second approval nor a dismissal decides them; the upsert of the queue never
  writes the state of an entry it finds (`QueueSteps`, `DecisionsStay`).
* **Serial numbers.** No index says that they are unique. `IdentityInv`: whoever drafts a chassis with a
  serial number holds the lock of its manufacturer (`DraftedOK`), so no two transactions do at once, and
  knows every chassis of the manufacturer that bears it: an approval has it among the hardware it locked
  (`CoverOK`), a synchronization has it in its index (`IndexOK`), and what either concluded from that
  (`HardwareOK`, `VerdictOK`) still holds when it writes. That two entries of a batch get different keys for
  different identities is a lemma on the k-th of a set of numbers.
* **Takeovers and permissions.** From the same invariant: a draft of an existing chassis keeps what
  identifies it, and the plan an approval carries out was checked against the locked rows
  (`Acceptable`), not against the preflight's.
* **Deadlocks of approvals.** `OrderInv`: the locks have levels (entries, manufacturers, addresses, chassis,
  chargers, identities), each stage of an approval asks for one level (`Rung`), holds nothing above it, and of
  that level only what is less than what it asks for; who asks for an identity key holds the manufacturer it
  belongs to. In a circle of approvals all would wait at one level, and the one that waits for the greatest
  key would be held up by one that waits for a greater one.
* **Supervisor's types.** The cursor goes on after the last device of the window: a finite set of numbers
  that is not empty has a largest member, from the well-foundedness of < on the naturals.
* **Rotation.** `EveryDeviceServed` is liveness; the measure behind it is an action property. The devices
  between a cursor and a device (`Sooner`) are those a window has to pass. Eligible devices in the order
  behind the cursor have ranks, a window is those of rank below its size (`WindowFacts`), so whoever is left out
  loses exactly `MaxDevices` predecessors (`LeftOutMovesUp`), whatever other runs did to the cursor. A failed
  read of the cursor is exempt, since the window then begins at the front.
* **Pages of alerts.** `Turn`, `PageAssignments` and `PageRecipients` are stated with the rank of a row, the
  number of rows before it in the order behind the cursor, and not with a loop over rows, which would need
  induction over data. `PagesRotate` says for numbers and for pairs what `RotationNears` says for devices. It
  speaks of one cursor and one set of rows. Where each check has a page of rows of its own it gives no
  guarantee, which is disagreement 4.
* **Alert types.** `TInv`: a pass has a unit, a check and a candidate when its step needs one; the budget it
  has spent is within the limits at each place where it is compared, and what it has queued is a candidate
  of its unit. `Warranted` follows from the last part.
* **Compositions.** A step of a composition is a step of the chosen service and leaves the variables
  of the others alone, so its behaviours are behaviours of each specification (`ServicesApart`,
  `DevicesApart`), and the theorems about the parts hold of what the runs check.
* **Alerts.** `Inv`: a pass at its search or insertion holds its channel's lock (`Held`), at the
  insertion there is still nothing pending for its key (`Fresh`), and an alert is mailed by the pass
  that inserted it alone (`Mailing`); `NoDuplicates` is preserved by `Create` because of `Fresh`.
* **Client.** The health flag falls with every failed attempt and rises only with an answer, which also
  closes the circuit; what the proof shows is that no order of retries, misread answers and refusals
  separates the two.
* **Channels.** `ChannelsSafe`: until an operator interferes the row's model is one of those the chassis
  is named by, every writer believes a capacity that some source gives (`Informed`), and the channels of a
  chassis that may not exceed its slots, with those a hook has listed, are within the largest of these
  capacities (`WithinRoom`). A channel the hook deletes is therefore within one and beyond another. That
  the set of capacities stays the same is why the row has to be among the sources. That a channel never
  has more units than writers (`UnitsBounded`) is what bounds `unitsOn`.
* **Chargers.** `ChargersInv`: every cursor, in the cache or in a poll, has the first stations of the
  devices it has passed in the inventory it names (`Gathers`), or a station was silent. `PassedGathers` is
  the step of the loop, so the argument is an induction over the polls' steps and not over the sequence.
  A poll publishes at the end of its inventory; a continuation of another inventory is not followed.
* **Broadcasts.** `JoinInv`: what a snapshot still owes is among the rows an invocation holds or behind the
  identifier it will leave in the cursor (`CastOK`), and what it owes whoever goes on lies behind the
  cursor in the cache (`ResumeOK`). The lemmas about `First` say that a window of a finite set of numbers is closed
  downwards.
* **Settings.** `StaleInv`: the committed edits are ordered (`Ordered`), and an entry, a known definition
  and what a reader on its way holds are each current, under a version that was replaced, or outdated for
  one of the two causes (`EntryOK`, `KnownOK`, `ReaderOK`).

Checked by TLC only: all liveness (`EveryWriterEnds`, `EveryTransactionEnds`, `EveryChangeRead`,
`Converges`, `LostTokenEnds`, `DeactivationEnds`, `EveryDeviceServed`, `SilentRowsAreSwept`,
`PolledSnapshotReturns`, `CircuitRecovers`, `ChannelsFillUp`), since the prover handles no fairness with
ENABLED. Of three of them the safety part is proved: what is unread is on its way
(`ChangesAreCarried`), and rotations approach whoever waits (`RotationNears`, `PagesRotate`). Every
invariant and every action property of a passing run is a theorem. No module declares a RECURSIVE
operator, and none that is reasoned about uses a fold over data.

## 6 Where the code and its documentation disagree

Each is a run whose property must be violated.

1. `lifecycle_stale_batch`: the synchronization saves metadata on an instance of its identity index. If
   the chassis went offline since, the hook compares the old status with the row, takes it for a
   change and writes `is_online` for a status it does not save: the row ends offline and online at once.
   `tests/test_lifecycle_hooks.py:358` expects the two to agree. The admin form does the same
   with a page loaded earlier.
2. `discovery_swallowed`: the Shure client answers `[]` for a failed read
   (`integrations/shure/discovery_client.py:98`); the reconciliation takes the list for completely
   read, removes nothing and reports success, against `docs/plugin-development.md:192` and
   `tests/services/sync/test_discovery_service.py:161`.
3. `pipeline_retry_shapes`: the key of the busy retry names the manufacturer only
   (`tasks/sync/discovery.py:41`), so a scan task that finds it busy ends because an inventory task
   waits for its retry; the scan is not done until the next change.
4. `alerts_starved`: the recipients' cursor is kept per unit and scope over pairs, but each check asks
   only for its own page of assignments. When both limits cut, the two cursors move in step and some
   recipients are never reached, against `docs/configuration.md:42`.
5. `approval_promotion`: a promotion that recognises a device at a new address (`is_moved`) treats it
   like a new one (`services/sync/device_promotion_service.py:137`) and creates a second chassis with
   its serial number; `docs/integration/discovery-workflow.md:97` says the address is updated.
6. `approval_requeue`: an upsert of the queue decides by the status it read before the classification
   and clears the reviewer afterwards (`services/sync/discovery_queue_service.py:198`), although an
   approval imported or rejected the entry in between;
   `tests/services/sync/test_discovery_queue_service.py:314` and `:340` expect a rediscovery to preserve
   the reviewer.
7. `channels_overcommit`: the validation lets a WMAS chassis have channels beyond `max_channels`, as
   `tests/services/hardware/test_rf_channel_service.py:185` says; the hook of the next save
   (`services/core/hardware_sync.py:65`) does not look at `wmas_capable` and deletes them, which takes the
   unit off its channel. The next update creates the channel and another unit.

Other behaviour TLC shows with other constants, recorded as hazards:

* `Moves = TRUE`: a save that carries another address does not exclude the others and may write over a
  committed retirement; a synchronization that carries a new address also takes a chassis out of
  maintenance, which it otherwise leaves alone.
* A manufacturer deactivated while a reconciliation runs still gets its vendor calls: activation is read
  once, after the claim.
* With two offline units with low batteries and a budget of one delivery, the alternation of the checks
  and the rotation of the units move in step as well: each unit only ever gets one of its two checks.
* Two updates that overlap both find no unit on a channel and both insert one; every later update of the
  device then fails, because it looks for one.
* Sources that disagree about a chassis flap its channels without any operator. A row with 8 channels
  that is polled under a model the registry gives 4 loses channels 5 to 8, with their frequencies, and the
  units on them; a batch whose payload names a registered model and polls that report a type the registry
  does not have delete and create the channels between the two capacities in turn. In the other
  direction, where the registry gives more than the row has, the hook of every save creates what the row
  has room for, is refused at the next channel and deletes nothing, while an update creates the channel
  it reports beyond the row.
* A connection row left `connecting` by a cancelled turn stays so, and a swept row of a working connection
  stays `disconnected` until its next turn.

## 7 What is not modelled

`PROJECT.json` lists every part. The modelled components are partial in this sense:

* *Lifecycle*: uptime minutes and audit rows; creation (it is the initial state here, and part of
  `DiscoveryApproval`) and deletion.
* *Channels*: what units store, their statuses and frequencies, resource states, admin assignment of units.
* *Reconciliation*: the candidate cache, the CIDR and FQDN rows a synchronization adds, the rotation of
  sources larger than a page (a page is any part of the source, known to be one).
* *Approval*: MAC addresses, model capabilities, limits on batches, deletion of hardware, two
  synchronizations of one manufacturer at once (a job that outlived its hour).
* *Supervisors*: what messages do to chassis. *Connections*: counters, rows per sweep, summaries.
* *Alerts*: tenant scope and preferences (part of `Eligible` and of the choice between `MailEnds` and
  `Revalidate`), conditions that come and go.
* *Chargers, broadcasts, settings, client*: names, slots and health; tenants and consumers; scopes, parsing
  and visibility; the rate limiter, whose correctness is a matter of measured time.

Not modelled for a reason that will not change: vendor JSON, HTTP and TLS (pure I/O); forms, admin pages,
serializers, templates and migrations (layers without state of their own); multitenancy and regulatory
data (filters and tables without behaviour over time); reports, retention and import commands (one
sequential pass each). They are most of the repository's lines, which is why the definitions of the
models stand for about a seventh of the implementation: the part where several actors meet.

## 8 Plan

Done, in this order: `ExpiringLease`, `ChassisLifecycle`, `DiscoveryReconcile`, `DiscoveryPipeline`,
`SubscriptionSupervisor`, `AlertFanout`, `DiscoveryApproval`, `RealtimeConnections`, `ChargerCycle`,
`SettingsCache`, `SnapshotBroadcast`, `VendorClient`, `ChassisChannels`, and the proofs of every safety
property the runs check.

Left, the most important first:

1. Overlapping synchronizations of one manufacturer in the queue, after a job has lapsed.
2. The statuses of wireless units, validated against a row read without a lock
   (`services/hardware/wireless_unit_service.py:220`), with the admin and the updates as writers.
3. The routes of the WebSocket consumers, revalidated against a user's current rights.
