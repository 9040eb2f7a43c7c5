# Narsika: TLA+ models, checks and proofs

Narsika is a web console for network devices: one Gunicorn process (`gunicorn.conf.py`: one worker
process, eight request threads), one SQLite database, one dispatcher thread and a pool of worker
threads that back devices up, run Ansible against them and probe networks; around it a native
installer, a systemd unit and offline tools that share its data directory. This directory models
the stateful parts in TLA+, checks them with TLC and proves the central invariants with TLAPS.

## 1. Inventory of the system

| Component | State | Operations | Interacts with | What makes it correct |
|---|---|---|---|---|
| Operation queue (`app/services/jobs.py`) | rows of `operation_run`; dispatcher locals; `futures`; the pool | `enqueue`, `dispatch_pending`, `execute`, `close`, `JobManager.__init__` | every submitter; device lock; scheduler tick in the same thread | one run per device, in order; nothing sent twice; every run settles; restart leaves no row RUNNING |
| Device connection lock (`network.py` `device_lock`) | a mutex per device, a semaphore of 8 | acquire, time out, release | executions, telemetry, firewall and discovery requests | exclusion per device, no leak |
| Ansible execution (`automation.py` `run_ansible`) | job directory, child process, output | backup, inventory, launch, poll, cancel, time out, collect | queue, lock, backups | contacts only what was queued; an orphaned child is accounted for |
| Backups (`backups.py`) | encrypted files, `backup` rows | capture, store, content | executions, retention | a row has its file |
| Discovery (`discovery.py`, `api.py`) | scans, candidates | scan, verify, import | queue, inventory | an import uses what was verified |
| Scheduled tasks (`scheduling.py`, `schedules_api.py`) | `scheduled_task`, `schedule_occurrence`, `schedule_run`, `FAILURES` | `tick`, `dispatch`, save, pause, resume, run now | queue, accounts, inventory | each occurrence once; all targets or none; overlap policy; quarantine |
| Firewall control (`firewall.py`, `firewall_api.py`) | `firewall_review` receipts, the configuration of the device | review, apply, claim, execute, verify, recover | queue, lock, Ansible, backups, accounts | applied at most once and only against what was reviewed; the shown result is what happened |
| Accounts and sessions (`routes.py`, `api.py`, `app/__init__.py`) | `user`, `login_attempt`, cookies | sign in, add, change role, disable, reset, own password | every request, queued runs | attempts are limited; access changes end sessions; one administrator remains |
| Inventory (`api.py`) | devices, groups, credentials | create, edit, archive, restore, import | everything that names a device | unique active address; archived groups are empty |
| Telemetry (`telemetry.py`) | sample cache, pending events, counters, `health_json` | health, interfaces | device lock, edits of devices and credentials | one sampler, no sample of another target, no stranded waiter |
| Playbook catalog (`catalog.py`) | `playbook` versions | upload, replace | Ansible, scheduled tasks | one active version |
| Application start (`app/__init__.py`, `app.py`, `runtime.py`, `configure.py`) | `worker.lock`, configuration, first account | `startup_guard`, `create_app` | migration, systemd, installer | one process owns the data; a key opens its data |
| Migration and snapshots (`migration.py`, `tools/snapshot.py`) | schema, `.enc` snapshots, `.partial` files | migrate at start | start | a snapshot before any change; no plaintext afterwards; restartable |
| Retention (`tools/maintenance.py`) | archives | archive, purge, unlink | `worker.lock`, backups | a row never outlives its file |
| Native installation (`tools/install_native.py`, `install_collections.py`, `bootstrap.py`, `admin_native.py`, `deploy/`) | releases, link, unit, activation, configuration, offline archives | install, upgrade, roll back, offline backup | systemd, data directory | a failed upgrade leaves the old release |

Hard behaviours: the dispatcher, the workers and eight request threads interleave at every commit; SQLite takes
its write lock at the first write, so what a request read is unprotected until it commits; device locks are
tried without waiting and runs are retried; the process may be killed or shut down at every step, and its
Ansible child outlives it; migration, installation and retention consist of many durable steps with a crash
possible between any two; a session may show a row as it was when it was queried. The list of hazards, each at
its line and with the properties that cover it, is `hazards` in `PROJECT.json`.

## 2. Modules

| Module | Models | Role |
|---|---|---|
| `OperationLifecycle` | what the queue promises an observer of the table and of the devices | abstract specification |
| `JobQueue` | `jobs.py`, `device_lock`, and the steps of `run_ansible`, `capture` and `scan` that touch the queue, the lock or a device | detailed specification, implements `OperationLifecycle` |
| `Scheduler` | `scheduling.py`, `schedules_api.py`, and what `execute` checks of a scheduled run | EXTENDS `ScheduleRules` |
| `ScheduleRules` | the calendar of `scheduling.py`: `next_time`, `wall_time` | operators used by `Scheduler` |
| `FirewallPlan` | the pure part of `firewall.py` | operators used by `Firewall` |
| `Firewall` | `firewall_api.py`, `execute` of `firewall.py`, and what `jobs.py` and `automation.py` do with a firewall run | EXTENDS `FirewallPlan` |
| `Accounts` | `routes.py`, the account handlers of `api.py`, the session guard | component specification |
| `Inventory` | devices, groups, candidates in `api.py`; `upload` of `catalog.py` | EXTENDS `Accounts` |
| `Telemetry` | `coalesced_sample`, `health`, `interfaces`, and what edits do to samples | EXTENDS `Accounts` |
| `Console` | the three together | composition |
| `Database` | `create_app`, `migration.py`, `snapshot.py`, `maintenance.py`, the files of the service | component specification |
| `Host` | `install_native.py`, `install_collections.py`, `configure.py`, `bootstrap.py`, `admin_native.py`, systemd | EXTENDS `Database` |
| `MCJobQueue`, `MCScheduler`, `MCFirewall`, `MCConsole`, `MCHost` | | instances for TLC (symmetry, inputs, bounds) |
| `JobQueueProofs` | | proofs about `JobQueue` |
| `SchedulerProofs`, `ScheduleRulesProofs` | | proofs about `Scheduler`, and about the calendar it extends |
| `InventoryProofs`, `TelemetryProofs` | | inductive invariants of `Accounts` and `Inventory`, and of `Telemetry` |
| `ConsoleProofs` | | theorems of `Console` |
| `FirewallProofs` | | proofs about `Firewall` |
| `HostProofs` | | proofs about `Host` and the `Database` it extends |

### `JobQueue`

State. The persisted part is `status`, `cancel` and `job` (kind, device, owner, recorded identity and
session version of each row of `operation_run`), `ident` and `archived` of devices, `session` and
`allowed` of accounts. The process part is the dispatcher (`dpc` with the locals `capacity`,
`active`, `rows`, `cur` of `dispatch_pending`), `futures`, the executions (`phase`, the identity in
the device object they hold, the result they will commit), the device mutexes, the free `slots` and
the HTTP readers. A kill loses the second part and keeps the first.

Steps. Each commit, each read of a row that another thread may change, and each acquisition of a lock
is a step of its own:

* the dispatcher polls, reads RUNNING rows (`ReadRunning`), reads PENDING rows (`ReadPending`), then
  takes the rows in order and cancels, skips or claims each (`CancelRow`, `SkipRow`, `ClaimRow`) and
  submits the claimed one (`SubmitRow`, or `RefuseRow` when the pool is shut down). `seen` and
  `fresh` model SQLAlchemy's identity map: the flags of the queried rows stay as queried until the
  first commit of the pass expires them;
* an execution loads its row (`Load`), checks owner and device (`Authorize`, `RefuseRun`), tries the
  mutex (`TryMutex`), the semaphore (`TakeSlot`, `SlotTimeout`), works (`Export`, `BackupSaved`,
  `Launch`, `WorkDone`, `WorkFails`, or `Probe` for a discovery), settles (`Settle`) and commits
  (`CommitResult`), or goes back to the queue (`Requeue`). Its future is done one step after its
  last commit (`Return`), so the dispatcher may claim a requeued row while the first future is still
  there (`ReturnSuperseded` is the thread that `futures` has forgotten);
* requests submit, cancel in two steps (`RequestCancel` reads the status, `RecordCancel` writes the
  flag), edit or archive devices, change accounts, and hold device locks as readers;
* the process is closed (`BeginClose`, `ShutPool`, `Exit`), killed (`Crash`) and started (`Restart`);
  `PassFails`, `CommitFails` and `InternalError` are failing queries and commits.

What is abstracted: an identity is a value, so is the access of an account; the kinds of run are four
(only reads, backup then Ansible, Ansible alone, no device); pool threads take queued executions in
any order, which allows more than the pool's FIFO; the dispatcher's `LIMIT 32` is left out because no
more than 32 rows are ever open; the second row check of `scheduling.preflight` is in `Scheduler`,
firewall runs are in `Firewall`. A kill is taken to end the work on the device here; the Ansible child, which
runs in a session of its own and may outlive the process, is modelled in `Firewall`.

### `OperationLifecycle`

Three variables, seven actions: a run starts only when the earlier runs of its device are finished, is
touched only while RUNNING, waits again only if untouched, ends once, and a restart interrupts all
running rows together. `JobQueue!ImplementsLifecycle` maps `status` to itself, `site` to the device of
each row and `touched` to "a contact was made".

### `Scheduler`

State. `task`, `ledger` and `run` are the rows of `scheduled_task`, of `schedule_occurrence` and of
`operation_run` joined with `schedule_run`; `others` counts the open rows of no task. `role`, `session`,
`ident`, `book` and `broken` are what validation looks at: accounts, device identities, the active
version of the playbook, and the tasks whose validation raises something other than an `APIError`.
`receipt` holds what each review token (`Reviews`) encrypts; manual requests have keys of their own (`Keys`); `request` what each account's waiting request has
already read. `pc`, `moment`, `batch`, `undo` and `fails` are the tick: its place, the time it read, the
tasks left, the database before its transaction, and `FAILURES`.

Steps. `ReadClock` reads the moment before `LOCK`; `BeginTick` is `LOCK`, `BEGIN IMMEDIATE` and the query
(ordered by time and id, cut at `Batch`); `TickTask` is one round of the loop: MISSED past the grace, or
`dispatch` with its receipt, overlap, validation and capacity tests in the code's order, then `next_time`
and the end of a one-time task. A task at a time keeps a failure in the middle of a batch visible:
`TickFails` rolls everything back and counts, `Quarantine` is the second transaction; `CommitFails` and
`TickAborts` are failures that blame no task. The intermediate states are seen by nobody: every action
that writes is disabled while `pc = "work"`, and no reader looks at what the tick changes.
The requests are split where they wait for `LOCK`: `SendSave`, `SendState` and `SendRun` are the checks
before it, with the account as it was authenticated; `ApplySave`, `ApplyState` and `ApplyRun` are the
whole locked block; `Answer` is a refusal or a repetition. The session of a request keeps its own account
object as loaded, so the owner that `validate_definition` and `enqueue` see is stale when the owner is the
caller (`SeenRole`, `SeenSession`). `Authorize` and `Preflight` are the two places where an execution looks
again.

The database may hold tasks at the beginning (up to `Stored` of them), saved by reviews nobody has any more, so that
small runs need not create them first.

What is abstracted: times are whole numbers (`ScheduleRules`); the rest of
the queue (`JobQueue`), so rows are claimed in any order and every outcome is `ENDED`; a restart is one
step, and the clock may run ahead of the tick as far as it likes, which is what a stopped process looks
like; a request is sent with the revision the task has then and may be overtaken afterwards.

### `ScheduleRules`

The module has no state: `Scheduler` calls `NextTime` where the code calls `next_time`. A zone is the offset of its clock at
every instant, a local time a number of which `Date` and `TimeOfDay` are the day and the time of day. `WallTime` is the first
instant that shows a local time, if one does; `NextTime` is `next_time` with its search by days, from the later of the start's
date and the date of the moment. `IsTime` says, without a search, what a rule stands for: the first showings of its time of day
from its start on, or every so many elapsed hours. How `zoneinfo` finds the first showing is external.

### `FirewallPlan` and `Firewall`

`FirewallPlan` has no state: which change sets `normalize` and `compile_plan` refuse (`WellFormed`, `Refuses`),
how risky they are (`Risk`), the final order the reviewer is shown (`Final`), what one command of the plan does
on a RouterOS filter or in a Cisco access list (`Performed`), what the recovery recipe does from wherever the
commands stopped (`Recovered`), and what verification concludes (`Outcome`, `Preserved`, `Complete`). The
selectors of a rule are one member of `Traffic`; what the compiler asks of them are subsets of it. Parts of a list (the items
at the front, the rules without a tag) are taken by their places (`AtPlaces`). `IsFilter` is what either platform may have
as rules; `Foreign` says that a tag, drawn at random, is on no rule before its receipt is shown.

`Firewall` is one device. `receipt` is the rows of `firewall_review` joined with their runs, `claims` the requests
to apply that passed their checks but have not yet claimed the receipt with the conditional UPDATE, `worker` the
request or worker in the device lock, `box` the configuration behind each connection identity of the device,
`ansible` the child process. A reading takes two steps, as its two commands on a Cisco device
(`ReadRules`, then the action that uses the conclusion). An execution reads three times: before the backup
(`ReadBefore`, `Capture`), again after its commit (`ReadAgain`, `Recheck`), and to verify (`Verify`). The two commits, of
the backup and of VERIFYING, expire the row of the device, so the second and the third reading reach the box the device
names when they begin (`Reached`), which an edit may have made another one. `Send` is one command of the plan; the process goes on after a kill (`Crash`,
`OrphanEnds`), while the next start marks the run INTERRUPTED. `Others` changes the configuration (through another channel
than Narsika, so no lock is in its way), the device or the account at any point. `since` remembers what others changed
after the worker's own last look, because no check can see that. A look at another box than the one it is about is none
(`LooksAt`): the rules are those of the reviewed device, the result that of the device the commands went to (`SentTo`). All
identities of the device are of one platform. What others make of a configuration is again one
(`IsConfiguration`), but may otherwise contain anything, copies of tags included. Confirmation phrases are left out (a
request without is refused), and parsing of device output too.

### `Accounts`, `Inventory`, `Telemetry` and `Console`

A request of the console is two steps: it loads the rows it decides on together with its checks
(`...Starts`), and commits later (`...Ends`). Between the two, requests of other threads commit; only what SQLite
itself enforces with the commit, the unique index on active addresses, is checked again.

* `Accounts`: `user` rows, `sessions` (account and version of each cookie), `counter` (rows of `login_attempt`,
  with the number of their window). `SignInStarts` reserves an attempt of the address and of the account before
  the password is verified; `SignInEnds` gives it back in the window it was taken from. A change writes only the
  columns that differ from the row as loaded (`Written`), as the ORM does, so that two overlapping changes merge. `raced`
  records that this happened.
* `Inventory`: `device`, `retired` groups, `verified` candidates, `books` (versions of one playbook name). `crossed`
  records the tables in which two requests overlapped. Names, notes and settings are left out.
* `Telemetry`: `target` (connection identity and credential revision of the one device), `cache`, `owner` (the
  table of pending samplers), `reader` (what each thread does), `counters` and `health`. `Asks` is `coalesced_sample`
  up to its first release of `SAMPLE_LOCK`: a cached answer, a wait, or ownership. `SampleEnds` stores, evicts, caches
  and signals; `SampleFails` is its `finally` after a busy lock or a failing device. An edit of the device loads its row
  (`PatchLoads`) and commits later (`PatchCommits`, `PatchFails`): it writes that there is no health only if there was some
  when it loaded the row (`Forgets`). A changed credential clears health with one UPDATE of its own and holds SQLite's write lock
  until its commit (`Rekeys`). Counters are dropped before either commit, so a sample in between may leave some (`Drops`).
* `Console` interleaves the three. Each request needs a session that is served (`Served`), which ties the
  inventory and the samples to the accounts. The state of the three parts is otherwise disjoint, so a thread may
  have one request of each: more interleavings than the code has, not fewer.

### `Database` and `Host`

`Database` is the data directory. `db` holds what the migration decides on: columns, schedules, plaintext, residue in
free pages, index, version, the key its secrets are sealed with, whether a user exists. `create_app` is a sequence
(`Order`) of steps that commit separately (`Commits`, `SnapshotStarts`, `SnapshotEnds`); a step whose work is already
there is passed over, which is how a repeated start goes on. Snapshots are written to a `.partial` file first. The
service writes files and then rows of `Items`; retention archives, purges and unlinks under `worker.lock`.

`Host` adds the installer (download with retries, verification, stop, configuration, bootstrap, link, unit,
activation, health check, and every step of the restore), the offline backup of `narsika-admin`, systemd (starts the
service again as long as it is wanted), kills of each process and reboots. A step of the installer raises before it
changes anything.

## 3. Runs

Each is `tlc -config <cfg> <module>` with the names in `PROJECT.json`. Deadlock is checked for the queue and the
scheduler; in `firewall`, `console*` and `host*` the requests, commands and events are finite, so these runs may
stop and say so.

| Run | Checks | Bounds and why they suffice |
|---|---|---|
| `queue_order` | `TypeOK`, `OneRunPerDevice`, `DeviceFifo`, `LocksBalanced`, `QueuedTargetHonoured` | 2 rows on 2 devices (or both on one), 2 workers, 1 slot, 1 reader: two runs of one device compete in order, two of different devices for the slot; 2 identities, one edit, one failing query or commit |
| `queue_progress` | `DeviceExclusive`, `NeverReplayed`, `RowsMatchExecutions`, `BarredSendsNothing`, `ImplementsLifecycle`; `EveryRunSettles`, `CancelledPendingSettles` under `FairSpec` | 2 rows, of one device or of none, one worker, a reader, a cancellation, a stop (kill or shutdown) at every step |
| `queue_retarget` | `EveryContactHonoured`, violated | one run, one edit |
| `schedule_times` | `OncePerOccurrence`, `NoOverlap`, `NoBurst`, `EnabledIsScheduled`, `PauseHolds` | 1 task, once, at every time, daily or weekly, times 0..3 without grace, so that occurrences are on time or missed; days of 2 units and weeks of 2 days, in a zone that shows one time twice and skips another, and the daily rule meets the first and the weekly one the second; a search of 5 days (370 in the code) passes the skipped one; 2 requests (pause, resume, run now, its repetition), the clock set back once |
| `schedule_access` | `BarredRunsAreRefused`, `NoLostEdit` | a one-time task, 2 reviews from one revision, 2 requests (a run and an edit, two runs, two edits) and 1 change of account, device or playbook at every step of runs and requests |
| `schedule_quarantine` | `TypeOK`, `AllOrNone`, `DueSettles` under `FairSpec` | 2 tasks of 2 targets, a queue of 3, 1 other row: an occurrence fits, fits partly, does not fit; one task per tick, quarantine at the second failure, one fault, one kill |
| `schedule_resume` | `BlockedUntilReviewed`, violated | one task, two changes |
| `firewall` | `TypeOK`, `AppliedOnce`, `ShownAsHappened`, `RecoveryRestores`, `SentAsReviewed` | both platforms, 2 receipts of one device, a user of any role, 2 identities, 2 simultaneous requests to apply a receipt, change sets of two items (two of them on RouterOS, on Cisco one with an entry in an ACL that exists and one in an ACL it creates), 4 events (a review, an edit by another administrator, a changed account, device, cancellation or kill; a second review counts twice): a review, a device that is edited there and back and a box that is changed, or a kill in the middle of a plan with edits around it, are the deepest cases. Accounts and the device change while a receipt is open (`Open`), and boxes are edited that the device has or a receipt was made for (`InReach`), since otherwise nobody looks |
| `console` | `TypeOK`, `FailuresBounded`, `SignsOut`, `ArchivedGroupsEmpty`, `OneActiveVersion`, `AnswersAreOwn`, `PendingIsOwned`, `HealthIsCurrent` | 2 accounts, 2 threads, 2 devices of 2 addresses and 1 group, a cache of 1; 3 requests of any kinds, or 4 of inventory or of samples: two that overlap and one or two that look at the result; one address limited to 1 attempt, which a second thread is at once over, and one end of its window |
| `console_admins` | `AdminRemains`, violated | the same |
| `host` | `TypeOK`, `OriginalKept`, `NoPlaintextLeft`, `NothingLost`, `PreviousRestored` | every age of database, 2 keys, 2 items, 2 runs of the installer or other commands, 2 kills: an upgrade that is killed, or fails and is undone while the migration or a backup is killed. 2 download attempts stand for the 3 of the code |
| `host_repeat` | `MigrationRepeats`, violated | one command, one kill |

In `JobQueue` rows, edits, cancellations, reads, stops and faults are bounded by `MaxRuns`, `MaxEdits`, `MaxCancels`,
`MaxReads`, `MaxStops` and `MaxFaults`; in `Scheduler` requests, changes, faults, crashes, settings of the clock and
other submitters by `Bounds`, and time by `MaxTime`; in `Firewall` requests to apply by `MaxClaims`, everything else by
`MaxEvents` (a second receipt at the price `ReviewCost`); in `Console` requests by `Budgets` and windows by `MaxWindows`; in `Host` by `MaxInstalls`, `MaxCommands` and
`MaxKills`. They only bound how often users and the environment act.

Fairness. `FairSpec` of `JobQueue` is `WF(DispatcherStep)`: the thread loops for ever and none of its steps
waits for another thread. `CancelledPendingSettles` needs no more (it ends when the process goes down), so
it also holds while every worker hangs. `EveryRunSettles` has `WorkerFairness` as its hypothesis:
`WF(WorkerStep(r))` and `WF(ReaderStep(d))`, pool and request threads are scheduled, and time limits
(`JOB_TIMEOUT`, SSH timeouts, one second for a slot) end every wait on a device; `WF(ProcessStep)`, the
service supervisor starts the process again.
Strong fairness is not assumed: a run that is refused by a reader over and over is excluded by `MaxReads`
(section 5). In `Scheduler`, `WF(TickStep)` is the same thread and `WF(Advance)` is time; nothing is assumed
of users, executions or submitters.
`Firewall`, `Console` and `Host` check safety only and assume no fairness.

## 4. Proofs

### `JobQueue`

Every safety property the passing runs of `JobQueue` check is also proved, for every value of the constants that
satisfies the three assumptions of `JobQueue` (bounds are natural numbers; workers, slots and capacity
are positive; the special names differ from the ordinary ones). Each rests on an invariant that is
inductive relative to the ones before it, preserved in one step per action.

* `TypeCorrect` (`TypeOK`). `TypeOK` is not inductive: `SubmitRow` decrements `capacity` and writes
  `phase[cur]`, and the executions take the mutex of `job[r].device`. `ExecOK` says what makes these
  sound: a claimed row is RUNNING with capacity left, nobody executes it yet, an execution that asks
  for a lock has a device, the rows the dispatcher holds are PENDING. Nothing else may change a
  PENDING row's status, which is why the dispatcher may work from an older list.

* `OneRunAtATime` (`OneRunPerDevice`). `ActiveOK` adds that from `ReadRunning` on, `active` contains the
  device of every RUNNING row, or the row is the claimed one: during a pass rows may only stop being
  RUNNING, except through the dispatcher itself.
* `NothingReplayed` (`NeverReplayed`). `SentOK`: a run with a contact is neither unsubmitted nor PENDING
  nor in a phase that leads to a contact, and the claimed row has none. The worker's steps fall into two
  classes (`WorkerMoves`, `ContactMoves`), which the preservation argument uses.
* `RowsHaveExecutions` (`RowsMatchExecutions`). `NoneLost`: while the pool accepts work and no commit has
  failed, no RUNNING row is without execution, the claimed row excepted.
* `SubmissionOrder` (`DeviceFifo`). `Inserted` (rows are numbered without gaps) and `PassOK`: when the
  dispatcher holds a row, every earlier waiting row of its device is in its list too, or its device is in
  `active`, or no capacity is left; so the first row of a device that it claims is the first open one
  (`ClaimInOrder`).
* `QueueImplementsLifecycle` (`ImplementsLifecycle`). `RefineInit`, and one lemma per abstract action;
  the guard of `Start` is `ClaimInOrder`, that of `Requeue` is `SentOK`, `Finish` needs that a result is
  known when it is committed (`ResultOK`).
* `DevicesNotShared` and `LocksAccounted` (`DeviceExclusive`, `LocksBalanced`). `LockOK`: who is between
  acquisition and release holds the mutex of his device, alone, and the free slots are all slots minus
  those of insiders. Steps that take or release nothing are `Quiet`; the eleven others have a lemma each.
  The set of devices need not be finite: only finitely many readers hold a slot.
* `TargetHonoured` (`QueuedTargetHonoured`). `TargetOK`: between `Authorize` and its first contact an
  execution holds the identity recorded in its row.
* `BarredRunsSendNothing` (`BarredSendsNothing`). `BarOK`: what bars a run stays (flags are not reset,
  session versions only grow), so `Load` or `Authorize` stops it.

### `Scheduler`

Every safety property the passing runs of `Scheduler` check is proved in `SchedulerProofs`, for every number of tasks,
users, devices and keys, every set of rules and zones, of selections (sequences of distinct devices that are not empty), and
every bound, from the assumptions of `Scheduler` and `ScheduleRules`. All but one follow from one inductive invariant, `IInv`, because a rollback
ties its parts together: what a tick has done in part must be right, and so must what is left when it is undone. Most parts
are therefore operators of the tables they speak of, stated of the tables as they are and (in `UndoOK` and `SpacedOK`) of
those a rollback would restore, of the first `undo.rows` rows in the case of runs (`Kept`).

* `SchedulerTypeCorrect` (`TypeOK`) needs `TasksOK` and `InputsOK`: a waiting request names a task, a revision and
  a session there have been; the devices of a selection are distinct. What is saved or waits to be saved has a rule that
  `rule_data` accepted, which `next_time` needs.
* `SchedulerOncePerOccurrence` (`OncePerOccurrence`) is `Single`, which needs `Booked`: every row has a receipt, so an
  occurrence without a receipt, which is what `dispatch` looks for, has no rows. A rollback has to take both back
  together (`RollbackRows`).
* `SchedulerAllOrNone` (`AllOrNone`) is `Complete`, a receipt has rows for all its targets or for none, and `Fits`, by
  counting the rows that `dispatch` adds (`RowsJoin`, `RowsOfDistinctDevices`). The cardinalities of open rows before and
  after are compared through the finite-set theorems.
* `SchedulerNoOverlap` (`NoOverlap`) is `Apart`; a rollback leaves fewer open rows (`RowsNotOpened`).
* `SchedulerNoBurst` (`NoBurst`) needs `Spaced`: an occurrence was recorded when it was due or later, not later than now, and before
  the task's next time; so the next one is due after it was recorded. The tick's `moment` is behind the clock, which
  moves on while the tick waits for `LOCK`.
* `SchedulerBarredRunsAreRefused` (`BarredRunsAreRefused`) is `BarredOK`: a barred row has an old revision or an old session
  and has not passed the check that compares it. `RowsOK` says that no row is ahead of its task or its owner, so an edit or a change of
  access makes all of them old.
* `SchedulerEnabledIsScheduled` (`EnabledIsScheduled`). That there is a time is part of `TasksOK`. That it is one of the rule's,
  and the next one, is `CalendarOK`, which is inductive relative to `IInv`, again with the times a rollback would restore: a step
  leaves the time of a task and its rule, or asks `next_time` for the clock or tick's moment (`RequestTimes`, `TickTimes`),
  neither of them later than the clock is afterwards (`ClockSteps`); and `NextTimeIsLeast` says what it returns.
* `SchedulerNoLostEdit` (`NoLostEdit`): `ApplySave` is the only step that changes a revision (`OnlySaveRevises`); a rollback
  does not, because `UndoOK` keeps the revisions of `undo` equal to the present ones.
* `SchedulerPauseHolds` (`PauseHolds`): what is left of the batch is enabled (`BatchOK`), since the requests wait for the lock.

That the first day of a search and the foremost task of a batch exist is derived from the well-foundedness of the natural
numbers (`LeastNat`); they are choices in the model, which say nothing if there is nothing to choose.

### `ScheduleRules`

`ScheduleRulesProofs` holds for every set of zones and rules and every length of days, weeks and search, from three
assumptions: rules are those that `rule_data` accepts (`RulesAssumption`); a clock that is put back shows what it has shown before,
because its changes are farther apart than their size (`ClockAssumption`); the numbers are numbers (`CalendarAssumption`).
`Scheduler` adds that a search always finds a day (`SearchAssumption`): 370 days contain every weekday more than fifty times, and a zone
skips a given time of day far more rarely. TLC evaluates all four on the instances.

* `NextTimeIsLeast`. A reading that is shown for the first time is later than all readings before it (`FirstShownIsLater`),
  although the clock itself may go back. So a time of the rule after the moment is on no date before that of the moment
  (`TimeIsCandidate`), and later days have later times: the first day that is a hit has the least one (`SearchLeast`).

### `Console`

Every property of the `console` run is proved for every number of accounts, addresses, threads, devices, groups and
identities, every limit and every cache size, from the assumptions of `Accounts`, `Inventory` and `Telemetry`: limits and the
cache are positive, budgets are functions to natural numbers, accounts and addresses are distinct, the table at the
beginning obeys the index of active addresses, and `Free` is none of the things it is distinguished from.

`ConsoleProofs` combines component invariants. A step of one part leaves the variables of the others alone
(`PartsOfStep`), so each invariant only has to survive its own actions; the components' modules prove that with one
step or lemma per action.

* `ConsoleTypeCorrect` (`TypeOK`). `AccountsTyped`, `InventoryTyped` and `TelemetryTyped` add the types of the requests in
  flight, which decide what a later commit writes. That a cache never outgrows its size needs that eviction precedes insertion
  (`CacheBounded`); that a replaced version exists needs that a request holds the number of a version that was there.
* `ThrottleIsBounded` (`FailuresBounded`). `ThrottleOK`: in the row of an address, failures and reservations of the present window
  are never more than its count, and no reservation is in a later window. The property alone is not inductive: an
  attempt that is given back could otherwise lower the count below the failures already in it.
* `ChangesEndSessions` (`SignsOut`). `SessionsOK`: until two requests overlap, no session and no sign-in under way has a
  version above its account's, and a change that was alone has the row as it is; so a change raises the version above
  every session there is (`ChangesSignOut`).
* `GroupsStayEmpty` (`ArchivedGroupsEmpty`). `GroupsOK`: what a request checked still holds when it commits, for each kind of
  request.
* `LastVersionIsActive` (`OneActiveVersion`). `BooksOK`: an upload that is alone replaces the last version.
* `SamplingIsOwned` (`PendingIsOwned`). `PendingOK`: owners and sampling threads correspond one to one, and a waiter waits for
  the owner of its own key; the `finally` of a sampler releases the key and wakes the waiters in one step (`ReleasePending`).
* `AnswersAreOfTheirTarget` (`AnswersAreOwn`). `SamplesOK`: what is cached under a key, and its rates, are of the key's target.
* `HealthStaysCurrent` (`HealthIsCurrent`) needs `HealthOK`: while an edit is under way that loaded the row without health,
  there is none, or a sample came late.

### `Firewall`

Every property of the `firewall` run is proved in `FirewallProofs`, for every number of receipts, users, identities, requests
and events, change sets of any length, whatever is asked for and whatever edits others make. The assumptions: bounds are
natural numbers, `MaxItems` is positive, a device has an identity, the platforms are the two, the configurations at the
beginning are configurations without the tags of receipts that do not exist yet, and the subsets of `Traffic` are subsets.

* `ReceiptsApplyOnce` (`AppliedOnce`). `StagesOK`: nothing was launched before the run of a receipt is RUNNING and its worker
  is past `launch`, and a row leaves NONE and PENDING for good. The property alone says nothing of who may launch next.
* `FirewallTypeCorrect` (`TypeOK`), from `StagesOK` and one invariant each of the rows, the things and the counts (`Typed`).
* `ReceiptsSendAsReviewed` (`SentAsReviewed`). `KnownOK`: at each step of an execution, whatever is not in `since` is as the worker
  last saw it: the rules are known from the last reading that reached the reviewed device (`RulesKnown`), the backup is the reviewed
  configuration, the identity it connects to and the account are the reviewed ones. A second reading of another box changes
  nothing of what is known: it neither ends "rules" in `since` nor is what it read used for the reviewed device. `OneHolder`, that one worker at a time holds the device lock, is needed for `Send`: a
  command of one receipt would otherwise change the device under the worker of another without being in its `since`.
* `ResultsShownAsHappened` (`ShownAsHappened`). `PlansOK`: every box, and whatever a worker has read of one, is a configuration,
  and a stored plan is `Sound`: well formed, compiled from its change set, and not refused for the configuration it
  was compiled from. `ResultsOK`: unless "result" is in `since`, a run that ended as SUCCESS or PARTIAL left, or did not leave,
  `Exact` on the device it was sent to, and one that was cancelled launched nothing or left the reviewed configuration
  (`OutcomeOf`). The end of Ansible puts "result" into `since`, and only a verification that reaches that device takes it out. The two meet in `VerificationExact`: for a sound
  plan, `Complete` holds of a reading if and only if it is the final order the reviewer was shown. That is the
  question a reader of `verify` asks, since it compares only tags, places and counts.
* `RecoveryRestoresReviewed` (`RecoveryRestores`). `ProgressOK`: while nobody else changed the rules, the device has the final order
  of the first `sent` items. A command takes it from `sent` items to one more (`PerformedIsFinal`), and recovery leads
  from any number of items back to the reviewed rules (`RecoveredFinal`). That the reviewed rules are those the first command
  finds is `KnownOK` again.

The operators of a plan are proved without induction over its items. What is in a list at a set of places is an explicit
function, the place of the n-th being the one with n places up to it, so one more item adds one place
(`PlaceMore`, `AtPlacesMore`); tags are distinct, so the counts and the order of the comments fix each rule's place (`OrderOnce`,
`PlacedIsOrder`). Cisco lists are compared as the set of their entries: a plan adds as many entries as it has items, because its
numbers are free and distinct (`NewCount`), so old and new entries together leave no room for another one
(`CiscoExact`).

### `Host`

Every property of the `host` run is proved in `HostProofs`, for every set of keys and every finite set of items, every
number of download attempts, installations, commands and kills. The assumptions are that those numbers are natural, that
the two special values of a key are no keys, and that `Nothing` is neither a holder of the lock nor a snapshot. `IInv` has one part for each thing a
step may break; TLC checked it as an invariant of `Host.cfg` before it was proved.

* `HostOriginalKept` (`OriginalKept`) needs `MigrationOK`, which says for each place in the order of `create_app` what is
  done by then (`Passed`, `StepOK`): from the third step on, the database as it was is in a snapshot under the present key
  (`Settled`); until then the database is the original. The steps that are passed over need the same
  facts from their tests, also after a kill (`PassedOn`, `SettledOn`, `GoesOn`). And it needs `KeyOK`: a valid key in the
  configuration is never replaced, neither by the installer, which generates one only where it found none, nor
  by the configuration it restores (`KeyChange`).
* `HostNoPlaintextLeft` (`NoPlaintextLeft`) follows from the same argument: version 2 is the eleventh step. The process
  that has cleared the free pages must be one that decided to upgrade (`db.residue => upgrading`), a decision it took
  before the version changed.
* `HostNothingLost` (`NothingLost`) needs `LockOK`: the service, retention and the offline copy hold `worker.lock` while they
  work, one of them at a time; and that retention unlinks only what it archived (`ItemsOK`).
* `HostTypeCorrect` (`TypeOK`) needs `ReleaseOK`: what link, unit and processes name are whole releases, and the directory of the
  next one is none yet.
* `HostPreviousRestored` (`PreviousRestored`) needs `InstallOK`: what the installer remembers, and how much of it is back
  at each place of the restore (`DeployedOK`); and, unless an offline backup overlapped, that the failed release does not run then
  (`RunningOK`): it is stopped before anything is restored, and nobody wants it.

### Only model-checked

The liveness properties `EveryRunSettles`, `CancelledPendingSettles` and `DueSettles` (temporal reasoning under fairness is
out of the prover's reach here). The properties of the runs that end in a violation (section 5) are false.

## 5. Results and limits

Disagreements the runs show:

* `queue_retarget`: `docs/MIGRATION.md` promises that a job whose target changed fails with TARGET_CHANGED, but the check
  precedes the pre-change backup and the inventory is written after it, from a device object that the backup's
  commit has expired.
* `schedule_resume`: a BLOCKED or quarantined task asks for a review, but Resume enables it in its old revision once
  validation passes. In the trace the device of the task is archived while Run now waits, the occurrence is BLOCKED, the
  device is restored as it was, and Resume enables the task with nobody having reviewed it.
* `console_admins`: two administrators who disable or demote each other at the same time both count two administrators
  before either commits; none is left.
* `host_repeat`: a process that is killed or stopped while it writes a migration snapshot leaves the `.partial` file,
  which every later start refuses to open; the documentation calls the migration repeatable.

What the properties leave out on purpose, since the code does not promise more:

* `SignsOut` holds while account requests do not overlap (`raced`). Two overlapping changes may write the same version,
  after which a session that the first change ended is served again; `docs/GETTING-STARTED.md` states the sign-out without
  that condition.
* `ArchivedGroupsEmpty` excepts devices that were restored (the group is not looked at) and overlapping requests
  (`crossed`); `OneActiveVersion` excepts overlapping uploads, which leave two active versions.
* `HealthIsCurrent` excepts two samples (`late`): one that was being taken when its target changed is stored afterwards; and
  one that is stored between the load and the commit of an edit which loaded the row without health outlives that edit
  (`api.py:86`: None is no change of NULL).
* `SentAsReviewed` excepts what others change after the worker's last look (`since`); `RecoveryRestores` likewise. A device that
  is edited to another box before the second reading and back before the refresh that follows it is not looked at a second time,
  so a change of the reviewed box during the backup goes unnoticed.
* `ShownAsHappened` excepts a verification that reached another box, because the device was edited while Ansible ran:
  CANCELLED may then be shown of a device that was changed, SUCCESS or PARTIAL of one that was not looked at. It also excepts
  what others change after the verification.
* `PreviousRestored` speaks of the process only if no offline backup overlapped (`alone`): between the installer's look at
  whether the service is active and `enable --now`, a service that restarts by itself or is started by
  `narsika-admin backup` lets the health check pass on the old process.
* `NoBurst` needs a clock that is not set back; the other properties of `Scheduler` do not.
* A final commit that fails leaves a row RUNNING without an execution and blocks its device until the
  next start (`RowsMatchExecutions` allows it only with a fault).
* A run may wait for ever if HTTP readers of its device keep coming at the wrong moments: retries are
  not queued for the lock. `EveryRunSettles` assumes finitely many readers.
* A run queued with a stale account is refused later: its row holds the session version as it was
  authenticated, and `Authorize` compares it (`BarredRunsAreRefused`).

Met while reading, without a property:

* A bootstrap that is killed after it committed the administrator and before it printed the password leaves an account
  nobody can use until `reset-admin`.
* A native installation over a legacy database without a configuration file is refused (`install_native.py:158`), although
  `docs/MIGRATION.md` describes it as running the installer.
* `configure.py` does not write the configuration atomically; the model has such a torn file (`Torn`).

Not modelled:

* Months and years: the days of `ScheduleRules` are numbered, as `timedelta` counts them.
* Decoding of YAML, Ansible events and artifacts; SSH sessions, host keys and the probes of discovery; parsing of device
  output. They are conversions without shared state.
* Duplicate active addresses that stop a start; UFW rules, file ownership, disk space and questions of the installer.
* Retention of run rows and audit events, which have no file; `restore_snapshot.py` and `import_legacy_db.py`, which
  write to a place nobody uses yet.
* Logout, renaming, settings, listings and history: nothing another request depends on.
* The browser front end, the playbooks and the callback plugin, and the release and diagnostic tooling, which keep no
  state the server relies on.

## 6. Plan

The plan is carried out. What is most worth adding is several devices in `Firewall`, which now only meet in the queue.
