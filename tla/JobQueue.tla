------------------------------ MODULE JobQueue ------------------------------
(***************************************************************************)
(* The operation queue of Narsika, app/services/jobs.py: rows of           *)
(* operation_run persisted in SQLite, a dispatcher thread that claims      *)
(* PENDING rows, a pool of worker threads that execute them, the           *)
(* per-device connection lock they share with the HTTP readers             *)
(* (app/services/network.py) and the life of the process around them.      *)
(*                                                                         *)
(* Steps are as fine as the code's commits and shared reads: every commit, *)
(* every read of a row another thread may change, and every acquisition of *)
(* a lock is a step of its own.                                            *)
(*                                                                         *)
(* Abstractions.                                                           *)
(*   - A connection identity (target_identity) is a member of Idents; an   *)
(*     account is its session version and whether it may operate.          *)
(*   - Kind "backup" only reads; "vlan" stands for every kind that takes a *)
(*     backup and then runs Ansible (vlan and the managed Original         *)
(*     playbooks); "playbook" runs Ansible at once; "discovery" has no     *)
(*     device.  Firewall runs are reviewed elsewhere and are not here.     *)
(*   - The pool starts queued executions in any order (the code: FIFO).    *)
(*   - A request that submits reads device, account and available() in one *)
(*     step with its INSERT: what changes in between is found by the       *)
(*     checks of the execution (Authorize).                                *)
(*   - The commit of a row that a worker finds cancelled does not fail.    *)
(*   - LIMIT 32 of the dispatcher's query never cuts: at most              *)
(*     QueueCapacity = 32 rows are open.                                   *)
(***************************************************************************)
EXTENDS Integers, FiniteSets

CONSTANTS
    MaxRuns,        \* bound: rows are numbered 1..MaxRuns
    Devices,        \* inventory devices
    NoDevice,       \* device_id of a discovery run
    Users,          \* accounts that submit runs
    NoUser,         \* owner of a row not inserted yet
    Idents,         \* connection identities a device may have
    NoIdent,        \* identity of no device
    Kinds,          \* kinds of run submitted, a subset of AllKinds
    Workers,        \* JOB_WORKERS, threads of the pool
    Slots,          \* size of the SLOTS semaphore
    QueueCapacity,  \* most rows PENDING or RUNNING
    MaxCancels,     \* bound: cancel requests
    MaxEdits,       \* bound: changes of devices and accounts
    MaxReads,       \* bound: HTTP requests that take a device lock
    MaxStops,       \* bound: crashes and shutdowns
    MaxFaults       \* bound: commits that fail

AllKinds == {"backup", "vlan", "playbook", "discovery"}

ASSUME BoundsAssumption ==
    /\ MaxRuns \in Nat /\ MaxCancels \in Nat /\ MaxEdits \in Nat
    /\ MaxReads \in Nat /\ MaxStops \in Nat /\ MaxFaults \in Nat

ASSUME SizesAssumption ==
    /\ Workers \in Nat \ {0}
    /\ Slots \in Nat \ {0}
    /\ QueueCapacity \in Nat \ {0}

ASSUME NamesAssumption ==
    /\ NoDevice \notin Devices
    /\ NoUser \notin Users
    /\ NoIdent \notin Idents
    /\ Kinds \subseteq AllKinds

Runs == 1..MaxRuns

Outcomes == {"SUCCESS", "FAILED", "CANCELLED", "INTERRUPTED"}

Statuses == {"NONE", "PENDING", "RUNNING"} \union Outcomes

(***************************************************************************)
(* Where an execution is: not submitted; queued in the pool; row loaded;   *)
(* checks passed; device mutex taken; connection slot taken; exporting the *)
(* configuration; pre-change backup committed; Ansible running; discovery  *)
(* about to probe, probing; refused by the connection lock; work over;     *)
(* result known; row written, the future not done yet.                     *)
(***************************************************************************)
Phases == {"none", "pool", "loaded", "ready", "slot", "work", "export", "saved",
           "change", "probe", "scan", "busy", "finish", "commit", "returning"}

Counters == {"cancels", "edits", "reads", "stops", "faults"}

\* Phases of an execution that a pool thread carries out.
Threaded == Phases \ {"none", "pool"}

\* Phases in which an execution is inside device_lock (mutex and slot).
Inside == {"work", "export", "saved", "change"}

NoJob == [kind |-> "none", device |-> NoDevice, owner |-> NoUser,
          target |-> NoIdent, session |-> 0]

Jobs == [kind : AllKinds \union {"none"}, device : Devices \union {NoDevice},
         owner : Users \union {NoUser}, target : Idents \union {NoIdent},
         session : Nat]

VARIABLES
    (* Persisted in SQLite. *)
    status,     \* status of each row
    cancel,     \* cancel_requested of each row
    job,        \* kind, device, owner, recorded identity and session of each row
    ident,      \* connection identity of each device
    archived,   \* archived_at of each device is set
    session,    \* session_version of each account
    allowed,    \* whether each account is active and may operate
    (* The process. *)
    proc,       \* "down", "up", "closing" (stop set) or "shut" (pool shut down)
    dpc,        \* where the dispatcher thread is
    capacity,   \* capacity of its pass
    active,     \* active_targets of its pass
    rows,       \* the PENDING rows its query returned and that it did not reach yet
    seen,       \* those of them its query showed as cancelled
    fresh,      \* whether it did not commit since that query
    cur,        \* the row it has claimed and not submitted yet
    futures,    \* keys of JobManager.futures
    phase,      \* where the last execution submitted for each row is
    loaded,     \* identity of the device object the execution holds
    result,     \* status the execution is about to commit
    leaving,    \* executions superseded in futures that still have to return
    cancelling, \* cancel requests past their status check, not committed yet
    mutex,      \* DEVICE_LOCKS: whether the lock of each device is held
    slots,      \* free slots of SLOTS
    reader,     \* the HTTP request that holds each device's lock, by its progress
    (* For the properties and the bounds. *)
    contacted,  \* identities contacted for each row
    barred,     \* rows cancelled, or whose owner's access changed, while PENDING
    used        \* how much of each bound was used

inventory == <<ident, archived>>
accounts == <<session, allowed>>
persisted == <<status, cancel, job, inventory, accounts>>
disp == <<dpc, capacity, active, rows, seen, fresh, cur>>
execs == <<phase, loaded, result>>
locks == <<mutex, slots, reader>>
history == <<contacted, barred>>

\* What the steps of an execution leave alone, rows apart.
elsewhere == <<proc, disp, futures, leaving, cancelling>>

vars == <<persisted, proc, disp, futures, execs, leaving, cancelling, locks,
          history, used>>

-----------------------------------------------------------------------------

Open == {r \in Runs : status[r] \in {"PENDING", "RUNNING"}}

Pending == {r \in Runs : status[r] = "PENDING"}

Running == {r \in Runs : status[r] = "RUNNING"}

\* Whether the process can take a request.
Serving == proc # "down"

\* available(): the dispatcher thread accepts new work.
Available == proc = "up"

OnDevice(r) == job[r].device # NoDevice

\* Threads of the pool that are occupied.
BusyThreads == Cardinality({r \in Runs : phase[r] \in Threaded}) + leaving

\* The dispatcher's pass is over, its locals are gone.
Rest ==
    /\ dpc' = "wait"
    /\ capacity' = 0
    /\ active' = {}
    /\ rows' = {}
    /\ seen' = {}
    /\ fresh' = FALSE
    /\ cur' = 0

FreeMutex(d) == mutex' = [mutex EXCEPT ![d] = FALSE]

Use(c) == used' = [used EXCEPT ![c] = @ + 1]

\* device_lock's finally block.
Release(r) ==
    /\ slots' = slots + 1
    /\ FreeMutex(job[r].device)
    /\ UNCHANGED reader

GoTo(r, p) == phase' = [phase EXCEPT ![r] = p]

SetStatus(r, s) == status' = [status EXCEPT ![r] = s]

SetResult(r, s) == result' = [result EXCEPT ![r] = s]

Contact(r, i) ==
    /\ contacted' = [contacted EXCEPT ![r] = @ \union {i}]
    /\ UNCHANGED barred

\* What an empty process has in memory.
Fresh ==
    /\ Rest
    /\ futures' = {}
    /\ phase' = [r \in Runs |-> "none"]
    /\ loaded' = [r \in Runs |-> NoIdent]
    /\ result' = [r \in Runs |-> "NONE"]
    /\ leaving' = 0
    /\ cancelling' = {}
    /\ mutex' = [d \in Devices |-> FALSE]
    /\ slots' = Slots
    /\ reader' = [d \in Devices |-> "none"]

Init ==
    /\ status = [r \in Runs |-> "NONE"]
    /\ cancel = [r \in Runs |-> FALSE]
    /\ job = [r \in Runs |-> NoJob]
    /\ ident \in [Devices -> Idents]
    /\ archived = [d \in Devices |-> FALSE]
    /\ session = [u \in Users |-> 0]
    /\ allowed = [u \in Users |-> TRUE]
    /\ proc = "up"
    /\ dpc = "wait"
    /\ capacity = 0
    /\ active = {}
    /\ rows = {}
    /\ seen = {}
    /\ fresh = FALSE
    /\ cur = 0
    /\ futures = {}
    /\ phase = [r \in Runs |-> "none"]
    /\ loaded = [r \in Runs |-> NoIdent]
    /\ result = [r \in Runs |-> "NONE"]
    /\ leaving = 0
    /\ cancelling = {}
    /\ mutex = [d \in Devices |-> FALSE]
    /\ slots = Slots
    /\ reader = [d \in Devices |-> "none"]
    /\ contacted = [r \in Runs |-> {}]
    /\ barred = {}
    /\ used = [c \in Counters |-> 0]

-----------------------------------------------------------------------------
(* HTTP requests *)

\* enqueue: one INSERT ... SELECT adds the next row if there is room, with the
\* identity of the target and the session version of the actor, read just before, in
\* its parameters.
Enqueue(r) ==
    /\ Available
    /\ status[r] = "NONE"
    /\ \A q \in Runs : q < r => status[q] # "NONE"
    /\ Cardinality(Open) < QueueCapacity
    /\ \E k \in Kinds, u \in Users, d \in Devices \union {NoDevice} :
        /\ allowed[u]
        /\ (k = "discovery") <=> (d = NoDevice)
        /\ d # NoDevice => ~archived[d]
        /\ job' = [job EXCEPT ![r] =
                    [kind |-> k, device |-> d, owner |-> u,
                     target |-> IF d = NoDevice THEN NoIdent ELSE ident[d],
                     session |-> session[u]]]
    /\ SetStatus(r, "PENDING")
    /\ UNCHANGED <<cancel, inventory, accounts, elsewhere, execs, locks, history,
                   used>>

\* cancel_run reads the status of the row ...
RequestCancel(r) ==
    /\ Serving
    /\ status[r] \in {"PENDING", "RUNNING"}
    /\ used["cancels"] < MaxCancels
    /\ cancelling' = cancelling \union {r}
    /\ Use("cancels")
    /\ UNCHANGED <<persisted, proc, disp, futures, execs, leaving, locks, history>>

\* ... and sets the flag, whatever became of the row since.
RecordCancel(r) ==
    /\ r \in cancelling
    /\ cancel' = [cancel EXCEPT ![r] = TRUE]
    /\ cancelling' = cancelling \ {r}
    /\ barred' = barred \union (Pending \intersect {r})
    /\ UNCHANGED <<status, job, inventory, accounts, proc, disp, futures, execs,
                   leaving, locks, contacted, used>>

\* change_device and credential_item: the connection identity changes.
EditDevice(d) ==
    /\ Serving
    /\ used["edits"] < MaxEdits
    /\ \E i \in Idents \ {ident[d]} :
        ident' = [ident EXCEPT ![d] = i]
    /\ Use("edits")
    /\ UNCHANGED <<status, cancel, job, archived, accounts, elsewhere, execs, locks,
                   history>>

\* change_device (DELETE) and restore_device.
ArchiveOrRestore(d) ==
    /\ Serving
    /\ used["edits"] < MaxEdits
    /\ archived' = [archived EXCEPT ![d] = ~@]
    /\ Use("edits")
    /\ UNCHANGED <<status, cancel, job, ident, accounts, elsewhere, execs, locks,
                   history>>

\* user_item and the password page: every change of role, state or password
\* advances the session version.
ChangeAccess(u) ==
    /\ Serving
    /\ used["edits"] < MaxEdits
    /\ session' = [session EXCEPT ![u] = @ + 1]
    /\ \E ok \in BOOLEAN : allowed' = [allowed EXCEPT ![u] = ok]
    /\ barred' = barred \union {r \in Pending : job[r].owner = u}
    /\ Use("edits")
    /\ UNCHANGED <<status, cancel, job, inventory, elsewhere, execs, locks,
                   contacted>>

-----------------------------------------------------------------------------
(* HTTP readers of device_lock: health, interfaces, VLANs, firewall *)

\* The request takes the device's mutex; one that finds it held answers BUSY.
ReaderTakesMutex(d) ==
    /\ Serving
    /\ used["reads"] < MaxReads
    /\ ~archived[d]
    /\ ~mutex[d]
    /\ mutex' = [mutex EXCEPT ![d] = TRUE]
    /\ reader' = [reader EXCEPT ![d] = "slot"]
    /\ Use("reads")
    /\ UNCHANGED <<persisted, elsewhere, execs, slots, history>>

ReaderTakesSlot(d) ==
    /\ reader[d] = "slot"
    /\ slots > 0
    /\ slots' = slots - 1
    /\ reader' = [reader EXCEPT ![d] = "in"]
    /\ UNCHANGED <<persisted, elsewhere, execs, mutex, history, used>>

\* No slot within a second.
ReaderTimesOut(d) ==
    /\ reader[d] = "slot"
    /\ slots = 0
    /\ FreeMutex(d)
    /\ reader' = [reader EXCEPT ![d] = "none"]
    /\ UNCHANGED <<persisted, elsewhere, execs, slots, history, used>>

ReaderLeaves(d) ==
    /\ reader[d] = "in"
    /\ slots' = slots + 1
    /\ FreeMutex(d)
    /\ reader' = [reader EXCEPT ![d] = "none"]
    /\ UNCHANGED <<persisted, elsewhere, execs, history, used>>

ReaderStep(d) == ReaderTakesSlot(d) \/ ReaderTimesOut(d) \/ ReaderLeaves(d)

-----------------------------------------------------------------------------
(* The dispatcher thread: JobManager.loop and dispatch_pending *)

\* Mutant of Undone: finished futures are never dropped.
UndoneAll == futures

\* Futures that are not done.
Undone == {r \in futures : phase[r] # "none"}

\* Finished futures are dropped and the free capacity is computed.
Poll ==
    /\ proc = "up"
    /\ dpc = "wait"
    /\ dpc' = "running"
    /\ futures' = Undone
    /\ capacity' = IF Cardinality(Undone) < Workers
                   THEN Workers - Cardinality(Undone) ELSE 0
    /\ UNCHANGED <<active, rows, seen, fresh, cur, persisted, proc, execs, leaving,
                   cancelling, locks, history, used>>

\* active_targets: the devices of the RUNNING rows.
ReadRunning ==
    /\ dpc = "running"
    /\ dpc' = "pending"
    /\ active' = {d \in Devices : \E r \in Running : job[r].device = d}
    /\ UNCHANGED <<capacity, rows, seen, fresh, cur, persisted, proc, futures,
                   execs, leaving, cancelling, locks, history, used>>

\* The PENDING rows, with the flags they have at this moment.
ReadPending ==
    /\ dpc = "pending"
    /\ dpc' = "rows"
    /\ rows' = Pending
    /\ seen' = {r \in Pending : cancel[r]}
    /\ fresh' = TRUE
    /\ UNCHANGED <<capacity, active, cur, persisted, proc, futures, execs, leaving,
                   cancelling, locks, history, used>>

\* Mutant of AtRow: the newest row first.
AtNewestRow(r) ==
    /\ dpc = "rows"
    /\ r \in rows
    /\ \A q \in rows : q <= r

AtRow(r) ==
    /\ dpc = "rows"
    /\ r \in rows
    /\ \A q \in rows : r <= q

\* Mutant of SeenCancelled: looked at only when a worker is free.
SeenCancelledIfFree(r) == capacity > 0 /\ cancel[r]

\* cancel_requested as the dispatcher's session shows it: the value of the query
\* until the first commit of the pass expires the rows, the current one after it.
SeenCancelled(r) == IF fresh THEN r \in seen ELSE cancel[r]

\* Mutant of MustWait: the devices of the RUNNING rows are not considered.
MustWaitForWorker(r) == capacity = 0

MustWait(r) == capacity = 0 \/ job[r].device \in active

\* A commit expires the rows of the dispatcher's session.
Expire == seen' = {} /\ fresh' = FALSE

CancelRow(r) ==
    /\ AtRow(r)
    /\ SeenCancelled(r)
    /\ SetStatus(r, "CANCELLED")
    /\ rows' = rows \ {r}
    /\ Expire
    /\ UNCHANGED <<dpc, capacity, active, cur, cancel, job, inventory, accounts,
                   proc, futures, execs, leaving, cancelling, locks, history, used>>

SkipRow(r) ==
    /\ AtRow(r)
    /\ ~SeenCancelled(r)
    /\ MustWait(r)
    /\ rows' = rows \ {r}
    /\ UNCHANGED <<dpc, capacity, active, seen, fresh, cur, persisted, proc,
                   futures, execs, leaving, cancelling, locks, history, used>>

\* The row is committed as RUNNING before the pool knows of it.
ClaimRow(r) ==
    /\ AtRow(r)
    /\ ~SeenCancelled(r)
    /\ ~MustWait(r)
    /\ SetStatus(r, "RUNNING")
    /\ dpc' = "submit"
    /\ cur' = r
    /\ rows' = rows \ {r}
    /\ Expire
    /\ UNCHANGED <<capacity, active, cancel, job, inventory, accounts, proc,
                   futures, execs, leaving, cancelling, locks, history, used>>

\* pool.submit.  A future of an earlier attempt that is still returning is
\* overwritten in futures.
SubmitRow ==
    /\ dpc = "submit"
    /\ proc # "shut"
    /\ futures' = futures \union {cur}
    /\ GoTo(cur, "pool")
    /\ leaving' = leaving + IF phase[cur] = "returning" THEN 1 ELSE 0
    /\ dpc' = "rows"
    /\ active' = active \union ({job[cur].device} \ {NoDevice})
    /\ capacity' = capacity - 1
    /\ cur' = 0
    /\ UNCHANGED <<rows, seen, fresh, persisted, proc, loaded, result, cancelling,
                   locks, history, used>>

\* The pool is shut down: submit raises, the row waits for the next start.
RefuseRow ==
    /\ dpc = "submit"
    /\ proc = "shut"
    /\ SetStatus(cur, "PENDING")
    /\ Rest
    /\ UNCHANGED <<cancel, job, inventory, accounts, proc, futures, execs, leaving,
                   cancelling, locks, history, used>>

EndPass ==
    /\ dpc = "rows"
    /\ rows = {}
    /\ Rest
    /\ UNCHANGED <<persisted, proc, futures, execs, leaving, cancelling, locks,
                   history, used>>

\* A query or a commit of the pass fails: loop logs the error and starts over.  When
\* it is the commit of RefuseRow, the row stays RUNNING.
PassFails ==
    /\ dpc \in {"running", "pending", "rows"} \/ (dpc = "submit" /\ proc = "shut")
    /\ used["faults"] < MaxFaults
    /\ Rest
    /\ Use("faults")
    /\ UNCHANGED <<persisted, proc, futures, execs, leaving, cancelling, locks,
                   history>>

DispatcherStep ==
    \/ Poll
    \/ ReadRunning
    \/ ReadPending
    \/ \E r \in Runs : CancelRow(r) \/ SkipRow(r) \/ ClaimRow(r)
    \/ SubmitRow
    \/ RefuseRow
    \/ EndPass

-----------------------------------------------------------------------------
(* The worker threads: JobManager.execute *)

\* Mutant of Cancelled: the flag is left to the dispatcher's check.
NeverCancelled(r) == FALSE

Cancelled(r) == cancel[r]

\* A thread takes the execution and loads the row; a cancelled one ends here.
Load(r) ==
    /\ phase[r] = "pool"
    /\ BusyThreads < Workers
    /\ IF Cancelled(r)
       THEN SetStatus(r, "CANCELLED") /\ GoTo(r, "returning")
       ELSE GoTo(r, "loaded") /\ UNCHANGED status
    /\ UNCHANGED <<cancel, job, inventory, accounts, elsewhere, loaded, result,
                   locks, history, used>>

\* Mutant of Authorized: the recorded identity is not compared.
AuthorizedAnyTarget(r) ==
    /\ allowed[job[r].owner]
    /\ session[job[r].owner] = job[r].session
    /\ OnDevice(r) => ~archived[job[r].device]

\* The owner may still operate with the access it had, and the device is the one
\* the run was queued for.
Authorized(r) ==
    /\ allowed[job[r].owner]
    /\ session[job[r].owner] = job[r].session
    /\ OnDevice(r) => /\ ~archived[job[r].device]
                      /\ ident[job[r].device] = job[r].target

Authorize(r) ==
    /\ phase[r] = "loaded"
    /\ Authorized(r)
    /\ IF OnDevice(r)
       THEN GoTo(r, "ready") /\ loaded' = [loaded EXCEPT ![r] = ident[job[r].device]]
       ELSE GoTo(r, "probe") /\ UNCHANGED loaded
    /\ UNCHANGED <<persisted, elsewhere, result, locks, history, used>>

\* The execution goes on to commit FAILED.
Fail(r) ==
    /\ GoTo(r, "commit")
    /\ SetResult(r, "FAILED")
    /\ UNCHANGED loaded

\* FORBIDDEN, AUTHORIZATION_CHANGED, NOT_FOUND or TARGET_CHANGED; for an Ansible run
\* also a missing executable or credential, before it asks for the lock.
RefuseRun(r) ==
    /\ \/ phase[r] = "loaded" /\ ~Authorized(r)
       \/ phase[r] = "ready" /\ job[r].kind \in {"vlan", "playbook"}
    /\ Fail(r)
    /\ UNCHANGED <<persisted, elsewhere, locks, history, used>>

\* Mutant of Held: a held mutex does not stop the execution.
NeverHeld(d) == FALSE

Held(d) == mutex[d]

\* device_lock: the mutex is tried once, without waiting.
TryMutex(r) ==
    /\ phase[r] = "ready"
    /\ IF Held(job[r].device)
       THEN GoTo(r, "busy") /\ UNCHANGED mutex
       ELSE GoTo(r, "slot") /\ mutex' = [mutex EXCEPT ![job[r].device] = TRUE]
    /\ UNCHANGED <<persisted, elsewhere, loaded, result, slots, reader, history,
                   used>>

\* Mutant of TakeSlot: the answer of the timed acquire is ignored.
TakeSlotAlways(r) ==
    /\ phase[r] = "slot"
    /\ slots' = slots - 1
    /\ GoTo(r, "work")
    /\ UNCHANGED <<persisted, elsewhere, loaded, result, mutex, reader, history,
                   used>>

TakeSlot(r) ==
    /\ phase[r] = "slot"
    /\ slots > 0
    /\ slots' = slots - 1
    /\ GoTo(r, "work")
    /\ UNCHANGED <<persisted, elsewhere, loaded, result, mutex, reader, history,
                   used>>

\* Mutant of SlotTimeout: the mutex is kept.
SlotTimeoutLeaks(r) ==
    /\ phase[r] = "slot"
    /\ slots = 0
    /\ GoTo(r, "busy")
    /\ UNCHANGED <<persisted, elsewhere, loaded, result, locks, history, used>>

\* No slot within a second: the mutex is given back.
SlotTimeout(r) ==
    /\ phase[r] = "slot"
    /\ slots = 0
    /\ FreeMutex(job[r].device)
    /\ GoTo(r, "busy")
    /\ UNCHANGED <<persisted, elsewhere, loaded, result, slots, reader, history,
                   used>>

\* retryable_before_network: the row goes back to PENDING.
Requeue(r) ==
    /\ phase[r] = "busy"
    /\ SetStatus(r, "PENDING")
    /\ GoTo(r, "returning")
    /\ loaded' = [loaded EXCEPT ![r] = NoIdent]
    /\ UNCHANGED <<cancel, job, inventory, accounts, elsewhere, result, locks,
                   history, used>>

\* capture: the configuration of the device the session loaded is exported.
Export(r) ==
    /\ phase[r] = "work"
    /\ job[r].kind \in {"backup", "vlan"}
    /\ Contact(r, loaded[r])
    /\ GoTo(r, "export")
    /\ UNCHANGED <<persisted, elsewhere, loaded, result, locks, used>>

\* The pre-change backup is committed; the commit expires the session's device.
BackupSaved(r) ==
    /\ phase[r] = "export"
    /\ job[r].kind = "vlan"
    /\ GoTo(r, "saved")
    /\ UNCHANGED <<persisted, elsewhere, loaded, result, locks, history, used>>

\* run_ansible writes the inventory from the device object and starts Ansible.  After
\* a pre-change backup the object is read again.
Launch(r) ==
    /\ \/ /\ phase[r] = "work"
          /\ job[r].kind = "playbook"
          /\ UNCHANGED loaded
       \/ /\ phase[r] = "saved"
          /\ loaded' = [loaded EXCEPT ![r] = ident[job[r].device]]
    /\ Contact(r, loaded'[r])
    /\ GoTo(r, "change")
    /\ UNCHANGED <<persisted, elsewhere, result, locks, used>>

\* A backup run has its copy; Ansible succeeded, or was stopped for a cancellation.
WorkDone(r) ==
    /\ \/ phase[r] = "export" /\ job[r].kind = "backup"
       \/ phase[r] = "change"
    /\ Release(r)
    /\ GoTo(r, "finish")
    /\ UNCHANGED <<persisted, elsewhere, loaded, result, history, used>>

\* Mutant of WorkFails: every error under the lock may be retried.
WorkFailsRetry(r) ==
    /\ phase[r] \in Inside
    /\ Release(r)
    /\ GoTo(r, "busy")
    /\ UNCHANGED <<persisted, elsewhere, loaded, result, history, used>>

\* Any error under the lock, before or after the device was contacted.
WorkFails(r) ==
    /\ phase[r] \in Inside
    /\ Release(r)
    /\ Fail(r)
    /\ UNCHANGED <<persisted, elsewhere, history, used>>

\* discovery.scan takes no device lock.
Probe(r) ==
    /\ phase[r] = "probe"
    /\ Contact(r, NoIdent)
    /\ GoTo(r, "scan")
    /\ UNCHANGED <<persisted, elsewhere, loaded, result, locks, used>>

\* The row is refreshed; a cancel request seen here decides the outcome.
Settle(r) ==
    /\ phase[r] \in {"scan", "finish"}
    /\ SetResult(r, IF cancel[r] THEN "CANCELLED" ELSE "SUCCESS")
    /\ GoTo(r, "commit")
    /\ UNCHANGED <<persisted, elsewhere, loaded, locks, history, used>>

\* An unexpected error, INTERNAL_ERROR, outside the lock.
InternalError(r) ==
    /\ phase[r] \in {"loaded", "ready", "probe", "scan", "finish"}
    /\ used["faults"] < MaxFaults
    /\ Fail(r)
    /\ Use("faults")
    /\ UNCHANGED <<persisted, elsewhere, locks, history>>

\* The final commit.
CommitResult(r) ==
    /\ phase[r] = "commit"
    /\ SetStatus(r, result[r])
    /\ GoTo(r, "returning")
    /\ SetResult(r, "NONE")
    /\ loaded' = [loaded EXCEPT ![r] = NoIdent]
    /\ UNCHANGED <<cancel, job, inventory, accounts, elsewhere, locks, history, used>>

\* The last commit of an execution fails: nobody handles the error, the row stays.
CommitFails(r) ==
    /\ phase[r] \in {"busy", "commit"}
    /\ used["faults"] < MaxFaults
    /\ GoTo(r, "returning")
    /\ SetResult(r, "NONE")
    /\ loaded' = [loaded EXCEPT ![r] = NoIdent]
    /\ Use("faults")
    /\ UNCHANGED <<persisted, elsewhere, locks, history>>

\* The thread leaves execute and the future is done.
Return(r) ==
    /\ phase[r] = "returning"
    /\ GoTo(r, "none")
    /\ UNCHANGED <<persisted, elsewhere, loaded, result, locks, history, used>>

ReturnSuperseded ==
    /\ leaving > 0
    /\ leaving' = leaving - 1
    /\ UNCHANGED <<persisted, proc, disp, futures, execs, cancelling, locks,
                   history, used>>

WorkerStep(r) ==
    \/ Load(r) \/ Authorize(r) \/ RefuseRun(r)
    \/ TryMutex(r) \/ TakeSlot(r) \/ SlotTimeout(r) \/ Requeue(r)
    \/ Export(r) \/ BackupSaved(r) \/ Launch(r) \/ WorkDone(r) \/ WorkFails(r)
    \/ Probe(r) \/ Settle(r) \/ CommitResult(r) \/ Return(r)

-----------------------------------------------------------------------------
(* The process: close, a kill, JobManager.__init__ *)

\* close sets stop and waits at most two seconds for the dispatcher.
BeginClose ==
    /\ proc = "up"
    /\ used["stops"] < MaxStops
    /\ proc' = "closing"
    /\ Use("stops")
    /\ UNCHANGED <<persisted, disp, futures, execs, leaving, cancelling, locks,
                   history>>

\* pool.shutdown(wait, cancel_futures): executions nobody started are dropped.
ShutPool ==
    /\ proc = "closing"
    /\ proc' = "shut"
    /\ phase' = [r \in Runs |-> IF phase[r] = "pool" THEN "none" ELSE phase[r]]
    /\ UNCHANGED <<persisted, disp, futures, loaded, result, leaving, cancelling,
                   locks, history, used>>

\* The last thread of the pool ended: the lock file is released, the process exits.
Exit ==
    /\ proc = "shut"
    /\ BusyThreads = 0
    /\ proc' = "down"
    /\ Fresh
    /\ UNCHANGED <<persisted, history, used>>

\* The process is killed.
Crash ==
    /\ Serving
    /\ used["stops"] < MaxStops
    /\ proc' = "down"
    /\ Fresh
    /\ Use("stops")
    /\ UNCHANGED <<persisted, history>>

\* Mutant of AfterRestart: rows left RUNNING are not looked at.
AfterRestartSame(s) == s

AfterRestart(s) == IF s = "RUNNING" THEN "INTERRUPTED" ELSE s

\* JobManager.__init__: rows left RUNNING by the previous process are INTERRUPTED.
Restart ==
    /\ proc = "down"
    /\ proc' = "up"
    /\ status' = [r \in Runs |-> AfterRestart(status[r])]
    /\ UNCHANGED <<cancel, job, inventory, accounts, disp, futures, execs, leaving,
                   cancelling, locks, history, used>>

ProcessStep == ShutPool \/ Exit \/ Restart

-----------------------------------------------------------------------------

Next ==
    \/ \E r \in Runs : Enqueue(r) \/ RequestCancel(r) \/ RecordCancel(r)
    \/ \E d \in Devices : EditDevice(d) \/ ArchiveOrRestore(d)
    \/ \E u \in Users : ChangeAccess(u)
    \/ \E d \in Devices : ReaderTakesMutex(d) \/ ReaderStep(d)
    \/ DispatcherStep
    \/ PassFails
    \/ \E r \in Runs : WorkerStep(r) \/ InternalError(r) \/ CommitFails(r)
    \/ ReturnSuperseded
    \/ BeginClose
    \/ Crash
    \/ ProcessStep

Spec == Init /\ [][Next]_vars

\* The dispatcher thread is scheduled.
DispatcherFairness == WF_vars(DispatcherStep)

\* Pool and request threads are scheduled, and the supervisor restarts the process.
WorkerFairness ==
    /\ \A r \in Runs : WF_vars(WorkerStep(r))
    /\ WF_vars(ReturnSuperseded)
    /\ \A d \in Devices : WF_vars(ReaderStep(d))
    /\ WF_vars(ProcessStep)

\* Nothing else is assumed here: executions may hang for ever.
FairSpec == Spec /\ DispatcherFairness

-----------------------------------------------------------------------------
(* Properties *)

TypeOK ==
    /\ status \in [Runs -> Statuses]
    /\ cancel \in [Runs -> BOOLEAN]
    /\ job \in [Runs -> Jobs]
    /\ ident \in [Devices -> Idents]
    /\ archived \in [Devices -> BOOLEAN]
    /\ session \in [Users -> Nat]
    /\ allowed \in [Users -> BOOLEAN]
    /\ proc \in {"down", "up", "closing", "shut"}
    /\ dpc \in {"wait", "running", "pending", "rows", "submit"}
    /\ capacity \in Nat
    /\ active \in SUBSET Devices
    /\ rows \in SUBSET Runs
    /\ seen \in SUBSET Runs
    /\ fresh \in BOOLEAN
    /\ cur \in 0..MaxRuns
    /\ futures \in SUBSET Runs
    /\ phase \in [Runs -> Phases]
    /\ loaded \in [Runs -> Idents \union {NoIdent}]
    /\ result \in [Runs -> Outcomes \union {"NONE"}]
    /\ leaving \in Nat
    /\ cancelling \in SUBSET Runs
    /\ mutex \in [Devices -> BOOLEAN]
    /\ slots \in Nat
    /\ reader \in [Devices -> {"none", "slot", "in"}]
    /\ contacted \in [Runs -> SUBSET (Idents \union {NoIdent})]
    /\ barred \in SUBSET Runs
    /\ used \in [Counters -> Nat]

\* Two runs of one device are never RUNNING together, whatever is requeued,
\* cancelled or interrupted while the dispatcher works from its snapshot.
OneRunPerDevice ==
    \A q, r \in Running :
        (q # r /\ OnDevice(q)) => job[q].device # job[r].device

\* "Submission order is preserved per device": a run that was started or that
\* contacted its device has no earlier run of the device still open, also when the
\* earlier one went back to PENDING.
DeviceFifo ==
    \A q, r \in Runs :
        /\ q < r
        /\ OnDevice(q)
        /\ job[q].device = job[r].device
        /\ status[r] = "RUNNING" \/ contacted[r] # {}
        => status[q] \in Outcomes

\* A device is used by at most one execution or HTTP reader at a time.
DeviceExclusive ==
    \A r \in Runs :
        phase[r] \in Inside =>
            /\ reader[job[r].device] = "none"
            /\ \A q \in Runs \ {r} :
                phase[q] \in Inside => job[q].device # job[r].device

\* No path of device_lock leaks the mutex of a device or a connection slot: each is
\* held exactly when somebody is between its acquisition and its release.
LocksBalanced ==
    /\ \A d \in Devices :
        mutex[d] <=> \/ reader[d] # "none"
                     \/ \E r \in Runs : /\ job[r].device = d
                                        /\ phase[r] \in Inside \union {"slot"}
    /\ slots = Slots - Cardinality({r \in Runs : phase[r] \in Inside})
                     - Cardinality({d \in Devices : reader[d] = "in"})

\* "Ambiguous or partially executed work is never replayed": once anything was sent
\* for a run it is neither waiting nor about to begin again.
NeverReplayed ==
    \A r \in Runs : contacted[r] # {} =>
        /\ status[r] # "PENDING"
        /\ phase[r] \notin {"pool", "loaded", "ready", "slot", "work", "probe", "busy"}

\* Rows and executions agree: an execution runs for a RUNNING row only, and, unless a
\* final commit was lost or the pool is shut down, a RUNNING row has its execution, or
\* the dispatcher is about to submit it.  A row that breaks this blocks its device
\* until the next start.
RowsMatchExecutions ==
    \A r \in Runs :
        /\ phase[r] \notin {"none", "returning"} => status[r] = "RUNNING"
        /\ /\ status[r] = "RUNNING"
           /\ proc \in {"up", "closing"}
           /\ used["faults"] = 0
           =>
            \/ phase[r] \notin {"none", "returning"}
            \/ dpc = "submit" /\ cur = r

\* A backup or a plain playbook run talks to no identity but the one it was queued for.
QueuedTargetHonoured ==
    \A r \in Runs :
        job[r].kind \in {"backup", "playbook"} => contacted[r] \subseteq {job[r].target}

\* "A job whose target changed fails with TARGET_CHANGED" (docs/MIGRATION.md:58): every
\* contact of every run on a device is with the identity it was queued for.
EveryContactHonoured ==
    \A r \in Runs : OnDevice(r) => contacted[r] \subseteq {job[r].target}

\* "Cancelled before execution. No commands were sent.", and AUTHORIZATION_CHANGED: a
\* run whose cancellation was recorded, or whose owner's role, state or password
\* changed, while it waited never contacts anything, although the dispatcher may still
\* claim it from an older snapshot.
BarredSendsNothing == \A r \in barred : contacted[r] = {}

\* Every submitted run reaches a final status, provided threads are scheduled, stops
\* and HTTP readers are finitely many and no commit is lost.
EveryRunSettles ==
    WorkerFairness => \A r \in Runs : status[r] = "PENDING" ~> status[r] \in Outcomes

\* "Cancelled pending work is settled even when all executor slots are occupied": it
\* does not stay PENDING while the process is up, even when no execution ever makes
\* another step.
CancelledPendingSettles ==
    \A r \in Runs :
        (status[r] = "PENDING" /\ cancel[r]) ~> (status[r] # "PENDING" \/ proc # "up")

\* The queue keeps the promises of OperationLifecycle.
Lifecycle == INSTANCE OperationLifecycle WITH
    site <- [r \in Runs |-> job[r].device],
    touched <- [r \in Runs |-> contacted[r] # {}]

ImplementsLifecycle == Lifecycle!Spec
=============================================================================
