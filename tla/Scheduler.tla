----------------------------- MODULE Scheduler -----------------------------
(***************************************************************************)
(* Scheduled tasks of Narsika: the once-a-second tick of the dispatcher    *)
(* thread (app/services/scheduling.py), the requests that preview, save,   *)
(* pause, resume and run tasks (app/schedules_api.py), and the execution   *)
(* of the runs they submit as far as it looks at the task again.           *)
(*                                                                         *)
(* tick and the three writing requests exclude each other by LOCK and by   *)
(* SQLite's write reservation (BEGIN IMMEDIATE), but both use what was     *)
(* read before: tick its moment, a request the account it authenticated.   *)
(* tick handles a batch of tasks in one transaction, a task a step here;   *)
(* a failure rolls the whole batch back.                                   *)
(*                                                                         *)
(* Abstractions.                                                           *)
(*   - Times are whole numbers, the instants of ScheduleRules.             *)
(*   - A playbook's version and content are one value; a target identity   *)
(*     is a member of Idents, that of an archived device is NoIdent.       *)
(*   - The queue is only its capacity and the status of its rows (JobQueue *)
(*     has the rest): it claims rows in any order, and how a run ended is  *)
(*     not told apart.                                                     *)
(*   - A kill and the next start are one step; the clock may advance any   *)
(*     number of times before the first tick.                              *)
(***************************************************************************)
EXTENDS ScheduleRules, FiniteSets, Sequences

CONSTANTS
    MaxTasks,         \* tasks an installation may have (200)
    Stored,           \* the most tasks the database has at the beginning
    Devices,
    Selections,       \* lists of distinct devices a user may select
    Users,
    NoUser,
    Idents,           \* connection identities
    NoIdent,          \* identity of an archived device
    Books,            \* versions of the playbook
    NoBook,           \* no playbook: a backup task, or no active version
    Reviews,          \* keys of review tokens
    Keys,             \* keys of manual requests
    NoKey,
    Grace,            \* GRACE_SECONDS
    ReviewLife,       \* lifetime of a review (600 seconds)
    Capacity,         \* open rows of the operation queue (32)
    Batch,            \* tasks of one tick (50)
    MaxTickFailures,  \* MAX_TICK_FAILURES
    MaxTime,          \* bound: the last time of the clock
    Bounds            \* bound: how often the environment does each of Counted

Counted == {"requests", "changes", "faults", "crashes", "jumps", "others"}

ASSUME NumbersAssumption ==
    /\ MaxTasks \in Nat /\ Stored \in 0..MaxTasks /\ Grace \in Nat /\ ReviewLife \in Nat /\ MaxTime \in Nat
    /\ Capacity \in Nat /\ Batch \in Nat \ {0} /\ MaxTickFailures \in Nat \ {0}
    /\ Bounds \in [Counted -> Nat]

ASSUME NamesAssumption ==
    /\ NoUser \notin Users /\ NoIdent \notin Idents /\ NoBook \notin Books
    /\ NoKey \notin Reviews \union Keys
    /\ Keys \intersect Nat = {}

ASSUME ChoicesAssumption ==
    /\ 0..MaxTime \subseteq Instants
    /\ \A s \in Selections :
        /\ s \in Seq(Devices) /\ s # <<>>
        /\ \A i, j \in DOMAIN s : s[i] = s[j] => i = j

\* A search of LookAhead days finds one that is allowed and has the local time: next_time never fails.
ASSUME SearchAssumption ==
    \A r \in Rules, after \in 0..MaxTime :
        r.frequency \in {"daily", "weekly"} => Hits(r, after) # {}

Tasks == 1..MaxTasks

Times == Nat \union {NoDue}

Roles == {"ADMIN", "OPERATOR", "NONE"}

Operators == {"ADMIN", "OPERATOR"}

\* What a task does: its targets as they were reviewed, and the playbook.
Definitions == [targets : Seq([device : Devices, ident : Idents]),
                book : Books \union {NoBook}]

NoDefinition == [targets |-> <<>>, book |-> NoBook]

NoRule == [frequency |-> "none"]

\* A row of scheduled_task; revision 0 is no row yet.
NoTask == [revision |-> 0, owner |-> NoUser, enabled |-> FALSE, rule |-> NoRule,
           saved |-> NoDefinition, due |-> NoDue, attention |-> FALSE,
           creation |-> NoKey, review |-> NoKey]

\* What a review token holds; task 0 is a task to create.
NoReceipt == [actor |-> NoUser, session |-> 0, expires |-> 0, task |-> 0,
              revision |-> 0, rule |-> NoRule, enabled |-> FALSE,
              saved |-> NoDefinition]

\* A request past its own checks, waiting for LOCK, with the account as it
\* authenticated.
NoRequest == [op |-> "none", task |-> 0, revision |-> 0, key |-> NoKey,
              enabled |-> FALSE, role |-> "NONE", session |-> 0]

NoUndo == [task |-> <<>>, ledger |-> {}, rows |-> 0]

VARIABLES
    clock,      \* the system clock
    task,       \* rows of scheduled_task
    ledger,     \* rows of schedule_occurrence
    run,        \* rows of operation_run that belong to tasks, with schedule_run
    others,     \* how many other rows of operation_run are open
    role,       \* role of each account; NONE is inactive, viewer or new password
    session,    \* session_version of each account
    ident,      \* connection identity of each device
    book,       \* active version of the playbook
    broken,     \* tasks whose validation raises something unexpected
    receipt,    \* what was reviewed under each key
    request,    \* the request each account has waiting
    pc,         \* tick: idle, asked (moment read), work (in the transaction) or
                \* quarantine
    moment,     \* tick's moment
    batch,      \* tasks tick still has to handle; the one to quarantine
    undo,       \* the database before tick's transaction
    fails,      \* FAILURES
    barred,     \* rows that became stale while PENDING, or were submitted stale
    used        \* how much of each bound was used

accounts == <<role, session>>
world == <<accounts, ident, book, broken, others>>
ticker == <<pc, moment, batch, undo, fails>>
vars == <<clock, task, ledger, run, world, receipt, request, ticker, barred, used>>

-----------------------------------------------------------------------------

\* tick or a request holds LOCK, the latter only inside one step.
LockFree == pc \notin {"work", "quarantine"}

\* No transaction has the write reservation.
DbFree == pc # "work"

May(c) ==
    /\ used[c] < Bounds[c]
    /\ used' = [used EXCEPT ![c] = @ + 1]

Existing == {t \in Tasks : task[t].revision > 0}

RunIds == DOMAIN run

Open(r) == run[r].status \in {"PENDING", "RUNNING"}

Pending(t) == {r \in RunIds : run[r].task = t /\ run[r].status = "PENDING"}

OpenRows == Cardinality({r \in RunIds : Open(r)}) + others

\* definition: what a selection and a playbook are now.
Definition(selection, b) ==
    [targets |-> [i \in DOMAIN selection |->
                    [device |-> selection[i], ident |-> ident[selection[i]]]],
     book |-> b]

\* definition and validate_definition accept only active devices and the active
\* version of a playbook.
Current(saved) ==
    /\ \A i \in DOMAIN saved.targets :
        saved.targets[i].ident = ident[saved.targets[i].device]
    /\ saved.book \in {NoBook, book}

\* validate_definition, when the owner has role seen.
Valid(t, seen) == seen \in Operators /\ Current(task[t].saved)

-----------------------------------------------------------------------------
(* dispatch *)

\* Mutant of Recorded: the receipt of an earlier dispatch is not looked up.
NeverRecorded(t, source, key) == FALSE

Recorded(t, source, key) ==
    \E o \in ledger : o.task = t /\ o.source = source /\ o.key = key

\* Mutant of Active: only running rows count.
ActiveRunning(t) == \E r \in RunIds : run[r].task = t /\ run[r].status = "RUNNING"

\* has_active.
Active(t) == \E r \in RunIds : run[r].task = t /\ Open(r)

\* Mutant of HasRoom: room for the first target is enough.
HasRoomForOne(t) == OpenRows < Capacity

HasRoom(t) == OpenRows + Len(task[t].saved.targets) <= Capacity

\* What dispatch does with an occurrence; the owner has role seen.
Verdict(t, source, key, seen) ==
    IF Recorded(t, source, key) THEN "EXISTING"
    ELSE IF Active(t) THEN "SKIPPED_OVERLAP"
    ELSE IF t \in broken THEN "ERROR"
    ELSE IF ~Valid(t, seen) THEN "BLOCKED"
    ELSE IF ~HasRoom(t) THEN "SKIPPED_CAPACITY"
    ELSE "QUEUED"

\* The receipt of an occurrence, with the devices it was for.
AddOccurrence(t, verdict, source, key, due, at) ==
    ledger' =
        IF verdict = "EXISTING" THEN ledger
        ELSE ledger \union
            {[task |-> t, source |-> source, key |-> key, due |-> due, at |-> at,
              status |-> verdict, revision |-> task[t].revision,
              devices |-> {task[t].saved.targets[i].device :
                            i \in DOMAIN task[t].saved.targets}]}

\* enqueue for every target, with the owner's session version as seen.
Enqueue(t, verdict, source, key, seen) ==
    run' =
        IF verdict # "QUEUED" THEN run
        ELSE run \o [i \in DOMAIN task[t].saved.targets |->
                [task |-> t, source |-> source, key |-> key,
                 device |-> task[t].saved.targets[i].device,
                 target |-> ident[task[t].saved.targets[i].device],
                 revision |-> task[t].revision, session |-> seen,
                 status |-> "PENDING", phase |-> "none"]]

\* A BLOCKED occurrence pauses the task.
Blocked(row, verdict) ==
    [row EXCEPT !.enabled = @ /\ verdict # "BLOCKED",
                !.attention = @ \/ verdict = "BLOCKED"]

-----------------------------------------------------------------------------
\* A task saved earlier, by a review that nobody has any more.
StoredRow(u, rule, selection, b) ==
    [NoTask EXCEPT !.revision = 1, !.owner = u, !.enabled = TRUE, !.rule = rule,
                   !.saved = Definition(selection, b),
                   !.due = NextTime(rule, 0)]

Init ==
    /\ clock = 0
    /\ ident \in [Devices -> Idents]
    /\ book \in IF Books = {} THEN {NoBook} ELSE Books
    /\ task \in [Tasks -> {NoTask} \union
                    {StoredRow(u, rule, s, b) : u \in Users, rule \in Rules,
                                                s \in Selections, b \in {NoBook, book}}]
    /\ \A t \in Tasks : task[t] # NoTask => t <= Stored /\ task[t].due # NoDue
    /\ ledger = {}
    /\ run = <<>>
    /\ others = 0
    /\ role \in [Users -> Operators]
    /\ session = [u \in Users |-> 0]
    /\ broken = {}
    /\ receipt = [k \in Reviews |-> NoReceipt]
    /\ request = [u \in Users |-> NoRequest]
    /\ pc = "idle"
    /\ moment = 0
    /\ batch = {}
    /\ undo = NoUndo
    /\ fails = [t \in Tasks |-> 0]
    /\ barred = {}
    /\ used = [c \in Counted |-> 0]

-----------------------------------------------------------------------------
(* Requests *)

\* manage: an operator only has his own tasks.
Manages(u, t, r) == r = "ADMIN" \/ task[t].owner = u

\* preview: a review of a new task, or of a new revision of an old one.  Nothing is
\* stored; the receipt is the token the user gets.
Preview(u, k) ==
    /\ role[u] \in Operators
    /\ receipt[k] = NoReceipt
    /\ \E t \in {0} \union Existing, s \in Selections, b \in {NoBook, book},
          rule \in Rules, enabled \in BOOLEAN :
        /\ t # 0 => Manages(u, t, role[u])
        /\ NoIdent \notin {ident[s[i]] : i \in DOMAIN s}
        /\ NextTime(rule, clock) # NoDue
        /\ receipt' = [receipt EXCEPT ![k] =
                        [actor |-> u, session |-> session[u],
                         expires |-> clock + ReviewLife, task |-> t,
                         revision |-> IF t = 0 THEN 0 ELSE task[t].revision,
                         rule |-> rule, enabled |-> enabled,
                         saved |-> Definition(s, b)]]
    /\ UNCHANGED <<clock, task, ledger, run, world, request, ticker, barred, used>>

Wait(u, q) ==
    /\ request[u] = NoRequest
    /\ role[u] \in Operators
    /\ May("requests")
    /\ request' = [request EXCEPT ![u] = [q EXCEPT !.role = role[u],
                                                   !.session = session[u]]]
    /\ UNCHANGED <<clock, task, ledger, run, world, receipt, ticker, barred>>

\* save checks the review before it waits for LOCK ...
SendSave(u, k) ==
    /\ receipt[k].actor = u
    /\ receipt[k].session = session[u]
    /\ receipt[k].expires >= clock
    /\ Wait(u, [NoRequest EXCEPT !.op = "save", !.key = k])

\* ... state and run_now only their form.
SendState(u, t) ==
    \E enabled \in BOOLEAN :
        Wait(u, [NoRequest EXCEPT !.op = "state", !.task = t, !.enabled = enabled,
                                  !.revision = task[t].revision])

SendRun(u, t, k) ==
    Wait(u, [NoRequest EXCEPT !.op = "run", !.task = t, !.key = k,
                              !.revision = task[t].revision])

Done(u) == request' = [request EXCEPT ![u] = NoRequest]

\* Mutant of Reviewed: an edit is not compared with the revision it was made from.
ReviewedAny(t, rc) == TRUE

\* The task is as it was when the edit was previewed.
Reviewed(t, rc) == task[t].revision = rc.revision

\* The task a review creates or edits.
TaskOf(rc) ==
    IF rc.task # 0 THEN rc.task
    ELSE CHOOSE t \in Tasks : /\ t \notin Existing
                              /\ \A s \in Tasks \ Existing : t <= s

SaveAccepted(u) ==
    LET k == request[u].key
        rc == receipt[k]
    IN  /\ request[u].op = "save"
        /\ \/ /\ rc.task # 0
              /\ Manages(u, rc.task, request[u].role)
              /\ task[rc.task].review # k
              /\ Reviewed(rc.task, rc)
           \/ /\ rc.task = 0
              /\ \A t \in Tasks : task[t].creation # k
              /\ Existing # Tasks
        /\ Current(rc.saved)
        /\ NextTime(rc.rule, clock) # NoDue

ApplySave(u) ==
    /\ LockFree
    /\ SaveAccepted(u)
    /\ LET k == request[u].key
           rc == receipt[k]
           t == TaskOf(rc)
           row == IF rc.task = 0
                  THEN [NoTask EXCEPT !.owner = u, !.creation = k]
                  ELSE task[t]
       IN  /\ task' = [task EXCEPT ![t] =
                        [row EXCEPT !.revision = @ + 1, !.rule = rc.rule,
                                    !.enabled = rc.enabled, !.saved = rc.saved,
                                    !.due = NextTime(rc.rule, clock),
                                    !.attention = FALSE, !.review = k]]
           /\ barred' = barred \union Pending(t)
    /\ Done(u)
    /\ UNCHANGED <<clock, ledger, run, world, receipt, ticker, used>>

\* The role of the owner that a request sees: its session holds its own account as
\* it was authenticated and loads any other.
SeenRole(u, t) == IF task[t].owner = u THEN request[u].role ELSE role[task[t].owner]

SeenSession(u, t) ==
    IF task[t].owner = u THEN request[u].session ELSE session[task[t].owner]

\* The checks state and run_now share.
Found(u) ==
    /\ Manages(u, request[u].task, request[u].role)
    /\ request[u].revision = task[request[u].task].revision

StateAccepted(u) ==
    LET t == request[u].task
    IN  /\ request[u].op = "state"
        /\ Found(u)
        /\ request[u].enabled =>
            /\ t \notin broken
            /\ Valid(t, SeenRole(u, t))
            /\ NextTime(task[t].rule, clock) # NoDue

\* Pause and Resume.
ApplyState(u) ==
    /\ LockFree
    /\ StateAccepted(u)
    /\ LET t == request[u].task
           on == request[u].enabled
       IN  task' = [task EXCEPT ![t].enabled = on,
                                ![t].due = IF on THEN NextTime(task[t].rule, clock)
                                                 ELSE @]
    /\ Done(u)
    /\ UNCHANGED <<clock, ledger, run, world, receipt, ticker, barred, used>>

ManualVerdict(u) ==
    LET t == request[u].task
    IN  Verdict(t, "manual", request[u].key, SeenRole(u, t))

RunAccepted(u) ==
    /\ request[u].op = "run"
    /\ Found(u)
    /\ ManualVerdict(u) # "ERROR"

\* Run now.  A request that waited too long queues with the account it once was.
ApplyRun(u) ==
    /\ LockFree
    /\ RunAccepted(u)
    /\ LET t == request[u].task
           verdict == ManualVerdict(u)
           seen == SeenSession(u, t)
       IN  /\ AddOccurrence(t, verdict, "manual", request[u].key, clock, clock)
           /\ Enqueue(t, verdict, "manual", request[u].key, seen)
           /\ task' = [task EXCEPT ![t] = Blocked(@, verdict)]
           /\ barred' = IF seen = session[task[t].owner] THEN barred
                        ELSE barred \union (Len(run) + 1)..Len(run')
    /\ Done(u)
    /\ UNCHANGED <<clock, world, receipt, ticker, used>>

\* A request that is refused, fails, or repeats what was done ends without a change.
Answer(u) ==
    /\ LockFree
    /\ request[u] # NoRequest
    /\ ~SaveAccepted(u) /\ ~StateAccepted(u) /\ ~RunAccepted(u)
    /\ Done(u)
    /\ UNCHANGED <<clock, task, ledger, run, world, receipt, ticker, barred, used>>

-----------------------------------------------------------------------------
(* tick *)

\* Mutant of Due: the query forgets that paused tasks keep their time.
DuePaused == {t \in Existing : task[t].due \in 0..moment}

\* The enabled tasks whose time has come.
Due == {t \in Existing : task[t].enabled /\ task[t].due \in 0..moment}

\* ORDER BY next_due, id.
Before(s, t) == task[s].due < task[t].due \/ (task[s].due = task[t].due /\ s < t)

\* LIMIT.
FirstDue == {t \in Due : Cardinality({s \in Due : Before(s, t)}) < Batch}

\* The task the loop is at.
Foremost == CHOOSE t \in batch : \A s \in batch \ {t} : Before(t, s)

\* tick is over, its locals are gone.
Idle == pc' = "idle" /\ moment' = 0

\* time.time() is read before LOCK is taken.
ReadClock ==
    /\ pc = "idle"
    /\ pc' = "asked"
    /\ moment' = clock
    /\ UNCHANGED <<clock, task, ledger, run, world, receipt, request, batch, undo,
                   fails, barred, used>>

\* LOCK, the first query, BEGIN IMMEDIATE and the second query.
BeginTick ==
    /\ pc = "asked"
    /\ IF Due = {}
       THEN Idle /\ UNCHANGED <<batch, undo>>
       ELSE /\ pc' = "work"
            /\ batch' = FirstDue
            /\ UNCHANGED moment
            /\ undo' = [task |-> task, ledger |-> ledger, rows |-> Len(run)]
    /\ UNCHANGED <<clock, task, ledger, run, world, receipt, request, fails, barred,
                   used>>

TickVerdict(t) ==
    LET due == task[t].due
    IN  IF moment - due <= Grace
        THEN Verdict(t, "scheduled", due, role[task[t].owner])
        ELSE IF Recorded(t, "scheduled", due) THEN "EXISTING" ELSE "MISSED"

\* Mutant of NextDue: the next time follows the one that was due.
NextAfterDue(t) == NextTime(task[t].rule, task[t].due)

NextDue(t) == NextTime(task[t].rule, moment)

Continues(t) == NextDue(t) # NoDue

\* One round of the loop: MISSED or dispatch, then next_time.
TickTask ==
    /\ pc = "work"
    /\ batch # {}
    /\ LET t == Foremost
           verdict == TickVerdict(t)
           due == task[t].due
           row == Blocked(task[t], verdict)
       IN  /\ verdict # "ERROR"
           /\ AddOccurrence(t, verdict, "scheduled", due, due, moment)
           /\ Enqueue(t, verdict, "scheduled", due, session[task[t].owner])
           /\ task' = [task EXCEPT ![t] =
                        [row EXCEPT !.enabled = row.enabled /\ Continues(t),
                                    !.due = NextDue(t)]]
           /\ batch' = batch \ {t}
    /\ UNCHANGED <<clock, world, receipt, request, pc, moment, undo, fails, barred,
                   used>>

Rollback ==
    /\ task' = undo.task
    /\ ledger' = undo.ledger
    /\ run' = SubSeq(run, 1, undo.rows)
    /\ undo' = NoUndo

\* Mutant of Persistent: one failure more is allowed.
PersistentLate(n) == n > MaxTickFailures

Persistent(n) == n >= MaxTickFailures

\* A task's dispatch raises: everything is rolled back; at the MAX_TICK_FAILURES-th
\* failure in a row the task is to be quarantined.
TickFails ==
    /\ pc = "work"
    /\ batch # {}
    /\ LET t == Foremost
           n == fails[t] + 1
       IN  /\ TickVerdict(t) = "ERROR"
           /\ IF Persistent(n)
              THEN /\ pc' = "quarantine"
                   /\ UNCHANGED moment
                   /\ batch' = {t}
                   /\ fails' = [fails EXCEPT ![t] = 0]
              ELSE /\ Idle
                   /\ batch' = {}
                   /\ fails' = [fails EXCEPT ![t] = n]
    /\ Rollback
    /\ UNCHANGED <<clock, world, receipt, request, barred, used>>

CommitTick ==
    /\ pc = "work"
    /\ batch = {}
    /\ Idle
    /\ undo' = NoUndo
    /\ fails' = [t \in Tasks |-> 0]
    /\ UNCHANGED <<clock, task, ledger, run, world, receipt, request, batch, barred,
                   used>>

\* The commit raises: no task is to blame.
CommitFails ==
    /\ pc = "work"
    /\ batch = {}
    /\ May("faults")
    /\ Idle
    /\ Rollback
    /\ UNCHANGED <<clock, world, receipt, request, batch, fails, barred>>

\* Mutant of Disabled: the task only gets its message.
DisabledNot(row) == [row EXCEPT !.attention = TRUE]

Disabled(row) == [row EXCEPT !.enabled = FALSE, !.attention = TRUE]

\* quarantine, in a transaction of its own.
Quarantine ==
    /\ pc = "quarantine"
    /\ Idle
    /\ batch' = {}
    /\ task' = [t \in Tasks |->
                    IF t \in batch THEN Disabled(task[t]) ELSE task[t]]
    /\ UNCHANGED <<clock, ledger, run, world, receipt, request, undo, fails, barred,
                   used>>

\* BEGIN IMMEDIATE or the transaction of quarantine raises; the loop goes on.
TickAborts ==
    /\ pc \in {"asked", "quarantine"}
    /\ May("faults")
    /\ Idle
    /\ batch' = {}
    /\ UNCHANGED <<clock, task, ledger, run, world, receipt, request, undo, fails,
                   barred>>

TickStep ==
    \/ ReadClock
    \/ BeginTick
    \/ TickTask
    \/ TickFails
    \/ CommitTick
    \/ Quarantine

-----------------------------------------------------------------------------
(* Executions, as jobs.py carries them out *)

Change(r, status, phase) ==
    run' = [run EXCEPT ![r].status = status, ![r].phase = phase]

Elsewhere == <<clock, task, ledger, world, receipt, request, ticker, barred, used>>

\* The dispatcher, which is also tick's thread, claims a row ...
Claim(r) ==
    /\ pc = "idle"
    /\ run[r].status = "PENDING"
    /\ Change(r, "RUNNING", "loaded")
    /\ UNCHANGED Elsewhere

\* ... or ends one that was cancelled.
Withdraw(r) ==
    /\ pc = "idle"
    /\ run[r].status = "PENDING"
    /\ Change(r, "ENDED", "none")
    /\ UNCHANGED Elsewhere

\* execute: the owner's access and the target are those of the row.
Authorized(r) ==
    LET owner == task[run[r].task].owner
    IN  /\ role[owner] \in Operators
        /\ session[owner] = run[r].session
        /\ ident[run[r].device] = run[r].target

Authorize(r) ==
    /\ run[r].phase = "loaded"
    /\ IF Authorized(r) THEN Change(r, "RUNNING", "checked")
       ELSE DbFree /\ Change(r, "ENDED", "none")
    /\ UNCHANGED Elsewhere

\* Mutant of Unchanged: the revision is not compared.
UnchangedBook(r) ==
    LET t == run[r].task
    IN  t \notin broken /\ task[t].saved.book \in {NoBook, book}

\* preflight: the task is read now.  Owner and device are the rows the execution has
\* loaded, so its checks of these repeat what Authorize found.
Unchanged(r) ==
    LET t == run[r].task
    IN  /\ task[t].revision = run[r].revision
        /\ t \notin broken
        /\ task[t].saved.book \in {NoBook, book}

Preflight(r) ==
    /\ run[r].phase = "checked"
    /\ IF Unchanged(r) THEN Change(r, "RUNNING", "cleared")
       ELSE DbFree /\ Change(r, "ENDED", "none")
    /\ UNCHANGED Elsewhere

\* The connection lock is taken and the device contacted ...
Contact(r) ==
    /\ run[r].phase = "cleared"
    /\ Change(r, "RUNNING", "sent")
    /\ UNCHANGED Elsewhere

\* ... or is busy, and the row waits again.
Requeue(r) ==
    /\ run[r].phase = "cleared"
    /\ DbFree
    /\ Change(r, "PENDING", "none")
    /\ UNCHANGED Elsewhere

Finish(r) ==
    /\ run[r].phase = "sent"
    /\ run[r].status = "RUNNING"
    /\ DbFree
    /\ Change(r, "ENDED", "sent")
    /\ UNCHANGED Elsewhere

-----------------------------------------------------------------------------
(* The world around *)

\* Device and credential pages; archiving and restoring.
ChangeDevice(d) ==
    /\ DbFree
    /\ May("changes")
    /\ \E i \in (Idents \union {NoIdent}) \ {ident[d]} :
        ident' = [ident EXCEPT ![d] = i]
    /\ UNCHANGED <<clock, task, ledger, run, accounts, book, broken, others, receipt,
                   request, ticker, barred>>

\* Role, state or password of an account; each starts a new session version.
ChangeAccess(u) ==
    /\ DbFree
    /\ May("changes")
    /\ \E r \in Roles : role' = [role EXCEPT ![u] = r]
    /\ session' = [session EXCEPT ![u] = @ + 1]
    /\ barred' = barred \union
        UNION {Pending(t) : t \in {s \in Tasks : task[s].owner = u}}
    /\ UNCHANGED <<clock, task, ledger, run, ident, book, broken, others, receipt,
                   request, ticker>>

\* A new version of the playbook is uploaded.
ReplaceBook ==
    /\ DbFree
    /\ May("changes")
    /\ \E b \in Books \ {book} : book' = b
    /\ UNCHANGED <<clock, task, ledger, run, accounts, ident, broken, others, receipt,
                   request, ticker, barred>>

\* Reading the playbook of a task begins or stops to fail.
BreakOrMend(t) ==
    /\ t \in Existing
    /\ May("faults")
    /\ broken' = IF t \in broken THEN broken \ {t} ELSE broken \union {t}
    /\ UNCHANGED <<clock, task, ledger, run, accounts, ident, book, others, receipt,
                   request, ticker, barred>>

\* The queue takes and ends runs of no task.
OtherQueued ==
    /\ DbFree
    /\ May("others")
    /\ OpenRows < Capacity
    /\ others' = others + 1
    /\ UNCHANGED <<clock, task, ledger, run, accounts, ident, book, broken, receipt,
                   request, ticker, barred>>

OtherEnds ==
    /\ DbFree
    /\ others > 0
    /\ others' = others - 1
    /\ UNCHANGED <<clock, task, ledger, run, accounts, ident, book, broken, receipt,
                   request, ticker, barred, used>>

Advance ==
    /\ clock < MaxTime
    /\ clock' = clock + 1
    /\ UNCHANGED <<task, ledger, run, world, receipt, request, ticker, barred, used>>

\* The system clock is set back.
JumpBack ==
    /\ May("jumps")
    /\ \E c \in 0..(clock - 1) : clock' = c
    /\ UNCHANGED <<task, ledger, run, world, receipt, request, ticker, barred>>

\* Killed and started again: memory is lost, an open transaction undone, and rows left
\* RUNNING are ended (INTERRUPTED).
Restart ==
    /\ May("crashes")
    /\ IF pc = "work"
       THEN task' = undo.task /\ ledger' = undo.ledger
       ELSE UNCHANGED <<task, ledger>>
    /\ run' = [r \in 1..(IF pc = "work" THEN undo.rows ELSE Len(run)) |->
                IF run[r].status # "RUNNING" THEN run[r]
                ELSE [run[r] EXCEPT !.status = "ENDED",
                                    !.phase = IF @ = "sent" THEN @ ELSE "none"]]
    /\ Idle
    /\ batch' = {}
    /\ undo' = NoUndo
    /\ fails' = [t \in Tasks |-> 0]
    /\ request' = [u \in Users |-> NoRequest]
    /\ UNCHANGED <<clock, world, receipt, barred>>

-----------------------------------------------------------------------------

Next ==
    \/ \E u \in Users, k \in Reviews : Preview(u, k) \/ SendSave(u, k)
    \/ \E u \in Users, t \in Existing : SendState(u, t)
    \/ \E u \in Users, t \in Existing, k \in Keys : SendRun(u, t, k)
    \/ \E u \in Users : ApplySave(u) \/ ApplyState(u) \/ ApplyRun(u) \/ Answer(u)
    \/ TickStep
    \/ CommitFails
    \/ TickAborts
    \/ \E r \in RunIds : \/ Claim(r) \/ Withdraw(r)
                         \/ Authorize(r) \/ Preflight(r)
                         \/ Contact(r) \/ Requeue(r) \/ Finish(r)
    \/ \E d \in Devices : ChangeDevice(d)
    \/ \E u \in Users : ChangeAccess(u)
    \/ ReplaceBook
    \/ \E t \in Tasks : BreakOrMend(t)
    \/ OtherQueued
    \/ OtherEnds
    \/ Advance
    \/ JumpBack
    \/ Restart

Spec == Init /\ [][Next]_vars

\* The dispatcher thread runs, time passes.
FairSpec == Spec /\ WF_vars(TickStep) /\ WF_vars(Advance)

-----------------------------------------------------------------------------
(* Properties *)

Occurrences ==
    [task : Tasks, source : {"scheduled", "manual"}, key : Nat \union Keys, due : Nat,
     at : Nat, status : {"QUEUED", "MISSED", "BLOCKED", "SKIPPED_OVERLAP",
                         "SKIPPED_CAPACITY"},
     revision : Nat \ {0}, devices : SUBSET Devices]

Rows ==
    [task : Tasks, source : {"scheduled", "manual"}, key : Nat \union Keys,
     device : Devices, target : Idents, revision : Nat \ {0}, session : Nat,
     status : {"PENDING", "RUNNING", "ENDED"},
     phase : {"none", "loaded", "checked", "cleared", "sent"}]

TaskRows ==
    [revision : Nat, owner : Users \union {NoUser}, enabled : BOOLEAN,
     rule : Rules \union {NoRule}, saved : Definitions, due : Times, attention : BOOLEAN,
     creation : Reviews \union {NoKey}, review : Reviews \union {NoKey}]

Receipts ==
    [actor : Users \union {NoUser}, session : Nat, expires : Nat,
     task : Tasks \union {0}, revision : Nat, rule : Rules \union {NoRule},
     enabled : BOOLEAN, saved : Definitions]

Requests ==
    [op : {"none", "save", "state", "run"}, task : Tasks \union {0}, revision : Nat,
     key : Reviews \union Keys \union {NoKey}, enabled : BOOLEAN, role : Roles,
     session : Nat]

\* The type of every variable; a task that has failed MAX_TICK_FAILURES times in a row
\* is not counted on.
TypeOK ==
    /\ clock \in 0..MaxTime
    /\ task \in [Tasks -> TaskRows]
    /\ ledger \subseteq Occurrences
    /\ run \in Seq(Rows)
    /\ others \in Nat
    /\ role \in [Users -> Roles]
    /\ session \in [Users -> Nat]
    /\ ident \in [Devices -> Idents \union {NoIdent}]
    /\ book \in Books \union {NoBook}
    /\ broken \subseteq Tasks
    /\ receipt \in [Reviews -> Receipts]
    /\ request \in [Users -> Requests]
    /\ pc \in {"idle", "asked", "work", "quarantine"}
    /\ moment \in 0..MaxTime
    /\ batch \subseteq Tasks
    /\ fails \in [Tasks -> 0..(MaxTickFailures - 1)]
    /\ barred \subseteq Nat
    /\ used \in [Counted -> Nat]

\* Queue + receipt commit together: an occurrence, by its time or by the key of a
\* manual request, submits at most one run for each device, whatever is retried,
\* rolled back, edited, restarted, or repeated because the clock was set back.
OncePerOccurrence ==
    \A q, r \in RunIds :
        /\ run[q].task = run[r].task
        /\ run[q].source = run[r].source
        /\ run[q].key = run[r].key
        /\ run[q].device = run[r].device
        => q = r

\* An occurrence submits a run for each of its targets or for none, and never more
\* than the queue has room for.
AllOrNone ==
    /\ OpenRows <= Capacity
    /\ \A o \in ledger :
        {run[r].device : r \in {q \in RunIds : /\ run[q].task = o.task
                                               /\ run[q].source = o.source
                                               /\ run[q].key = o.key}}
            = IF o.status = "QUEUED" THEN o.devices ELSE {}

\* Two occurrences of a task are never open together, scheduled or manual.
NoOverlap ==
    \A q, r \in RunIds :
        (Open(q) /\ Open(r) /\ run[q].task = run[r].task) =>
            run[q].source = run[r].source /\ run[q].key = run[r].key

\* "There is no burst of catch-up runs": unless the clock is set back, whatever an
\* occurrence was recorded as, the next one of its task was not yet due then.
NoBurst ==
    used["jumps"] = 0 =>
        \A o, p \in ledger :
            /\ o.task = p.task
            /\ o.source = "scheduled" /\ p.source = "scheduled"
            /\ o.due < p.due
            => o.at < p.due

\* "Runs still queued from the old revision are refused before they reach the
\* network", and so are runs whose owner's role, state or password changed while they
\* waited or while the request that queued them waited.
BarredRunsAreRefused == \A r \in barred \intersect RunIds : run[r].phase # "sent"

\* An enabled task is due at a time its rule stands for, and unless it is overdue or the
\* clock was set back, none comes before: whatever enables a task, edits it or takes its
\* time, on a clock that skips and repeats local times (docs/API.md: "DST gaps are
\* skipped; repeated wall times use the first occurrence").
EnabledIsScheduled ==
    \A t \in Existing : task[t].enabled =>
        /\ task[t].due # NoDue /\ IsTime(task[t].rule, task[t].due)
        /\ used["jumps"] = 0 =>
            \A m \in Instants : clock < m /\ m < task[t].due => ~IsTime(task[t].rule, m)

\* A new revision is exactly what was reviewed, against the revision it was reviewed
\* from: two edits from one revision are not both saved, and none is saved twice.
NoLostEdit ==
    [][\A t \in Existing : task'[t].revision # task[t].revision =>
        \E k \in Reviews : /\ receipt[k].task = t
                           /\ receipt[k].revision = task[t].revision
                           /\ task'[t].saved = receipt[k].saved
                           /\ task'[t].rule = receipt[k].rule]_vars

\* "Pause stops future runs": a tick that waited for the request that paused a task
\* records nothing for it.
PauseHolds ==
    [][\A o \in ledger' \ ledger : o.source = "scheduled" => task[o.task].enabled]_vars

\* A due task is handled, paused or rescheduled in the end, also while another task's
\* dispatch fails at every tick, and its own.
DueSettles ==
    \A t \in Tasks, d \in 0..MaxTime :
        (task[t].enabled /\ task[t].due = d /\ d <= clock)
            ~> ~(task[t].enabled /\ task[t].due = d)

\* docs/SCHEDULES.md:47, of BLOCKED: "The task is paused until it is reviewed."  Only a
\* new revision enables a task that needs attention.
BlockedUntilReviewed ==
    [][\A t \in Tasks :
        (task[t].attention /\ ~task[t].enabled /\ task'[t].enabled)
            => task'[t].revision # task[t].revision]_vars
=============================================================================
