------------------------------ MODULE Firewall ------------------------------
(***************************************************************************)
(* Firewall control of one device: a user reviews a change set, applies    *)
(* the receipt, and a worker executes it (app/firewall_api.py, execute in  *)
(* app/services/firewall.py, and of app/services/jobs.py and automation.py *)
(* what a firewall run passes through).  Everybody else works in between:  *)
(* other administrators of the device, of the accounts and of the          *)
(* inventory, a clock, a user who cancels, and a kill of the process.      *)
(*                                                                         *)
(* Abstractions.                                                           *)
(*   - A reading takes two steps, as the two commands of the Cisco one:    *)
(*     the rules first, bindings and remarks with the conclusion.          *)
(*   - Each connection identity of the device reaches a box of its own, of *)
(*     the platform the device has from the beginning.                     *)
(*   - Confirmations of a request are left out: it is refused without.     *)
(*   - A refused or repeated request, which changes nothing, is no step.   *)
(*   - A kill and the next start are one step.                             *)
(***************************************************************************)
EXTENDS FirewallPlan

CONSTANTS
    Reviews,    \* identifiers of receipts
    Users,
    Idents,     \* connection identities of the device
    Platforms,
    Requests,   \* change sets users ask for, by platform
    Initial,    \* the configuration at the beginning, by platform
    Edits(_, _),  \* what another administrator makes of a configuration, by platform
    MaxClaims,  \* bound: simultaneous requests to apply one receipt
    MaxEvents   \* bound: reviews, after the first counted twice, and what the environment does, in all

ASSUME FirewallAssumption ==
    /\ MaxClaims \in Nat /\ MaxEvents \in Nat /\ Idents # {}
    /\ Platforms \subseteq {"mikrotik", "cisco"}

VARIABLES
    platform,   \* platform of the device
    device,     \* its record: connection identity and whether it is archived
    box,        \* the configuration behind each identity
    account,    \* role, whether enabled, and session version of each user
    receipt,    \* rows of FirewallReview with the row of OperationRun
    claims,     \* requests to apply that passed their checks and have not claimed the receipt
    worker,     \* the request or the worker that holds the device lock for a receipt
    ansible,    \* the Ansible process of a receipt, of a session of its own
    since,      \* history: what was changed since the worker last looked at it
    events      \* how much of MaxEvents is used

vars == <<platform, device, box, account, receipt, claims, worker, ansible, since, events>>

Roles == {"VIEWER", "OPERATOR", "ADMIN"}

\* "rules" are those of the reviewed device, "result" is what a receipt made of the device it was sent to.
Looked == {"backup", "rules", "target", "account", "result"}

NoState == [rules |-> <<>>, bindings |-> 0, remarks |-> {}]

Configuration(state) == [rules |-> state.rules, bindings |-> state.bindings, remarks |-> state.remarks]

\* What a reading may show: the one of RouterOS has the filter alone.
IsConfiguration(p, state) ==
    /\ state = Configuration(state) /\ IsFilter(p, state.rules)
    /\ p = "mikrotik" => state.bindings = NoState.bindings /\ state.remarks = NoState.remarks

ASSUME InitialAssumption ==
    \A p \in Platforms :
        IsConfiguration(p, Initial[p]) /\ \A r \in Reviews : Foreign(p, r, Initial[p].rules)

Unused == [status |-> "NONE", run |-> "NONE", cancel |-> FALSE, expired |-> FALSE]

Idle == [step |-> "idle"]

Busy(step, plan) ==
    [step |-> step, plan |-> plan, seen |-> "nothing", rules |-> <<>>, ident |-> device.ident, saved |-> NoState]

Off == [on |-> FALSE, sent |-> 0, launched |-> 0]

Init ==
    /\ platform \in Platforms
    /\ \E i \in Idents : device = [ident |-> i, archived |-> FALSE]
    /\ box = [i \in Idents |-> Initial[platform]]
    /\ account \in [Users -> [role : Roles, enabled : {TRUE}, version : {0}]]
    /\ receipt = [r \in Reviews |-> Unused]
    /\ claims = [r \in Reviews |-> 0]
    /\ worker = [r \in Reviews |-> Idle]
    /\ ansible = [r \in Reviews |-> Off]
    /\ since = [r \in Reviews |-> {}]
    /\ events = 0

LockFree == \A r \in Reviews : worker[r].step = "idle"

At(r, step) == worker[r].step = step

Goes(r, step) == worker' = [worker EXCEPT ![r].step = step, ![r].seen = "nothing", ![r].rules = <<>>]

Disturbs(what) == since' = [r \in Reviews |-> IF receipt[r].run \in {"NONE", "PENDING"} THEN {} ELSE since[r] \union what]

\* Where a reading connects to: the commits after the backup and after Ansible expired the row of the
\* device, so that it is read again.
Reached(r) == IF worker[r].step \in {"again", "after"} THEN device.ident ELSE worker[r].ident

\* The identity the commands of a receipt went, or were to go, to.
SentTo(r) == IF ansible[r].launched = 0 THEN receipt[r].plan.target ELSE ansible[r].to

\* What a reading looks at, of what the history is about.
LooksAt(r) ==
    (IF At(r, "before") THEN {"backup", "rules"} ELSE {})
    \union (IF At(r, "again") /\ Reached(r) = receipt[r].plan.target THEN {"rules"} ELSE {})
    \union (IF At(r, "after") /\ Reached(r) = SentTo(r) THEN {"result"} ELSE {})

\* The first command of a reading.
ReadRules(r) ==
    /\ worker[r].step \in {"review", "before", "again", "after"} /\ worker[r].seen = "nothing"
    /\ worker' = [worker EXCEPT ![r].seen = "rules", ![r].ident = Reached(r), ![r].rules = box[Reached(r)].rules]
    /\ since' = [since EXCEPT ![r] = @ \ LooksAt(r)]
    /\ UNCHANGED <<platform, device, box, account, receipt, claims, ansible, events>>

\* The second one; read_state concludes with it.
Observed(r) == [box[worker[r].ident] EXCEPT !.rules = worker[r].rules]

Read(r, step) == At(r, step) /\ worker[r].seen = "rules"

-----------------------------------------------------------------------------
(* Requests.                                                               *)

ReviewCost == IF \A r \in Reviews : receipt[r].status = "NONE" THEN 1 ELSE 2

\* review: the account and the record of the device are those the request loaded.
Review(r, u, changes) ==
    /\ receipt[r].status = "NONE" /\ LockFree /\ events + ReviewCost <= MaxEvents
    /\ account[u].enabled /\ ~device.archived
    /\ WellFormed(platform, changes)
    /\ worker' = [worker EXCEPT ![r] =
            Busy("review", [actor |-> u, role |-> account[u].role, version |-> account[u].version,
                            target |-> device.ident, items |-> Items(r, changes)])]
    /\ events' = events + ReviewCost
    /\ UNCHANGED <<platform, device, box, account, receipt, claims, ansible, since>>

\* The plan is compiled from what was read, and stored unless it is refused.
ReviewEnds(r) ==
    /\ Read(r, "review")
    /\ LET plan    == worker[r].plan
           changes == [k \in DOMAIN plan.items |-> plan.items[k].change]
       IN receipt' = IF Refuses(platform, changes, Observed(r), plan.role) THEN receipt
                     ELSE [receipt EXCEPT ![r] =
                            [status |-> "REVIEWED", run |-> "NONE", cancel |-> FALSE, expired |-> FALSE,
                             plan |-> plan, base |-> Observed(r), adminOnly |-> AdminOnly(changes),
                             risk |-> PlanRisk(changes)]]
    /\ worker' = [worker EXCEPT ![r] = Idle]
    /\ UNCHANGED <<platform, device, box, account, claims, ansible, since, events>>

Reviewed(r) == receipt[r].status # "NONE"

\* The account of the reviewer is still the one that reviewed.
SameAccount(r) ==
    LET plan == receipt[r].plan IN
    /\ account[plan.actor].enabled /\ account[plan.actor].version = plan.version
    /\ account[plan.actor].role \in {"OPERATOR", "ADMIN"}

SameTarget(r) == ~device.archived /\ device.ident = receipt[r].plan.target

\* apply_review up to its last check.
Apply(r) ==
    /\ receipt[r].status = "REVIEWED" /\ claims[r] < MaxClaims
    /\ ~receipt[r].expired
    /\ SameAccount(r) /\ SameTarget(r)
    /\ receipt[r].adminOnly => account[receipt[r].plan.actor].role = "ADMIN"
    /\ claims' = [claims EXCEPT ![r] = @ + 1]
    /\ UNCHANGED <<platform, device, box, account, receipt, worker, ansible, since, events>>

\* The UPDATE that only one request can win, and the row of the queue in the same transaction.
Claim(r) ==
    /\ claims[r] > 0
    /\ claims' = [claims EXCEPT ![r] = @ - 1]
    /\ \/ /\ receipt[r].status = "REVIEWED" /\ receipt[r].run = "NONE"
          /\ receipt' = [receipt EXCEPT ![r].status = "QUEUED", ![r].run = "PENDING"]
       \/ UNCHANGED receipt    \* refused, or the queue is full
    /\ UNCHANGED <<platform, device, box, account, worker, ansible, since, events>>

\* A queued run that is cancelled ends in the dispatcher, a running one when it looks.
Cancel(r) ==
    /\ receipt[r].run \in {"PENDING", "RUNNING"} /\ ~receipt[r].cancel /\ events < MaxEvents
    /\ receipt' = [receipt EXCEPT ![r].cancel = TRUE]
    /\ events' = events + 1
    /\ UNCHANGED <<platform, device, box, account, claims, worker, ansible, since>>

-----------------------------------------------------------------------------
(* Execution.                                                              *)

Finishes(r, run, status) ==
    /\ receipt' = [receipt EXCEPT ![r].run = run, ![r].status = status]
    /\ worker' = [worker EXCEPT ![r] = Idle]

\* An APIError or any other exception of execute: what the row says of the review stays.
Fails(r) == Finishes(r, "FAILED", receipt[r].status)

DropCancelled(r) ==
    /\ receipt[r].run = "PENDING" /\ receipt[r].cancel
    /\ receipt' = [receipt EXCEPT ![r].run = "CANCELLED"]
    /\ UNCHANGED <<platform, device, box, account, claims, worker, ansible, since, events>>

\* JobManager.execute and execute up to the device lock; without the lock the run waits again.
Start(r) ==
    /\ receipt[r].run = "PENDING" /\ ~receipt[r].cancel
    /\ IF /\ SameAccount(r) /\ SameTarget(r) /\ ~receipt[r].expired
          /\ receipt[r].risk \in {"HIGH", "LOCKOUT"} => account[receipt[r].plan.actor].role = "ADMIN"
       THEN /\ LockFree
            /\ receipt' = [receipt EXCEPT ![r].run = "RUNNING"]
            /\ worker' = [worker EXCEPT ![r] = Busy("before", receipt[r].plan)]
       ELSE receipt' = [receipt EXCEPT ![r].run = "FAILED"] /\ UNCHANGED worker
    /\ UNCHANGED <<platform, device, box, account, claims, ansible, since, events>>

ReadBefore(r) ==
    /\ Read(r, "before")
    /\ IF Observed(r) = receipt[r].base THEN Goes(r, "capture") /\ UNCHANGED receipt ELSE Fails(r)
    /\ UNCHANGED <<platform, device, box, account, claims, ansible, since, events>>

\* The backup is of the whole configuration in one command, and committed.
Capture(r) ==
    /\ At(r, "capture")
    /\ worker' = [worker EXCEPT ![r].step = "again", ![r].saved = box[worker[r].ident]]
    /\ UNCHANGED <<platform, device, box, account, receipt, claims, ansible, since, events>>

\* Mutant of ReadAgain: the rules are not compared once more after the backup.
ReadAgainTrusts(r) ==
    /\ Read(r, "again") /\ Goes(r, "recheck")
    /\ UNCHANGED <<platform, device, box, account, receipt, claims, ansible, since, events>>

ReadAgain(r) ==
    /\ Read(r, "again")
    /\ IF Observed(r) = receipt[r].base THEN Goes(r, "recheck") /\ UNCHANGED receipt ELSE Fails(r)
    /\ UNCHANGED <<platform, device, box, account, claims, ansible, since, events>>

\* The rows are read again, and APPLYING is committed.
Recheck(r) ==
    /\ At(r, "recheck")
    /\ since' = [since EXCEPT ![r] = @ \ {"target", "account"}]
    /\ IF SameAccount(r) /\ SameTarget(r)
       THEN IF receipt[r].cancel THEN Finishes(r, "CANCELLED", "CANCELLED")
            ELSE Goes(r, "launch") /\ receipt' = [receipt EXCEPT ![r].status = "APPLYING"]
       ELSE Fails(r)
    /\ UNCHANGED <<platform, device, box, account, claims, ansible, events>>

\* run_ansible: the commit expired the row of the device, so its settings are read once more.
Launch(r) ==
    /\ At(r, "launch")
    /\ worker' = [worker EXCEPT ![r].step = "ansible", ![r].ident = device.ident]
    /\ ansible' = [ansible EXCEPT ![r] = [on |-> TRUE, sent |-> 0, launched |-> @.launched + 1, to |-> device.ident]]
    /\ UNCHANGED <<platform, device, box, account, receipt, claims, since, events>>

\* Ansible sends the next item, and ends at one that fails.
Send(r) ==
    LET p    == ansible[r]
        item == receipt[r].plan.items[p.sent + 1]
    IN
    /\ p.on /\ p.sent < Len(receipt[r].plan.items)
    /\ box' = [box EXCEPT ![p.to].rules = Performed(platform, item, @)]
    /\ ansible' = [ansible EXCEPT ![r].sent = @ + 1, ![r].on = Succeeds(platform, item, box[p.to].rules)]
    \* Who holds the device lock is disturbed only by a process that outlived its worker.
    /\ since' = [s \in Reviews |-> IF s = r \/ (At(r, "ansible") /\ ~At(s, "idle"))
                                   THEN since[s] ELSE since[s] \union {"rules", "backup", "result"}]
    /\ UNCHANGED <<platform, device, account, receipt, claims, worker, events>>

\* Mutant of AnsibleEnds: the row of the review gets the status of the run.
AnsibleEndsRunning(r) ==
    /\ At(r, "ansible")
    /\ ansible' = [ansible EXCEPT ![r].on = FALSE]
    /\ Goes(r, "after")
    /\ receipt' = [receipt EXCEPT ![r].status = "RUNNING"]
    /\ since' = [since EXCEPT ![r] = @ \union {"result"}]
    /\ UNCHANGED <<platform, device, box, account, claims, events>>

\* The process ended, did not start, was cancelled or timed out: nobody looks at how before VERIFYING.
AnsibleEnds(r) ==
    /\ \/ At(r, "ansible")
       \/ At(r, "launch") /\ ~ansible[r].on    \* run_ansible failed before the process
    /\ ansible' = [ansible EXCEPT ![r].on = FALSE]
    /\ Goes(r, "after")
    /\ receipt' = [receipt EXCEPT ![r].status = "VERIFYING"]
    /\ since' = [since EXCEPT ![r] = @ \union {"result"}]
    /\ UNCHANGED <<platform, device, box, account, claims, events>>

\* A fresh connection, the comparison, and the commit of the outcome.
Verify(r) ==
    /\ Read(r, "after")
    /\ LET after   == Observed(r)
           items   == receipt[r].plan.items
           base    == receipt[r].base
           partly  == (\E k \in DOMAIN items : Outcome(platform, items[k], after)) \/ after # base
           outcome == IF Complete(platform, items, base, after) THEN "SUCCESS"
                      ELSE IF partly THEN "PARTIAL"
                      ELSE IF receipt[r].cancel THEN "CANCELLED" ELSE "FAILED"
       IN /\ receipt' = IF VerifyFails(platform, items, after)
                        THEN [receipt EXCEPT ![r].run = "FAILED"]
                        ELSE [receipt EXCEPT ![r].run = outcome, ![r].status = outcome]
          /\ worker' = [worker EXCEPT ![r] = Idle]
    /\ UNCHANGED <<platform, device, box, account, claims, ansible, since, events>>

\* The device does not answer, or anything else goes wrong, in one of the steps.
Breaks(r) ==
    /\ events < MaxEvents /\ events' = events + 1
    /\ \/ At(r, "review") /\ worker' = [worker EXCEPT ![r] = Idle] /\ UNCHANGED receipt
       \/ worker[r].step \in {"before", "capture", "again", "recheck", "after"} /\ Fails(r)
       \/ At(r, "after") /\ Finishes(r, "APPLIED_UNVERIFIED", "APPLIED_UNVERIFIED")
    /\ UNCHANGED <<platform, device, box, account, claims, ansible, since>>

-----------------------------------------------------------------------------
(* Everybody else.                                                         *)

Others(what) ==
    /\ events < MaxEvents /\ events' = events + 1
    /\ Disturbs(what)
    /\ UNCHANGED <<platform, claims, worker, ansible>>

\* Bound: accounts and the device change while there is a receipt to which that can matter.
Open ==
    \E r \in Reviews :
        \/ At(r, "review") \/ receipt[r].run \in {"PENDING", "RUNNING"}
        \/ receipt[r].status = "REVIEWED" /\ ~receipt[r].expired

\* Role, access or password of an account: its session version grows.
ChangeAccount(u) ==
    /\ \E role \in Roles, enabled \in BOOLEAN :
        /\ enabled \/ role = account[u].role
        /\ account' = [account EXCEPT ![u] = [role |-> role, enabled |-> enabled, version |-> @.version + 1]]
    /\ Open /\ Others({"account"})
    /\ UNCHANGED <<device, box, receipt>>

ChangeDevice ==
    /\ \E i \in Idents, archived \in BOOLEAN : device' = [ident |-> i, archived |-> archived]
    /\ device' # device
    /\ Open /\ Others({"target"})
    /\ UNCHANGED <<box, account, receipt>>

\* Bound: boxes are edited while the device is theirs, or a receipt is theirs.
InReach(i) == i = device.ident \/ \E r \in Reviews : Reviewed(r) /\ SentTo(r) = i

\* Through another channel than Narsika, and without the tags of a receipt that is not shown yet.
EditBox(i) ==
    /\ InReach(i)
    /\ \E state \in Edits(platform, box[i]) :
        /\ IsConfiguration(platform, state)
        /\ \A r \in Reviews : ~Reviewed(r) => Foreign(platform, r, state.rules)
        /\ box' = [box EXCEPT ![i] = state]
    /\ Others({"rules", "backup", "result"})
    /\ UNCHANGED <<device, account, receipt>>

Expire(r) ==
    /\ receipt[r].status \in {"REVIEWED", "QUEUED"} /\ ~receipt[r].expired
    /\ receipt' = [receipt EXCEPT ![r].expired = TRUE]
    /\ Others({})
    /\ UNCHANGED <<device, box, account>>

\* Mutant of Crash: the runs that were executed are queued again.
CrashRequeues ==
    /\ events < MaxEvents /\ events' = events + 1
    /\ receipt' = [r \in Reviews |->
            IF receipt[r].run = "RUNNING" THEN [receipt[r] EXCEPT !.run = "PENDING"] ELSE receipt[r]]
    /\ worker' = [r \in Reviews |-> IF At(r, "idle") THEN worker[r] ELSE Idle]
    /\ claims' = [r \in Reviews |-> 0]
    /\ UNCHANGED <<platform, device, box, account, ansible, since>>

\* A kill and the next start: an Ansible process has a session of its own and goes on.
Crash ==
    /\ events < MaxEvents /\ events' = events + 1
    /\ receipt' = [r \in Reviews |->
            IF receipt[r].run = "RUNNING" THEN [receipt[r] EXCEPT !.run = "INTERRUPTED"] ELSE receipt[r]]
    /\ worker' = [r \in Reviews |-> IF At(r, "idle") THEN worker[r] ELSE Idle]
    /\ claims' = [r \in Reviews |-> 0]
    /\ UNCHANGED <<platform, device, box, account, ansible, since>>

\* An Ansible process nobody waits for ends as well.
OrphanEnds(r) ==
    /\ ansible[r].on /\ ~At(r, "ansible")
    /\ ansible' = [ansible EXCEPT ![r].on = FALSE]
    /\ UNCHANGED <<platform, device, box, account, receipt, claims, worker, since, events>>

Next ==
    \/ \E r \in Reviews :
        \/ \E u \in Users, changes \in Requests[platform] : Review(r, u, changes)
        \/ ReadRules(r) \/ ReviewEnds(r)
        \/ Apply(r) \/ Claim(r) \/ Cancel(r)
        \/ DropCancelled(r) \/ Start(r) \/ ReadBefore(r) \/ Capture(r) \/ ReadAgain(r) \/ Recheck(r)
        \/ Launch(r) \/ Send(r) \/ AnsibleEnds(r) \/ Verify(r)
        \/ Breaks(r) \/ Expire(r) \/ OrphanEnds(r)
    \/ \E u \in Users : ChangeAccount(u)
    \/ ChangeDevice
    \/ \E i \in Idents : EditBox(i)
    \/ Crash

Spec == Init /\ [][Next]_vars

-----------------------------------------------------------------------------
(* Properties.                                                             *)

\* Every variable has its type.
TypeOK ==
    /\ platform \in Platforms /\ device \in [ident : Idents, archived : BOOLEAN]
    /\ DOMAIN box = Idents
    /\ account \in [Users -> [role : Roles, enabled : BOOLEAN, version : Nat]]
    /\ \A r \in Reviews :
        /\ receipt[r].status \in {"NONE", "REVIEWED", "QUEUED", "APPLYING", "VERIFYING", "SUCCESS", "PARTIAL", "FAILED",
                                   "CANCELLED", "APPLIED_UNVERIFIED"}
        /\ receipt[r].run \in {"NONE", "PENDING", "RUNNING", "SUCCESS", "PARTIAL", "FAILED", "CANCELLED", "INTERRUPTED",
                                "APPLIED_UNVERIFIED"}
        /\ worker[r].step \in {"idle", "review", "before", "capture", "again", "recheck", "launch", "ansible", "after"}
    /\ claims \in [Reviews -> 0..MaxClaims]
    /\ since \in [Reviews -> SUBSET Looked]
    /\ events \in 0..MaxEvents

\* The commands of a receipt are handed to Ansible at most once, however often it is applied, whatever
\* request wins, and through busy devices, cancellations and restarts (docs/FIREWALL.md, Workflow).
AppliedOnce == \A r \in Reviews : ansible[r].launched <= 1

\* When the first command of a receipt is sent, the device is the reviewed one, that one has the reviewed rules,
\* its reviewed configuration is in the backup, and the account is the one that reviewed: except for what
\* others changed after the worker's own last look at it (execute, "closes the second read window"), a look
\* at another device, edited there and back, being none.
SentAsReviewed ==
    [][\A r \in Reviews :
        At(r, "ansible") /\ ansible[r].sent = 0 /\ ansible'[r].sent = 1 =>
            /\ \/ ansible[r].to = receipt[r].plan.target
               \/ "target" \in since[r]
            /\ \/ box[receipt[r].plan.target] = receipt[r].base
               \/ "rules" \in since[r]
            /\ \/ worker[r].saved = receipt[r].base
               \/ "backup" \in since[r]
            /\ \/ SameAccount(r)
               \/ "account" \in since[r]]_vars

\* review_detail and history: what a user is shown of a receipt.
Shown(r) ==
    CASE receipt[r].run = "NONE"    -> IF receipt[r].expired THEN "EXPIRED" ELSE receipt[r].status
      [] receipt[r].run = "RUNNING" -> receipt[r].status
      [] OTHER                      -> receipt[r].run

\* What is shown is what happened: with PENDING or EXPIRED nothing was sent.  After that the device that
\* commands were sent to is, with CANCELLED, as it was reviewed, with SUCCESS, in exactly the order the
\* reviewer was shown, old rules unchanged, and with PARTIAL it is not: unless others changed it since it was
\* verified, or what was verified was another, the device having been edited (docs/FIREWALL.md, Results).
ShownAsHappened ==
    \A r \in Reviews : Reviewed(r) =>
        LET now   == box[SentTo(r)]
            exact == [receipt[r].base EXCEPT !.rules = Final(platform, receipt[r].plan.items, @)]
        IN CASE Shown(r) \in {"REVIEWED", "EXPIRED", "PENDING", "QUEUED"} -> ansible[r].launched = 0
             [] Shown(r) = "CANCELLED" -> ansible[r].launched = 0 \/ "result" \in since[r] \/ now = receipt[r].base
             [] Shown(r) = "SUCCESS"   -> "result" \in since[r] \/ now = exact
             [] Shown(r) = "PARTIAL"   -> "result" \in since[r] \/ now # exact
             [] OTHER                  -> TRUE

\* The recovery recipe of a receipt restores the reviewed rules from wherever its execution stopped, if
\* nobody else changed the reviewed device after it was last read (compile_plan, docs/FIREWALL.md, Recovery).
RecoveryRestores ==
    \A r \in Reviews : ansible[r].launched > 0 /\ ansible[r].to = receipt[r].plan.target /\ "rules" \notin since[r] =>
        Recovered(platform, receipt[r].plan.items, box[ansible[r].to].rules) = receipt[r].base.rules
=============================================================================
