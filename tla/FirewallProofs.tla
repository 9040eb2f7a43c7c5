--------------------------- MODULE FirewallProofs ---------------------------
(***************************************************************************)
(* Proofs about Firewall, for every number of receipts, users, identities, *)
(* requests and events, and whatever change sets are asked for and edits   *)
(* are made.                                                               *)
(***************************************************************************)
EXTENDS Firewall, FiniteSetTheorems, SequenceTheorems, TLAPS

Before == {"before", "capture", "again", "recheck", "launch"}

After == {"ansible", "after"}

(***************************************************************************)
(* How far a receipt q, its worker w and its process p may be: nothing was *)
(* launched before the run of the receipt is RUNNING and its worker past   *)
(* `launch', and a row leaves NONE and PENDING for good.                   *)
(***************************************************************************)
Stage(q, w, p) ==
    /\ {"status", "run"} \subseteq DOMAIN q /\ "step" \in DOMAIN w /\ "launched" \in DOMAIN p
    /\ w.step \in {"idle", "review"} \union Before \union After
    /\ p.launched \in {0, 1}
    /\ q.run \in {"NONE", "PENDING"} => p.launched = 0
    /\ q.status = "NONE" => q.run = "NONE"
    /\ w.step = "review" => q.status = "NONE"
    /\ w.step \in Before \union After => q.run = "RUNNING"
    /\ w.step \in Before => p.launched = 0

StagesOK ==
    /\ DOMAIN receipt = Reviews /\ DOMAIN worker = Reviews /\ DOMAIN ansible = Reviews
    /\ \A r \in Reviews : Stage(receipt[r], worker[r], ansible[r])

LEMMA StagesInit == Init => StagesOK
<1> SUFFICES ASSUME Init PROVE StagesOK
  OBVIOUS
<1>1. Stage(Unused, Idle, Off)
  BY DEF Stage, Unused, Idle, Off, Before, After
<1> QED
  BY <1>1 DEF Init, StagesOK

(***************************************************************************)
(* Steps of one receipt.                                                   *)
(***************************************************************************)
OnlyOf(r) ==
    /\ DOMAIN receipt' = Reviews /\ DOMAIN worker' = Reviews /\ DOMAIN ansible' = Reviews
    /\ \A s \in Reviews \ {r} : receipt'[s] = receipt[s] /\ worker'[s] = worker[s] /\ ansible'[s] = ansible[s]

LEMMA StageOfOne ==
  ASSUME StagesOK, NEW r \in Reviews, OnlyOf(r), Stage(receipt'[r], worker'[r], ansible'[r])
  PROVE  StagesOK'
  BY DEF StagesOK, OnlyOf

LEMMA RequestsAreOf ==
  ASSUME StagesOK, NEW r \in Reviews,
         \/ \E u \in Users, changes \in Requests[platform] : Review(r, u, changes)
         \/ ReadRules(r) \/ ReviewEnds(r) \/ Apply(r) \/ Claim(r) \/ Cancel(r) \/ DropCancelled(r) \/ Expire(r)
  PROVE  OnlyOf(r)
  BY DEF StagesOK, OnlyOf, Review, ReadRules, ReviewEnds, Apply, Claim, Cancel, DropCancelled, Expire, Others

LEMMA ExecutionsAreOf ==
  ASSUME StagesOK, NEW r \in Reviews,
         \/ Start(r) \/ ReadBefore(r) \/ Capture(r) \/ ReadAgain(r) \/ Recheck(r)
         \/ Launch(r) \/ Send(r) \/ AnsibleEnds(r) \/ Verify(r) \/ Breaks(r) \/ OrphanEnds(r)
  PROVE  OnlyOf(r)
  BY DEF StagesOK, OnlyOf, Start, ReadBefore, Capture, ReadAgain, Recheck, Launch, Send, AnsibleEnds, Verify, Breaks,
         OrphanEnds, Goes, Fails, Finishes

LEMMA ReviewStage ==
  ASSUME StagesOK, NEW r \in Reviews, NEW u \in Users, NEW changes, Review(r, u, changes)
  PROVE  Stage(receipt'[r], worker'[r], ansible'[r])
<1> DEFINE w == Busy("review", [actor |-> u, role |-> account[u].role, version |-> account[u].version,
                                target |-> device.ident, items |-> Items(r, changes)])
<1>1. Stage(receipt[r], worker[r], ansible[r])
  BY DEF StagesOK
<1>2. "step" \in DOMAIN w /\ w.step = "review"
  BY DEF Busy
<1> HIDE DEF w
<1>3. worker'[r] = w /\ receipt'[r] = receipt[r] /\ ansible'[r] = ansible[r] /\ receipt[r].status = "NONE"
  BY DEF Review, StagesOK, w
<1> QED
  BY <1>1, <1>2, <1>3 DEF Stage, Before, After

LEMMA ReviewEndsStage ==
  ASSUME StagesOK, NEW r \in Reviews, ReviewEnds(r)
  PROVE  Stage(receipt'[r], worker'[r], ansible'[r])
<1>1. Stage(receipt[r], worker[r], ansible[r]) /\ worker[r].step = "review"
  BY DEF StagesOK, ReviewEnds, Read, At
<1>2. worker'[r] = Idle /\ ansible'[r] = ansible[r] /\ ansible[r].launched = 0
  BY <1>1 DEF StagesOK, ReviewEnds, Stage
<1>3. CASE receipt' = receipt
  BY <1>1, <1>2, <1>3 DEF Stage, Idle, Before, After
<1>4. CASE receipt' # receipt
  <2> DEFINE plan    == worker[r].plan
             changes == [k \in DOMAIN plan.items |-> plan.items[k].change]
             q == [status |-> "REVIEWED", run |-> "NONE", cancel |-> FALSE, expired |-> FALSE,
                   plan |-> plan, base |-> Observed(r), adminOnly |-> AdminOnly(changes), risk |-> PlanRisk(changes)]
  <2>1. {"status", "run"} \subseteq DOMAIN q /\ q.status = "REVIEWED" /\ q.run = "NONE"
    OBVIOUS
  <2>2. receipt' = [receipt EXCEPT ![r] = q]
    BY <1>4 DEF ReviewEnds
  <2> HIDE DEF q
  <2>3. receipt'[r] = q
    BY <2>2 DEF StagesOK
  <2> QED
    BY <1>1, <1>2, <2>1, <2>3 DEF Stage, Idle, Before, After
<1> QED
  BY <1>3, <1>4

LEMMA RequestStage ==
  ASSUME StagesOK, NEW r \in Reviews,
         ReadRules(r) \/ Apply(r) \/ Claim(r) \/ Cancel(r) \/ DropCancelled(r) \/ Expire(r)
  PROVE  Stage(receipt'[r], worker'[r], ansible'[r])
<1>1. Stage(receipt[r], worker[r], ansible[r])
  BY DEF StagesOK
<1>2. CASE ReadRules(r)
  BY <1>1, <1>2 DEF StagesOK, ReadRules, Stage, Before, After
<1>3. CASE Apply(r)
  BY <1>1, <1>3 DEF Apply
<1>4. CASE Claim(r)
  BY <1>1, <1>4 DEF StagesOK, Claim, Stage, Before, After
<1>5. CASE Cancel(r) \/ DropCancelled(r) \/ Expire(r)
  BY <1>1, <1>5 DEF StagesOK, Cancel, DropCancelled, Expire, Others, Stage, Before, After
<1> QED
  BY <1>2, <1>3, <1>4, <1>5

LEMMA ExecutionStage ==
  ASSUME StagesOK, NEW r \in Reviews,
         \/ Start(r) \/ ReadBefore(r) \/ Capture(r) \/ ReadAgain(r) \/ Recheck(r)
         \/ Launch(r) \/ Send(r) \/ AnsibleEnds(r) \/ Verify(r) \/ Breaks(r) \/ OrphanEnds(r)
  PROVE  Stage(receipt'[r], worker'[r], ansible'[r])
<1>1. Stage(receipt[r], worker[r], ansible[r])
  BY DEF StagesOK
<1>2. Stage(receipt[r], Idle, ansible[r])
  BY <1>1 DEF Stage, Idle, Before, After
<1>3. CASE Start(r)
  BY <1>1, <1>3 DEF StagesOK, Start, Busy, Stage, Before, After
<1>4. ASSUME NEW run, NEW status, Finishes(r, run, status), UNCHANGED ansible, run \notin {"NONE", "PENDING"}, status # "NONE"
      PROVE  Stage(receipt'[r], worker'[r], ansible'[r])
  BY <1>1, <1>4 DEF StagesOK, Finishes, Stage, Idle, Before, After
<1>5. ASSUME worker[r].step \in Before \union After, Fails(r), UNCHANGED ansible
      PROVE  Stage(receipt'[r], worker'[r], ansible'[r])
  BY <1>1, <1>4, <1>5 DEF Fails, Stage
<1>6. CASE ReadBefore(r)
  BY <1>1, <1>5, <1>6 DEF StagesOK, ReadBefore, Read, At, Goes, Stage, Before, After
<1>7. CASE Capture(r)
  BY <1>1, <1>7 DEF StagesOK, Capture, At, Stage, Before, After
<1>8. CASE ReadAgain(r)
  BY <1>1, <1>5, <1>8 DEF StagesOK, ReadAgain, Read, At, Goes, Stage, Before, After
<1>9. CASE Recheck(r)
  BY <1>1, <1>4, <1>5, <1>9 DEF StagesOK, Recheck, At, Goes, Stage, Before, After
<1>10. CASE Launch(r)
  BY <1>1, <1>10 DEF StagesOK, Launch, At, Stage, Before, After
<1>11. CASE Send(r) \/ OrphanEnds(r)
  BY <1>1, <1>11 DEF StagesOK, Send, OrphanEnds, Stage
<1>12. CASE AnsibleEnds(r)
  BY <1>1, <1>12 DEF StagesOK, AnsibleEnds, At, Goes, Stage, Before, After
<1>13. CASE Verify(r)
  <2>1. worker'[r] = Idle /\ ansible'[r] = ansible[r] /\ worker[r].step = "after"
    BY <1>13 DEF StagesOK, Verify, Read, At
  <2>2. /\ {"run", "status"} \subseteq DOMAIN receipt'[r]
        /\ receipt'[r].run \notin {"NONE", "PENDING", "RUNNING"}
        /\ receipt'[r].status # "NONE"
    BY <1>1, <1>13, <2>1 DEF StagesOK, Verify, Stage, After
  <2> QED
    BY <1>2, <2>1, <2>2 DEF Stage, Idle, Before, After
<1>14. CASE Breaks(r)
  BY <1>1, <1>2, <1>4, <1>5, <1>14 DEF StagesOK, Breaks, At, Stage, Before, After
<1> QED
  BY <1>3, <1>6, <1>7, <1>8, <1>9, <1>10, <1>11, <1>12, <1>13, <1>14

(***************************************************************************)
(* A kill ends every worker at once.                                       *)
(***************************************************************************)
LEMMA CrashStages == StagesOK /\ Crash => StagesOK'
<1> SUFFICES ASSUME StagesOK, Crash PROVE StagesOK'
  OBVIOUS
<1>1. ASSUME NEW r \in Reviews PROVE Stage(receipt'[r], worker'[r], ansible'[r])
  <2>1. Stage(receipt[r], worker[r], ansible[r]) /\ ansible'[r] = ansible[r]
    BY DEF StagesOK, Crash
  <2>2. worker'[r].step = "idle" /\ "step" \in DOMAIN worker'[r]
    BY <2>1 DEF Crash, Stage, Idle, At
  <2>3. receipt'[r] = IF receipt[r].run = "RUNNING" THEN [receipt[r] EXCEPT !.run = "INTERRUPTED"] ELSE receipt[r]
    BY DEF Crash
  <2> QED
    BY <2>1, <2>2, <2>3 DEF Stage, Before, After
<1>2. DOMAIN receipt' = Reviews /\ DOMAIN worker' = Reviews /\ DOMAIN ansible' = Reviews
  BY DEF Crash, StagesOK
<1> QED
  BY <1>1, <1>2 DEF StagesOK

LEMMA StagesStep == StagesOK /\ [Next]_vars => StagesOK'
<1> SUFFICES ASSUME StagesOK, [Next]_vars PROVE StagesOK'
  OBVIOUS
<1>1. ASSUME NEW r \in Reviews, NEW u \in Users, NEW changes \in Requests[platform], Review(r, u, changes)
      PROVE  StagesOK'
  BY <1>1, RequestsAreOf, ReviewStage, StageOfOne
<1>2. ASSUME NEW r \in Reviews, ReviewEnds(r) PROVE StagesOK'
  BY <1>2, RequestsAreOf, ReviewEndsStage, StageOfOne
<1>3. ASSUME NEW r \in Reviews, ReadRules(r) \/ Apply(r) \/ Claim(r) \/ Cancel(r) \/ DropCancelled(r) \/ Expire(r)
      PROVE  StagesOK'
  BY <1>3, RequestsAreOf, RequestStage, StageOfOne
<1>4. ASSUME NEW r \in Reviews,
             \/ Start(r) \/ ReadBefore(r) \/ Capture(r) \/ ReadAgain(r) \/ Recheck(r)
             \/ Launch(r) \/ Send(r) \/ AnsibleEnds(r) \/ Verify(r) \/ Breaks(r) \/ OrphanEnds(r)
      PROVE  StagesOK'
  BY <1>4, ExecutionsAreOf, ExecutionStage, StageOfOne
<1>5. ASSUME UNCHANGED <<receipt, worker, ansible>> PROVE StagesOK'
  BY <1>5 DEF StagesOK
<1>6. CASE (\E u \in Users : ChangeAccount(u)) \/ ChangeDevice \/ (\E i \in Idents : EditBox(i)) \/ UNCHANGED vars
  BY <1>5, <1>6 DEF ChangeAccount, ChangeDevice, EditBox, Others, vars
<1>7. CASE Crash
  BY <1>7, CrashStages
<1> QED
  BY <1>1, <1>2, <1>3, <1>4, <1>6, <1>7 DEF Next

\* apply_review, execute and the start of a process: whatever requests race to apply a receipt,
\* however often it waits for its device, and whenever the process is killed, its commands are
\* handed to Ansible at most once.
THEOREM ReceiptsApplyOnce == Spec => []AppliedOnce
<1>1. StagesOK => AppliedOnce
  BY DEF StagesOK, Stage, AppliedOnce
<1> QED
  BY <1>1, StagesInit, StagesStep, PTL DEF Spec

(***************************************************************************)
(* Types.                                                                  *)
(***************************************************************************)
Statuses == {"NONE", "REVIEWED", "QUEUED", "APPLYING", "VERIFYING", "SUCCESS", "PARTIAL", "FAILED", "CANCELLED",
             "APPLIED_UNVERIFIED"}

Runs == {"NONE", "PENDING", "RUNNING", "SUCCESS", "PARTIAL", "FAILED", "CANCELLED", "INTERRUPTED", "APPLIED_UNVERIFIED"}

RowsTyped == \A r \in Reviews : receipt[r].status \in Statuses /\ receipt[r].run \in Runs

ThingsTyped ==
    /\ platform \in Platforms /\ device \in [ident : Idents, archived : BOOLEAN]
    /\ DOMAIN box = Idents
    /\ account \in [Users -> [role : Roles, enabled : BOOLEAN, version : Nat]]

CountsTyped ==
    /\ claims \in [Reviews -> 0..MaxClaims]
    /\ since \in [Reviews -> SUBSET Looked]
    /\ events \in 0..MaxEvents

Typed == RowsTyped /\ ThingsTyped /\ CountsTyped

LEMMA TypedInit == Init => Typed
<1> SUFFICES ASSUME Init PROVE Typed
  OBVIOUS
<1>1. RowsTyped
  BY DEF Init, RowsTyped, Unused, Statuses, Runs
<1>2. ThingsTyped
  <2>1. account \in [Users -> [role : Roles, enabled : BOOLEAN, version : Nat]]
    <3>1. account \in [Users -> [role : Roles, enabled : {TRUE}, version : {0}]]
      BY DEF Init
    <3>2. ASSUME NEW A, NEW B, A \subseteq B
          PROVE  [role : Roles, enabled : A, version : {0}] \subseteq [role : Roles, enabled : B, version : Nat]
      BY <3>2
    <3>3. {TRUE} \subseteq BOOLEAN
      BY Zenon
    <3>4. [role : Roles, enabled : {TRUE}, version : {0}] \subseteq [role : Roles, enabled : BOOLEAN, version : Nat]
      BY <3>2, <3>3, Zenon
    <3> QED
      BY <3>1, <3>4
  <2> QED
    BY <2>1 DEF Init, ThingsTyped
<1>3. CountsTyped
  BY FirewallAssumption DEF Init, CountsTyped
<1> QED
  BY <1>1, <1>2, <1>3 DEF Typed

LEMMA ThingsStep == ThingsTyped /\ [Next]_vars => ThingsTyped'
<1> SUFFICES ASSUME ThingsTyped, [Next]_vars PROVE ThingsTyped'
  OBVIOUS
<1>1. ASSUME NEW u \in Users, ChangeAccount(u) PROVE ThingsTyped'
  BY <1>1 DEF ThingsTyped, ChangeAccount, Others
<1>2. ASSUME ChangeDevice \/ (\E i \in Idents : EditBox(i)) PROVE ThingsTyped'
  BY <1>2 DEF ThingsTyped, ChangeDevice, EditBox, Others
<1>3. ASSUME NEW r \in Reviews, Send(r) PROVE ThingsTyped'
  BY <1>3 DEF ThingsTyped, Send
<1>4. CASE UNCHANGED <<platform, device, box, account>>
  BY <1>4 DEF ThingsTyped
<1>5. ASSUME NEW r \in Reviews,
             \/ \E u \in Users, changes \in Requests[platform] : Review(r, u, changes)
             \/ ReadRules(r) \/ ReviewEnds(r) \/ Apply(r) \/ Claim(r) \/ Cancel(r) \/ DropCancelled(r)
      PROVE  ThingsTyped'
  BY <1>4, <1>5 DEF Review, ReadRules, ReviewEnds, Apply, Claim, Cancel, DropCancelled
<1>6. ASSUME NEW r \in Reviews,
             \/ Start(r) \/ ReadBefore(r) \/ Capture(r) \/ ReadAgain(r) \/ Recheck(r) \/ Launch(r) \/ AnsibleEnds(r)
             \/ Verify(r) \/ Breaks(r) \/ Expire(r) \/ OrphanEnds(r)
      PROVE  ThingsTyped'
  BY <1>4, <1>6 DEF Start, ReadBefore, Capture, ReadAgain, Recheck, Launch, AnsibleEnds, Verify, Breaks, Expire,
                    OrphanEnds, Others
<1>7. CASE Crash \/ UNCHANGED vars
  BY <1>4, <1>7 DEF Crash, vars
<1> QED
  BY <1>1, <1>2, <1>3, <1>5, <1>6, <1>7 DEF Next

LEMMA CountsStep == CountsTyped /\ [Next]_vars => CountsTyped'
<1> SUFFICES ASSUME CountsTyped, [Next]_vars PROVE CountsTyped'
  OBVIOUS
<1> USE FirewallAssumption
<1>1. ASSUME NEW r \in Reviews, ReadRules(r) \/ Recheck(r) \/ AnsibleEnds(r) \/ Send(r) PROVE CountsTyped'
  <2>1. UNCHANGED <<claims, events>> /\ DOMAIN since' = Reviews
    BY <1>1 DEF CountsTyped, ReadRules, Recheck, AnsibleEnds, Send
  <2>2. ASSUME NEW s \in Reviews PROVE since'[s] \subseteq Looked
    <3>1. CASE ReadRules(r) \/ Recheck(r) \/ AnsibleEnds(r)
      BY <3>1 DEF CountsTyped, ReadRules, Recheck, AnsibleEnds, Looked
    <3>2. CASE Send(r)
      BY <3>2 DEF CountsTyped, Send, Looked
    <3> QED
      BY <1>1, <3>1, <3>2
  <2>3. since' = [s \in Reviews |-> since'[s]]
    <3>1. CASE ReadRules(r) \/ Recheck(r) \/ AnsibleEnds(r)
      BY <3>1 DEF CountsTyped, ReadRules, Recheck, AnsibleEnds
    <3>2. CASE Send(r)
      BY <3>2 DEF Send
    <3> QED
      BY <1>1, <3>1, <3>2
  <2> QED
    BY <2>1, <2>2, <2>3 DEF CountsTyped
<1>2. ASSUME NEW r \in Reviews, Apply(r) \/ Claim(r) PROVE CountsTyped'
  BY <1>2 DEF CountsTyped, Apply, Claim
<1>3. ASSUME NEW what \in SUBSET Looked, Others(what) PROVE CountsTyped'
  BY <1>3 DEF CountsTyped, Others, Disturbs
<1>4. CASE \/ \E u \in Users : ChangeAccount(u)
           \/ ChangeDevice
           \/ \E i \in Idents : EditBox(i)
           \/ \E r \in Reviews : Expire(r)
  BY <1>3, <1>4 DEF ChangeAccount, ChangeDevice, EditBox, Expire, Looked
<1>5. ASSUME NEW n \in {0, 1, 2}, UNCHANGED <<claims, since>>, events + n <= MaxEvents, events' = events + n PROVE CountsTyped'
  BY <1>5 DEF CountsTyped
<1>6. CASE UNCHANGED <<claims, since, events>>
  BY <1>6 DEF CountsTyped
<1>7. CASE Crash
  BY <1>7 DEF CountsTyped, Crash
<1>8. ASSUME NEW r \in Reviews,
             \/ \E u \in Users, changes \in Requests[platform] : Review(r, u, changes)
             \/ Cancel(r) \/ Breaks(r)
      PROVE  CountsTyped'
  <2>1. CASE Cancel(r) \/ Breaks(r)
    BY <1>5, <2>1 DEF Cancel, Breaks, CountsTyped
  <2>2. ASSUME NEW u \in Users, NEW changes \in Requests[platform], Review(r, u, changes) PROVE CountsTyped'
    BY <1>5, <2>2 DEF Review, ReviewCost
  <2> QED
    BY <1>8, <2>1, <2>2
<1>9. ASSUME NEW r \in Reviews,
             \/ ReviewEnds(r) \/ DropCancelled(r) \/ Start(r) \/ ReadBefore(r) \/ Capture(r)
             \/ ReadAgain(r) \/ Launch(r) \/ Verify(r) \/ OrphanEnds(r)
      PROVE  CountsTyped'
  BY <1>6, <1>9 DEF ReviewEnds, DropCancelled, Start, ReadBefore, Capture, ReadAgain, Launch, Verify, OrphanEnds
<1>10. CASE UNCHANGED vars
  BY <1>6, <1>10, SMTT(60) DEF vars
<1> QED
  BY <1>1, <1>2, <1>4, <1>7, <1>8, <1>9, <1>10 DEF Next

LEMMA RowsStep == StagesOK /\ RowsTyped /\ [Next]_vars => RowsTyped'
<1> SUFFICES ASSUME StagesOK, RowsTyped, [Next]_vars PROVE RowsTyped'
  OBVIOUS
<1>0. ASSUME NEW r \in Reviews
      PROVE  /\ {"status", "run"} \subseteq DOMAIN receipt[r]
             /\ receipt[r].status \in Statuses /\ receipt[r].run \in Runs
  BY DEF StagesOK, Stage, RowsTyped
<1>1. ASSUME NEW r \in Reviews, OnlyOf(r), receipt'[r].status \in Statuses, receipt'[r].run \in Runs PROVE RowsTyped'
  BY <1>0, <1>1 DEF RowsTyped, OnlyOf
<1>2. ASSUME NEW r \in Reviews, ReviewEnds(r) \/ Claim(r) \/ Cancel(r) \/ DropCancelled(r) \/ Expire(r) PROVE RowsTyped'
  <2>1. receipt'[r].status \in Statuses /\ receipt'[r].run \in Runs
    BY <1>0, <1>2 DEF ReviewEnds, Claim, Cancel, DropCancelled, Expire, StagesOK, Statuses, Runs
  <2> QED
    BY <1>1, <1>2, <2>1, RequestsAreOf
<1>3. ASSUME NEW r \in Reviews, NEW run \in Runs, NEW status \in Statuses, Finishes(r, run, status)
      PROVE  receipt'[r].status \in Statuses /\ receipt'[r].run \in Runs
  BY <1>0, <1>3 DEF Finishes, StagesOK
<1>4. ASSUME NEW r \in Reviews, Fails(r) PROVE receipt'[r].status \in Statuses /\ receipt'[r].run \in Runs
  BY <1>0, <1>3, <1>4 DEF Fails, Runs
<1>5. ASSUME NEW r \in Reviews, ReadBefore(r) \/ ReadAgain(r) \/ Recheck(r) \/ Breaks(r) PROVE RowsTyped'
  <2>1. receipt'[r].status \in Statuses /\ receipt'[r].run \in Runs
    <3>1. Fails(r) => receipt'[r].status \in Statuses /\ receipt'[r].run \in Runs
      BY <1>4
    <3>2. Finishes(r, "CANCELLED", "CANCELLED") \/ Finishes(r, "APPLIED_UNVERIFIED", "APPLIED_UNVERIFIED")
            => receipt'[r].status \in Statuses /\ receipt'[r].run \in Runs
      BY <1>3 DEF Statuses, Runs
    <3>3. UNCHANGED receipt \/ receipt' = [receipt EXCEPT ![r].status = "APPLYING"]
            => receipt'[r].status \in Statuses /\ receipt'[r].run \in Runs
      BY <1>0 DEF StagesOK, Statuses
    <3> QED
      BY <1>5, <3>1, <3>2, <3>3 DEF ReadBefore, ReadAgain, Recheck, Breaks
  <2> QED
    BY <1>1, <1>5, <2>1, ExecutionsAreOf
<1>6. ASSUME NEW r \in Reviews, Start(r) \/ AnsibleEnds(r) \/ Verify(r) PROVE RowsTyped'
  <2>1. receipt'[r].status \in Statuses /\ receipt'[r].run \in Runs
    BY <1>0, <1>6 DEF Start, AnsibleEnds, Verify, StagesOK, Statuses, Runs
  <2> QED
    BY <1>1, <1>6, <2>1, ExecutionsAreOf
<1>7. CASE Crash
  BY <1>0, <1>7 DEF Crash, RowsTyped, Runs
<1>8. CASE UNCHANGED receipt
  BY <1>8 DEF RowsTyped
<1> QED
  BY <1>2, <1>5, <1>6, <1>7, <1>8, ZenonT(60)
     DEF Next, vars, Review, ReadRules, Apply, Capture, Launch, Send, OrphanEnds, ChangeAccount, ChangeDevice, EditBox

\* Firewall: whatever the executions, the requests and everybody else do, every variable keeps its type.
THEOREM FirewallTypeCorrect == Spec => []TypeOK
<1>1. StagesOK /\ Typed => TypeOK
  BY DEF StagesOK, Stage, Typed, RowsTyped, ThingsTyped, CountsTyped, TypeOK, Statuses, Runs, Before, After
<1>2. StagesOK /\ Typed /\ [Next]_vars => Typed'
  BY ThingsStep, CountsStep, RowsStep DEF Typed
<1> QED
  BY <1>1, <1>2, TypedInit, StagesInit, StagesStep, PTL DEF Spec

(***************************************************************************)
(* One worker at a time holds the lock of the device.                      *)
(***************************************************************************)
OneHolder == \A r, s \in Reviews : worker[r].step # "idle" /\ worker[s].step # "idle" => r = s

LEMMA HolderInit == Init => OneHolder
  BY DEF Init, OneHolder, Idle

\* A step of a receipt takes the lock only if nobody holds it.
LEMMA HolderOfOne ==
  ASSUME StagesOK, OneHolder, NEW r \in Reviews, OnlyOf(r),
         worker'[r].step = "idle" \/ worker[r].step # "idle" \/ LockFree
  PROVE  OneHolder'
<1>1. \A s \in Reviews \ {r} : worker'[s] = worker[s]
  BY SMTT(60) DEF OnlyOf
<1> QED
  BY <1>1 DEF OneHolder, LockFree

LEMMA HolderStep == StagesOK /\ OneHolder /\ [Next]_vars => OneHolder'
<1> SUFFICES ASSUME StagesOK, OneHolder, [Next]_vars PROVE OneHolder'
  OBVIOUS
<1>0. \A r \in Reviews : "step" \in DOMAIN worker[r]
  BY DEF StagesOK, Stage
<1>1. ASSUME NEW r \in Reviews, NEW u \in Users, NEW changes \in Requests[platform], Review(r, u, changes)
      PROVE  OneHolder'
  BY <1>1, RequestsAreOf, HolderOfOne DEF Review
<1>2. ASSUME NEW r \in Reviews, ReadRules(r) \/ ReviewEnds(r) PROVE OneHolder'
  BY <1>2, RequestsAreOf, HolderOfOne DEF ReadRules, ReviewEnds, Read, At
<1>3. ASSUME NEW r \in Reviews, Start(r) PROVE OneHolder'
  <2>1. worker'[r] = worker[r] \/ LockFree
    BY <1>3 DEF Start
  <2> QED
    BY <1>3, <2>1, ExecutionsAreOf, HolderOfOne
<1>4. ASSUME NEW r \in Reviews,
             \/ ReadBefore(r) \/ Capture(r) \/ ReadAgain(r) \/ Recheck(r) \/ Launch(r) \/ AnsibleEnds(r) \/ Verify(r)
      PROVE  OneHolder'
  <2>1. worker[r].step # "idle"
    BY <1>4 DEF ReadBefore, Capture, ReadAgain, Recheck, Launch, AnsibleEnds, Verify, Read, At
  <2> QED
    BY <1>4, <2>1, ExecutionsAreOf, HolderOfOne
<1>5. ASSUME NEW r \in Reviews, Breaks(r) PROVE OneHolder'
  <2>1. worker[r].step # "idle"
    BY <1>5 DEF Breaks, At
  <2> QED
    BY <1>5, <2>1, ExecutionsAreOf, HolderOfOne
<1>6. CASE UNCHANGED worker
  BY <1>6 DEF OneHolder
<1>7. CASE Crash
  <2>1. \A r \in Reviews : worker'[r].step = "idle"
    BY <1>7 DEF Crash, At, Idle
  <2> QED
    BY <2>1 DEF OneHolder
<1> QED
  BY <1>1, <1>2, <1>3, <1>4, <1>5, <1>6, <1>7, ZenonT(60)
     DEF Next, vars, Apply, Claim, Cancel, DropCancelled, Send, Expire, OrphanEnds, ChangeAccount, ChangeDevice, EditBox, Others

(***************************************************************************)
(* What a worker knows of the device, the account and the backup, except   *)
(* for what others changed since it looked: in `since' is every change of  *)
(* a thing since the last look at it.                                      *)
(***************************************************************************)
Surroundings ==
    /\ DOMAIN box = Idents /\ \A i \in Idents : box[i] = Configuration(box[i])
    /\ device.ident \in Idents
    /\ DOMAIN since = Reviews

Shape(r) ==
    /\ receipt[r].status # "NONE" => {"plan", "base"} \subseteq DOMAIN receipt[r]
    /\ worker[r].step # "idle" => {"seen", "rules", "ident", "saved"} \subseteq DOMAIN worker[r]
    /\ worker[r].step = "capture" => worker[r].seen = "nothing"
    /\ {"on", "sent"} \subseteq DOMAIN ansible[r] /\ ansible[r].sent \in Nat
    /\ ansible[r].on => ansible[r].launched = 1

Connected(r) ==
    worker[r].step \in Before =>
        /\ receipt[r].plan.target \in Idents
        /\ worker[r].step \in {"before", "capture"} => worker[r].ident = receipt[r].plan.target
        /\ worker[r].step = "again" /\ worker[r].seen = "rules" => worker[r].ident \in Idents

\* What it saw, or is about to compare.
Reads(r, step) ==
    worker[r].step = step /\ worker[r].seen = "rules" => worker[r].rules = box[worker[r].ident].rules

BackupKnown(r) ==
    "backup" \notin since[r] =>
        /\ Reads(r, "before")
        /\ worker[r].step = "capture" => box[worker[r].ident] = receipt[r].base
        /\ worker[r].step \in {"again", "recheck", "launch", "ansible"} => worker[r].saved = receipt[r].base

RulesKnown(r) ==
    "rules" \notin since[r] =>
        /\ Reads(r, "before")
        /\ worker[r].ident = receipt[r].plan.target => Reads(r, "again")
        /\ \/ worker[r].step \in {"capture", "recheck", "launch"}
           \/ worker[r].step = "again" /\ ~(worker[r].seen = "rules" /\ worker[r].ident = receipt[r].plan.target)
           \/ worker[r].step = "ansible" /\ ansible[r].sent = 0
           => box[receipt[r].plan.target] = receipt[r].base

TargetKnown(r) ==
    "target" \notin since[r] =>
        /\ worker[r].step = "launch" => SameTarget(r)
        /\ worker[r].step = "ansible" /\ ansible[r].sent = 0 => ansible[r].to = receipt[r].plan.target

AccountKnown(r) ==
    "account" \notin since[r] => (worker[r].step \in {"launch", "ansible"} => SameAccount(r))

Known(r) == Shape(r) /\ Connected(r) /\ BackupKnown(r) /\ RulesKnown(r) /\ TargetKnown(r) /\ AccountKnown(r)

KnownOK == Surroundings /\ \A r \in Reviews : Known(r)

\* Nothing is known of who is not at work.
LEMMA KnownIdle ==
  ASSUME NEW r \in Reviews, Shape(r), worker[r].step \in {"idle", "review", "after"}
  PROVE  Known(r)
  BY DEF Known, Connected, Reads, BackupKnown, RulesKnown, TargetKnown, AccountKnown, Before

LEMMA KnownIdleNext ==
  ASSUME NEW r \in Reviews, Shape(r)', worker'[r].step \in {"idle", "review", "after"}
  PROVE  Known(r)'
  BY DEF Known, Connected, Reads, BackupKnown, RulesKnown, TargetKnown, AccountKnown, Before

LEMMA KnownInit == Init => KnownOK
<1> SUFFICES ASSUME Init PROVE KnownOK
  OBVIOUS
<1>1. Surroundings
  BY InitialAssumption DEF Init, Surroundings, IsConfiguration
<1>2. ASSUME NEW r \in Reviews PROVE Known(r)
  <2>1. receipt[r] = Unused /\ worker[r] = Idle /\ ansible[r] = Off
    BY DEF Init
  <2>2. Shape(r)
    BY <2>1 DEF Shape, Unused, Idle, Off
  <2> QED
    BY <2>1, <2>2, KnownIdle DEF Idle
<1> QED
  BY <1>1, <1>2 DEF KnownOK

\* Whose things all stay knows what he knew.
LEMMA KnownStays ==
  ASSUME NEW r \in Reviews, Known(r), receipt'[r].plan = receipt[r].plan, receipt'[r].base = receipt[r].base,
         Shape(r)', worker'[r] = worker[r], ansible'[r] = ansible[r], since'[r] = since[r],
         UNCHANGED <<box, device, account>>
  PROVE  Known(r)'
  BY DEF Known, Shape, Connected, Reads, BackupKnown, RulesKnown, TargetKnown, AccountKnown, SameTarget, SameAccount

(***************************************************************************)
(* Steps of one receipt that leave the device and the accounts alone.      *)
(***************************************************************************)
CalmOf(r) ==
    /\ OnlyOf(r) /\ UNCHANGED <<box, device, account>>
    /\ DOMAIN since' = Reviews /\ \A s \in Reviews \ {r} : since'[s] = since[s]

LEMMA KnownOfOne ==
  ASSUME KnownOK, NEW r \in Reviews, CalmOf(r), Known(r)'
  PROVE  KnownOK'
<1>1. Surroundings'
  BY DEF KnownOK, Surroundings, CalmOf
<1>2. ASSUME NEW s \in Reviews \ {r} PROVE Known(s)'
  <2>1. Known(s) /\ receipt'[s] = receipt[s] /\ worker'[s] = worker[s] /\ ansible'[s] = ansible[s] /\ since'[s] = since[s]
    BY DEF KnownOK, CalmOf, OnlyOf
  <2>2. Shape(s)'
    BY <2>1 DEF Known, Shape
  <2> QED
    BY <2>1, <2>2, KnownStays DEF CalmOf
<1> QED
  BY <1>1, <1>2 DEF KnownOK

LEMMA CalmRequests ==
  ASSUME StagesOK, KnownOK, NEW r \in Reviews,
         \/ \E u \in Users, changes \in Requests[platform] : Review(r, u, changes)
         \/ ReadRules(r) \/ ReviewEnds(r) \/ Apply(r) \/ Claim(r) \/ Cancel(r) \/ DropCancelled(r)
  PROVE  CalmOf(r)
<1>1. OnlyOf(r)
  BY RequestsAreOf
<1>2. DOMAIN since' = Reviews /\ \A s \in Reviews \ {r} : since'[s] = since[s]
  BY DEF KnownOK, Surroundings, Review, ReadRules, ReviewEnds, Apply, Claim, Cancel, DropCancelled
<1>3. UNCHANGED <<box, device, account>>
  BY DEF Review, ReadRules, ReviewEnds, Apply, Claim, Cancel, DropCancelled
<1> QED
  BY <1>1, <1>2, <1>3 DEF CalmOf

LEMMA CalmExecutions ==
  ASSUME StagesOK, KnownOK, NEW r \in Reviews,
         \/ Start(r) \/ ReadBefore(r) \/ Capture(r) \/ ReadAgain(r) \/ Recheck(r)
         \/ Launch(r) \/ AnsibleEnds(r) \/ Verify(r) \/ Breaks(r) \/ OrphanEnds(r)
  PROVE  CalmOf(r)
<1>1. OnlyOf(r)
  BY ExecutionsAreOf
<1>2. DOMAIN since' = Reviews /\ \A s \in Reviews \ {r} : since'[s] = since[s]
  BY DEF KnownOK, Surroundings, Start, ReadBefore, Capture, ReadAgain, Recheck, Launch, AnsibleEnds, Verify, Breaks, OrphanEnds
<1>3. UNCHANGED <<box, device, account>>
  BY DEF Start, ReadBefore, Capture, ReadAgain, Recheck, Launch, AnsibleEnds, Verify, Breaks, OrphanEnds
<1> QED
  BY <1>1, <1>2, <1>3 DEF CalmOf

\* With the rules of the device, what is compared with the base is the configuration.
LEMMA ObservedIs ==
  ASSUME Surroundings, NEW r \in Reviews, worker[r].ident \in Idents, worker[r].rules = box[worker[r].ident].rules
  PROVE  Observed(r) = box[worker[r].ident]
<1> DEFINE b == box[worker[r].ident]
<1>1. b = [rules |-> b.rules, bindings |-> b.bindings, remarks |-> b.remarks]
  BY DEF Surroundings, Configuration
<1>2. Observed(r) = [b EXCEPT !.rules = b.rules]
  BY DEF Observed
<1> HIDE DEF b
<1>3. [b EXCEPT !.rules = b.rules] = b
  BY <1>1
<1> QED
  BY <1>2, <1>3 DEF b

(***************************************************************************)
(* What the worker of the receipt knows after a step of its own.           *)
(***************************************************************************)
LEMMA KnownRequest ==
  ASSUME StagesOK, KnownOK, NEW r \in Reviews,
         \/ \E u \in Users, changes \in Requests[platform] : Review(r, u, changes)
         \/ ReviewEnds(r) \/ Apply(r) \/ Claim(r) \/ Cancel(r) \/ DropCancelled(r)
  PROVE  Known(r)'
<1>1. Stage(receipt[r], worker[r], ansible[r]) /\ Known(r) /\ Shape(r)
  BY DEF StagesOK, KnownOK, Known
<1>2. ASSUME NEW u \in Users, NEW changes \in Requests[platform], Review(r, u, changes) PROVE Known(r)'
  <2> DEFINE w == Busy("review", [actor |-> u, role |-> account[u].role, version |-> account[u].version,
                                  target |-> device.ident, items |-> Items(r, changes)])
  <2>1. {"seen", "rules", "ident", "saved"} \subseteq DOMAIN w /\ w.step = "review"
    BY DEF Busy
  <2> HIDE DEF w
  <2>2. worker'[r] = w /\ receipt'[r] = receipt[r] /\ ansible'[r] = ansible[r]
    BY <1>2 DEF Review, StagesOK, w
  <2>3. Shape(r)'
    BY <1>1, <2>1, <2>2 DEF Shape
  <2> QED
    BY <2>1, <2>2, <2>3, KnownIdleNext
<1>3. CASE ReviewEnds(r)
  <2>1. worker'[r] = Idle /\ ansible'[r] = ansible[r]
    BY <1>3 DEF ReviewEnds, StagesOK
  <2>2. receipt'[r] = receipt[r] \/ {"plan", "base"} \subseteq DOMAIN receipt'[r]
    BY <1>3 DEF ReviewEnds, StagesOK
  <2>3. Shape(r)'
    BY <1>1, <2>1, <2>2 DEF Shape, Idle
  <2> QED
    BY <2>1, <2>3, KnownIdleNext DEF Idle
<1>4. CASE Apply(r) \/ Cancel(r)
  <2>0. {"plan", "base", "status", "run"} \subseteq DOMAIN receipt[r]
    BY <1>1, <1>4 DEF Apply, Cancel, Shape, Stage
  <2>1. /\ receipt'[r].plan = receipt[r].plan /\ receipt'[r].base = receipt[r].base
        /\ receipt'[r].status = receipt[r].status /\ DOMAIN receipt'[r] = DOMAIN receipt[r]
        /\ worker' = worker /\ ansible' = ansible /\ since' = since /\ UNCHANGED <<box, device, account>>
    BY <1>4, <2>0 DEF Apply, Cancel, StagesOK
  <2>2. Shape(r)'
    BY <1>1, <2>1 DEF Shape
  <2> QED
    BY <1>1, <2>1, <2>2, KnownStays
<1>5. CASE Claim(r) \/ DropCancelled(r)
  <2>1. CASE receipt' = receipt
    BY <1>1, <1>5, <2>1, KnownStays DEF Claim, DropCancelled, Shape
  <2>2. CASE receipt' # receipt
    <3>1. worker' = worker /\ ansible' = ansible /\ worker[r].step \in {"idle", "review", "after"}
      BY <1>1, <1>5, <2>2 DEF Claim, DropCancelled, Stage, Before, After
    <3>2. Shape(r)'
      BY <1>1, <1>5, <2>2, <3>1 DEF Claim, DropCancelled, Shape, Stage, StagesOK
    <3> QED
      BY <3>1, <3>2, KnownIdleNext
  <2> QED
    BY <2>1, <2>2
<1> QED
  BY <1>2, <1>3, <1>4, <1>5

LEMMA KnownReading ==
  ASSUME StagesOK, KnownOK, NEW r \in Reviews, ReadRules(r)
  PROVE  Known(r)'
<1>1. Stage(receipt[r], worker[r], ansible[r]) /\ Known(r) /\ Shape(r)
  BY DEF StagesOK, KnownOK, Known
<1>2. /\ worker'[r] = [worker[r] EXCEPT !.seen = "rules", !.ident = Reached(r), !.rules = box[Reached(r)].rules]
      /\ UNCHANGED <<receipt, ansible, box, device, account>>
  BY DEF ReadRules, StagesOK
<1>3. {"step", "seen", "rules", "ident", "saved"} \subseteq DOMAIN worker[r] /\ worker[r].seen = "nothing"
  BY <1>1 DEF ReadRules, Shape, Stage
<1>4. /\ worker'[r].step = worker[r].step /\ worker'[r].ident = Reached(r) /\ worker'[r].saved = worker[r].saved
      /\ worker'[r].rules = box[Reached(r)].rules /\ worker'[r].seen = "rules"
      /\ {"seen", "rules", "ident", "saved"} \subseteq DOMAIN worker'[r]
  BY <1>3, <1>2
<1>5. Shape(r)'
  BY <1>1, <1>2, <1>4 DEF Shape, ReadRules
<1>6. CASE worker[r].step \in {"review", "after"}
  BY <1>4, <1>5, <1>6, KnownIdleNext
<1>7. CASE worker[r].step \in {"before", "again"}
  <2>1. /\ "backup" \notin since'[r] => worker[r].step = "before" \/ "backup" \notin since[r]
        /\ "rules" \notin since'[r] /\ worker[r].step = "again" =>
              Reached(r) = receipt[r].plan.target \/ "rules" \notin since[r]
    BY <1>7 DEF ReadRules, LooksAt, KnownOK, Surroundings, At
  <2>2. Connected(r)'
    BY <1>1, <1>2, <1>4, <1>7 DEF Known, Connected, Reached, KnownOK, Surroundings
  <2>3. BackupKnown(r)' /\ TargetKnown(r)' /\ AccountKnown(r)'
    BY <1>1, <1>2, <1>4, <1>7, <2>1 DEF Known, Reads, BackupKnown, TargetKnown, AccountKnown
  <2>4. RulesKnown(r)'
    BY <1>1, <1>2, <1>3, <1>4, <1>7, <2>1 DEF Known, Reads, RulesKnown
  <2> QED
    BY <1>5, <2>2, <2>3, <2>4 DEF Known
<1> QED
  BY <1>6, <1>7 DEF ReadRules

LEMMA KnownStart ==
  ASSUME StagesOK, KnownOK, NEW r \in Reviews, Start(r)
  PROVE  Known(r)'
<1>1. Stage(receipt[r], worker[r], ansible[r]) /\ Known(r) /\ Shape(r)
  BY DEF StagesOK, KnownOK, Known
<1>2. UNCHANGED <<ansible, box, device, account>>
  BY DEF Start
<1>3. CASE UNCHANGED worker
  <2>1. {"plan", "base"} \subseteq DOMAIN receipt[r]
    BY <1>1 DEF Start, Shape, Stage
  <2>2. DOMAIN receipt'[r] = DOMAIN receipt[r]
    BY DEF Start, StagesOK
  <2>3. worker[r].step \in {"idle", "review"}
    BY <1>1 DEF Start, Stage, Before, After
  <2>4. Shape(r)'
    BY <1>1, <1>2, <1>3, <2>1, <2>3, <2>2 DEF Shape
  <2> QED
    BY <1>3, <2>3, <2>4, KnownIdleNext
<1>4. CASE ~UNCHANGED worker
  <2> DEFINE w == Busy("before", receipt[r].plan)
  <2>1. /\ {"seen", "rules", "ident", "saved"} \subseteq DOMAIN w
        /\ w.step = "before" /\ w.seen = "nothing" /\ w.ident = device.ident
    BY DEF Busy
  <2> HIDE DEF w
  <2>2. worker'[r] = w /\ device.ident = receipt[r].plan.target
    BY <1>4 DEF Start, StagesOK, SameTarget, w
  <2>3. {"plan", "base", "status", "run"} \subseteq DOMAIN receipt[r]
    BY <1>1 DEF Start, Shape, Stage
  <2>4. receipt'[r].plan = receipt[r].plan /\ DOMAIN receipt'[r] = DOMAIN receipt[r] /\ receipt'[r].status = receipt[r].status
    BY <2>3 DEF Start, StagesOK
  <2>5. Shape(r)'
    BY <1>1, <1>2, <2>1, <2>2, <2>4 DEF Shape
  <2>6. Connected(r)'
    BY <2>1, <2>2, <2>4 DEF Connected, KnownOK, Surroundings
  <2>7. BackupKnown(r)' /\ RulesKnown(r)' /\ TargetKnown(r)' /\ AccountKnown(r)'
    BY <2>1, <2>2 DEF Reads, BackupKnown, RulesKnown, TargetKnown, AccountKnown
  <2> QED
    BY <2>5, <2>6, <2>7 DEF Known
<1> QED
  BY <1>3, <1>4

\* A run that ends leaves nobody at work.
LEMMA KnownEnds ==
  ASSUME StagesOK, KnownOK, NEW r \in Reviews, NEW run, NEW status, Finishes(r, run, status), UNCHANGED ansible,
         receipt[r].status # "NONE"
  PROVE  Known(r)'
<1>1. Stage(receipt[r], worker[r], ansible[r]) /\ Shape(r)
  BY DEF StagesOK, KnownOK, Known
<1>2. worker'[r] = Idle /\ DOMAIN receipt'[r] = DOMAIN receipt[r]
  BY DEF Finishes, StagesOK
<1>3. Shape(r)'
  BY <1>1, <1>2 DEF Shape, Idle
<1> QED
  BY <1>2, <1>3, KnownIdleNext DEF Idle

\* From one step to the next, while the receipt, the device and the process stay as they are.
LEMMA KnownLooked ==
  ASSUME StagesOK, KnownOK, NEW r \in Reviews, ReadBefore(r) \/ Capture(r) \/ ReadAgain(r)
  PROVE  Known(r)'
<1>1. Stage(receipt[r], worker[r], ansible[r]) /\ Known(r) /\ Shape(r) /\ receipt[r].status # "NONE"
  BY DEF StagesOK, KnownOK, Known, ReadBefore, Capture, ReadAgain, Read, At, Stage, Before
<1>2. CASE Fails(r)
  BY <1>1, <1>2, KnownEnds DEF Fails, ReadBefore, Capture, ReadAgain
<1>3. CASE ~Fails(r)
  <2>1. worker[r].step \in {"before", "capture", "again"} /\ UNCHANGED <<receipt, ansible, since, box, device, account>>
    BY <1>3 DEF ReadBefore, Capture, ReadAgain, Read, At
  <2>2. /\ worker'[r].ident = worker[r].ident /\ DOMAIN worker'[r] = DOMAIN worker[r]
        /\ worker[r].step # "capture" => worker'[r].saved = worker[r].saved /\ worker'[r].seen = "nothing"
        /\ worker[r].step = "before" => worker'[r].step = "capture" /\ ReadBefore(r)
        /\ worker[r].step = "again" => worker'[r].step = "recheck" /\ ReadAgain(r)
        /\ worker[r].step = "capture" =>
              worker'[r].step = "again" /\ worker'[r].saved = box[worker[r].ident] /\ worker'[r].seen = worker[r].seen
    <3>1. {"step", "seen", "rules", "ident", "saved"} \subseteq DOMAIN worker[r]
      BY <1>1, <2>1 DEF Stage, Shape
    <3>2. CASE Capture(r)
      BY <3>1, <3>2 DEF Capture, At, StagesOK
    <3>3. CASE ReadBefore(r) \/ ReadAgain(r)
      BY <1>3, <3>1, <3>3 DEF ReadBefore, ReadAgain, Read, At, Goes, StagesOK
    <3> QED
      BY <3>2, <3>3
  <2>3. Shape(r)'
    BY <1>1, <2>1, <2>2 DEF Shape
  <2>4. worker[r].step \in {"before", "again"} => Observed(r) = receipt[r].base /\ worker[r].seen = "rules"
    BY <1>3, <2>1, <2>2 DEF ReadBefore, ReadAgain, Read
  <2>5. /\ Connected(r)' /\ worker[r].ident \in Idents /\ receipt[r].plan.target \in Idents
        /\ worker[r].step \in {"before", "capture"} => worker[r].ident = receipt[r].plan.target
    BY <1>1, <2>1, <2>2, <2>4 DEF Known, Connected, Shape, Before
  <2>6. worker[r].step = "before" /\ "backup" \notin since[r] => box[worker[r].ident] = receipt[r].base
    BY <1>1, <2>4, <2>5, ObservedIs DEF Known, BackupKnown, Reads, KnownOK
  <2>7. worker[r].step \in {"before", "again"} /\ "rules" \notin since[r] => box[receipt[r].plan.target] = receipt[r].base
    BY <1>1, <2>4, <2>5, ObservedIs DEF Known, RulesKnown, Reads, KnownOK
  <2>8. BackupKnown(r)'
    BY <1>1, <2>1, <2>2, <2>6 DEF Known, BackupKnown, Reads
  <2>9. RulesKnown(r)'
    BY <1>1, <2>1, <2>2, <2>5, <2>7 DEF Known, RulesKnown, Reads, Shape
  <2>10. TargetKnown(r)' /\ AccountKnown(r)'
    BY <2>1, <2>2 DEF TargetKnown, AccountKnown
  <2> QED
    BY <2>3, <2>5, <2>8, <2>9, <2>10 DEF Known
<1> QED
  BY <1>2, <1>3

LEMMA KnownRecheck ==
  ASSUME StagesOK, KnownOK, NEW r \in Reviews, Recheck(r)
  PROVE  Known(r)'
<1>1. Stage(receipt[r], worker[r], ansible[r]) /\ Known(r) /\ Shape(r) /\ receipt[r].status # "NONE"
  BY DEF StagesOK, KnownOK, Known, Recheck, At, Stage, Before
<1>2. CASE Fails(r) \/ Finishes(r, "CANCELLED", "CANCELLED")
  BY <1>1, <1>2, KnownEnds DEF Fails, Recheck
<1>3. CASE ~(Fails(r) \/ Finishes(r, "CANCELLED", "CANCELLED"))
  <2>1. SameAccount(r) /\ SameTarget(r) /\ Goes(r, "launch") /\ receipt' = [receipt EXCEPT ![r].status = "APPLYING"]
    BY <1>3 DEF Recheck
  <2>2. /\ {"step", "seen", "rules", "ident", "saved"} \subseteq DOMAIN worker[r]
        /\ {"plan", "base", "status"} \subseteq DOMAIN receipt[r]
    BY <1>1 DEF Recheck, At, Stage, Shape
  <2>3. /\ worker'[r].step = "launch" /\ worker'[r].ident = worker[r].ident /\ worker'[r].saved = worker[r].saved
        /\ DOMAIN worker'[r] = DOMAIN worker[r]
    BY <2>1, <2>2 DEF Goes, StagesOK
  <2>4. receipt'[r].plan = receipt[r].plan /\ receipt'[r].base = receipt[r].base /\ DOMAIN receipt'[r] = DOMAIN receipt[r]
    BY <2>1, <2>2 DEF StagesOK
  <2>5. UNCHANGED <<ansible, box, device, account>> /\ worker[r].step = "recheck"
    BY DEF Recheck, At
  <2>6. /\ "backup" \notin since'[r] => "backup" \notin since[r]
        /\ "rules" \notin since'[r] => "rules" \notin since[r]
    BY DEF Recheck, KnownOK, Surroundings
  <2>7. Shape(r)'
    BY <1>1, <2>2, <2>3, <2>4, <2>5 DEF Shape
  <2>8. Connected(r)'
    BY <1>1, <2>3, <2>4, <2>5 DEF Known, Connected, Before
  <2>9. BackupKnown(r)' /\ RulesKnown(r)'
    BY <1>1, <2>3, <2>4, <2>5, <2>6 DEF Known, BackupKnown, RulesKnown, Reads
  <2>10. TargetKnown(r)' /\ AccountKnown(r)'
    BY <2>1, <2>3, <2>4, <2>5 DEF TargetKnown, AccountKnown, SameTarget, SameAccount
  <2> QED
    BY <2>7, <2>8, <2>9, <2>10 DEF Known
<1> QED
  BY <1>2, <1>3

LEMMA KnownLaunch ==
  ASSUME StagesOK, KnownOK, NEW r \in Reviews, Launch(r)
  PROVE  Known(r)'
<1>1. Stage(receipt[r], worker[r], ansible[r]) /\ Known(r) /\ Shape(r) /\ worker[r].step = "launch"
  BY DEF StagesOK, KnownOK, Known, Launch, At
<1>2. ansible[r].launched = 0 /\ {"step", "seen", "rules", "ident", "saved"} \subseteq DOMAIN worker[r]
  BY <1>1 DEF Stage, Shape, Before
<1>3. ansible'[r] = [on |-> TRUE, sent |-> 0, launched |-> 1, to |-> device.ident]
  BY <1>2 DEF Launch, StagesOK
<1>4. worker'[r].step = "ansible" /\ worker'[r].saved = worker[r].saved /\ DOMAIN worker'[r] = DOMAIN worker[r]
  BY <1>2 DEF Launch, StagesOK
<1>5. UNCHANGED <<receipt, since, box, device, account>>
  BY DEF Launch
<1>6. Shape(r)'
  BY <1>1, <1>2, <1>3, <1>4, <1>5 DEF Shape
<1>7. Connected(r)'
  BY <1>4 DEF Connected, Before
<1>8. BackupKnown(r)' /\ RulesKnown(r)' /\ AccountKnown(r)'
  BY <1>1, <1>4, <1>5 DEF Known, BackupKnown, RulesKnown, AccountKnown, Reads, SameAccount
<1>9. TargetKnown(r)'
  BY <1>1, <1>3, <1>4, <1>5 DEF Known, TargetKnown, SameTarget
<1> QED
  BY <1>6, <1>7, <1>8, <1>9 DEF Known

LEMMA KnownAfterwards ==
  ASSUME StagesOK, KnownOK, NEW r \in Reviews, AnsibleEnds(r) \/ Verify(r) \/ Breaks(r) \/ OrphanEnds(r)
  PROVE  Known(r)'
<1>1. Stage(receipt[r], worker[r], ansible[r]) /\ Known(r) /\ Shape(r)
  BY DEF StagesOK, KnownOK, Known
<1>2. ASSUME worker[r].step \in Before \union After
      PROVE  {"plan", "base", "status"} \subseteq DOMAIN receipt[r] /\ receipt[r].status # "NONE"
  BY <1>1, <1>2 DEF Stage, Shape
<1>3. CASE AnsibleEnds(r)
  <2>1. {"step", "seen", "rules", "ident", "saved"} \subseteq DOMAIN worker[r] /\ worker[r].step \in Before \union After
    BY <1>1, <1>3 DEF AnsibleEnds, At, Stage, Shape, Before, After
  <2>2. worker'[r].step = "after" /\ DOMAIN worker'[r] = DOMAIN worker[r]
    BY <1>3, <2>1 DEF AnsibleEnds, Goes, StagesOK
  <2>3. DOMAIN receipt'[r] = DOMAIN receipt[r]
    BY <1>3 DEF AnsibleEnds, StagesOK
  <2>4. ansible'[r].on = FALSE /\ ansible'[r].sent = ansible[r].sent /\ DOMAIN ansible'[r] = DOMAIN ansible[r]
    BY <1>1, <1>3 DEF AnsibleEnds, StagesOK, Shape
  <2>5. Shape(r)'
    BY <1>1, <1>2, <2>1, <2>2, <2>3, <2>4 DEF Shape
  <2> QED
    BY <2>2, <2>5, KnownIdleNext
<1>4. CASE Verify(r)
  <2>1. {"plan", "base"} \subseteq DOMAIN receipt[r]
    BY <1>2, <1>4 DEF Verify, Read, At, After
  <2>2. worker'[r].step = "idle" /\ DOMAIN receipt'[r] = DOMAIN receipt[r] /\ ansible'[r] = ansible[r]
    BY <1>4 DEF Verify, StagesOK, Idle
  <2>3. Shape(r)'
    BY <1>1, <2>1, <2>2 DEF Shape
  <2> QED
    BY <2>2, <2>3, KnownIdleNext
<1>5. CASE Breaks(r)
  <2>1. CASE At(r, "review") /\ worker' = [worker EXCEPT ![r] = Idle] /\ UNCHANGED receipt
    <3>1. worker'[r] = Idle /\ receipt'[r] = receipt[r] /\ ansible'[r] = ansible[r]
      BY <1>5, <2>1 DEF Breaks, StagesOK
    <3>2. Shape(r)'
      BY <1>1, <3>1 DEF Shape, Idle
    <3> QED
      BY <3>1, <3>2, KnownIdleNext DEF Idle
  <2>2. CASE ~(At(r, "review") /\ worker' = [worker EXCEPT ![r] = Idle] /\ UNCHANGED receipt)
    <3>1. worker[r].step \in Before \union After /\ UNCHANGED ansible
      BY <1>5, <2>2 DEF Breaks, At, Before, After
    <3>2. Fails(r) \/ Finishes(r, "APPLIED_UNVERIFIED", "APPLIED_UNVERIFIED")
      BY <1>5, <2>2 DEF Breaks
    <3> QED
      BY <1>2, <3>1, <3>2, KnownEnds DEF Fails
  <2> QED
    BY <2>1, <2>2
<1>6. CASE OrphanEnds(r)
  <2>1. /\ ansible'[r].on = FALSE /\ ansible'[r].sent = ansible[r].sent /\ DOMAIN ansible'[r] = DOMAIN ansible[r]
        /\ worker[r].step # "ansible" /\ UNCHANGED <<receipt, worker, since, box, device, account>>
    BY <1>1, <1>6 DEF OrphanEnds, StagesOK, Shape, At
  <2>2. Shape(r)'
    BY <1>1, <2>1 DEF Shape
  <2>3. Connected(r)' /\ BackupKnown(r)' /\ RulesKnown(r)' /\ TargetKnown(r)' /\ AccountKnown(r)'
    BY <1>1, <2>1 DEF Known, Connected, BackupKnown, RulesKnown, TargetKnown, AccountKnown, Reads, SameTarget, SameAccount
  <2> QED
    BY <2>2, <2>3 DEF Known
<1> QED
  BY <1>3, <1>4, <1>5, <1>6

(***************************************************************************)
(* A command of a receipt changes the device under everybody else, and by  *)
(* then nobody else at work may rely on it: the worker of the receipt      *)
(* holds the lock, or the others count it as a change.                     *)
(***************************************************************************)
LEMMA KnownSend ==
  ASSUME StagesOK, OneHolder, KnownOK, NEW r \in Reviews, Send(r)
  PROVE  KnownOK'
<1>1. Stage(receipt[r], worker[r], ansible[r]) /\ Known(r) /\ Shape(r)
  BY DEF StagesOK, KnownOK, Known
<1>2. /\ ansible[r].on /\ UNCHANGED <<device, account, receipt, worker>>
      /\ ansible'[r].sent = ansible[r].sent + 1 /\ ansible'[r].launched = ansible[r].launched
      /\ DOMAIN ansible'[r] = DOMAIN ansible[r]
  BY <1>1 DEF Send, StagesOK, Shape, Stage
<1>3. Surroundings'
  <2> DEFINE b    == box[ansible[r].to]
             sent == Performed(platform, receipt[r].plan.items[ansible[r].sent + 1], b.rules)
  <2>1. box' = [box EXCEPT ![ansible[r].to] = [@ EXCEPT !.rules = sent]]
    BY DEF Send
  <2> HIDE DEF sent
  <2>2. ASSUME NEW i \in Idents PROVE box'[i] = Configuration(box'[i])
    <3>1. CASE i = ansible[r].to
      <4>1. b = [rules |-> b.rules, bindings |-> b.bindings, remarks |-> b.remarks]
        BY <3>1 DEF KnownOK, Surroundings, Configuration
      <4>2. box'[i] = [b EXCEPT !.rules = sent]
        BY <2>1, <3>1 DEF KnownOK, Surroundings
      <4> HIDE DEF b
      <4>3. [b EXCEPT !.rules = sent] = [rules |-> sent, bindings |-> b.bindings, remarks |-> b.remarks]
        BY <4>1
      <4> QED
        BY <4>2, <4>3 DEF Configuration
    <3>2. CASE i # ansible[r].to
      BY <2>1, <3>2 DEF KnownOK, Surroundings
    <3> QED
      BY <3>1, <3>2
  <2>3. DOMAIN box' = Idents /\ DOMAIN since' = Reviews
    BY <2>1 DEF KnownOK, Surroundings, Send
  <2> QED
    BY <1>2, <2>2, <2>3 DEF KnownOK, Surroundings
<1>4. Known(r)'
  <2>1. worker[r].step \notin Before
    BY <1>1, <1>2 DEF Shape, Stage
  <2>2. Shape(r)'
    BY <1>1, <1>2 DEF Shape
  <2>3. since'[r] = since[r] /\ ansible'[r].sent # 0
    BY <1>1, <1>2 DEF Send, Shape
  <2>4. Connected(r)' /\ RulesKnown(r)' /\ TargetKnown(r)' /\ AccountKnown(r)'
    BY <1>1, <1>2, <2>1, <2>3 DEF Known, Connected, RulesKnown, TargetKnown, AccountKnown, SameAccount, Reads, Before
  <2>5. BackupKnown(r)'
    BY <1>1, <1>2, <2>1, <2>3 DEF Known, BackupKnown, Reads, Before
  <2> QED
    BY <2>2, <2>4, <2>5 DEF Known
<1>5. ASSUME NEW s \in Reviews \ {r} PROVE Known(s)'
  <2>1. Known(s) /\ Shape(s) /\ ansible'[s] = ansible[s]
    BY DEF KnownOK, Known, Send, StagesOK
  <2>2. Shape(s)'
    BY <1>2, <2>1 DEF Shape
  <2>3. CASE worker[s].step = "idle"
    BY <1>2, <2>2, <2>3, KnownIdleNext
  <2>4. CASE worker[s].step # "idle"
    <3>1. ~At(r, "ansible")
      BY <2>4 DEF OneHolder, At
    <3>2. since'[s] = since[s] \union {"rules", "backup", "result"}
      BY <3>1 DEF Send
    <3>3. Connected(s)' /\ BackupKnown(s)' /\ RulesKnown(s)'
      BY <1>2, <2>1, <3>2 DEF Known, Connected, BackupKnown, RulesKnown
    <3>4. TargetKnown(s)' /\ AccountKnown(s)'
      BY <1>2, <2>1, <3>2 DEF Known, TargetKnown, AccountKnown, SameTarget, SameAccount
    <3> QED
      BY <2>2, <3>3, <3>4 DEF Known
  <2> QED
    BY <2>3, <2>4
<1> QED
  BY <1>3, <1>4, <1>5 DEF KnownOK

(***************************************************************************)
(* What others do is in `since', and a kill leaves nobody at work.         *)
(***************************************************************************)
LEMMA KnownOthers ==
  ASSUME StagesOK, KnownOK,
         \/ \E u \in Users : ChangeAccount(u)
         \/ ChangeDevice
         \/ \E i \in Idents : EditBox(i)
         \/ \E r \in Reviews : Expire(r)
  PROVE  KnownOK'
<1>1. Surroundings'
  <2>1. DOMAIN since' = Reviews
    BY DEF ChangeAccount, ChangeDevice, EditBox, Expire, Others, Disturbs
  <2>2. CASE UNCHANGED box
    BY <2>1, <2>2 DEF KnownOK, Surroundings, ChangeAccount, ChangeDevice, EditBox, Expire
  <2>3. ASSUME NEW i \in Idents, EditBox(i) PROVE Surroundings'
    BY <2>1, <2>3 DEF KnownOK, Surroundings, EditBox, IsConfiguration
  <2> QED
    BY <2>2, <2>3 DEF ChangeAccount, ChangeDevice, Expire
<1>2. ASSUME NEW r \in Reviews PROVE Known(r)'
  <2>1. Stage(receipt[r], worker[r], ansible[r]) /\ Known(r) /\ Shape(r)
    BY DEF StagesOK, KnownOK, Known
  <2>2. UNCHANGED <<worker, ansible>>
    BY DEF ChangeAccount, ChangeDevice, EditBox, Expire, Others
  <2>3. /\ DOMAIN receipt'[r] = DOMAIN receipt[r] /\ receipt'[r].status = receipt[r].status
        /\ {"plan", "base"} \subseteq DOMAIN receipt[r] =>
              receipt'[r].plan = receipt[r].plan /\ receipt'[r].base = receipt[r].base
    BY <2>1 DEF ChangeAccount, ChangeDevice, EditBox, Expire, StagesOK, Stage
  <2>4. Shape(r)'
    BY <2>1, <2>2, <2>3 DEF Shape
  <2>5. CASE worker[r].step \in {"idle", "review", "after"}
    BY <2>2, <2>4, <2>5, KnownIdleNext
  <2>6. CASE worker[r].step \notin {"idle", "review", "after"}
    <3>1. receipt[r].run = "RUNNING" /\ receipt'[r].plan = receipt[r].plan /\ receipt'[r].base = receipt[r].base
      BY <2>1, <2>3, <2>6 DEF Stage, Shape, After
    <3>2. \E what :
            /\ since'[r] = since[r] \union what
            /\ ("rules" \in what /\ "backup" \in what) \/ UNCHANGED box
            /\ "target" \in what \/ UNCHANGED device
            /\ "account" \in what \/ UNCHANGED account
      <4>1. ASSUME NEW what, Disturbs(what) PROVE since'[r] = since[r] \union what
        BY <3>1, <4>1 DEF Disturbs
      <4>2. ASSUME NEW u \in Users, ChangeAccount(u)
            PROVE  since'[r] = since[r] \union {"account"} /\ UNCHANGED <<box, device>>
        BY <4>1, <4>2 DEF ChangeAccount, Others
      <4>3. CASE ChangeDevice
        <5>1. since'[r] = since[r] \union {"target"} /\ UNCHANGED <<box, account>>
          BY <4>1, <4>3 DEF ChangeDevice, Others
        <5> QED
          BY <5>1
      <4>4. ASSUME NEW i \in Idents, EditBox(i)
            PROVE  since'[r] = since[r] \union {"rules", "backup", "result"} /\ UNCHANGED <<device, account>>
        BY <4>1, <4>4 DEF EditBox, Others
      <4>5. ASSUME NEW s \in Reviews, Expire(s) PROVE since'[r] = since[r] \union {} /\ UNCHANGED <<box, device, account>>
        BY <4>1, <4>5 DEF Expire, Others
      <4> QED
        BY <4>2, <4>3, <4>4, <4>5
    <3>3. Connected(r)'
      BY <2>1, <2>2, <3>1 DEF Known, Connected
    <3>4. /\ ("rules" \notin since'[r] \/ "backup" \notin since'[r]) => UNCHANGED box
          /\ "target" \notin since'[r] => UNCHANGED device
          /\ "account" \notin since'[r] => UNCHANGED account
          /\ \A x : x \notin since'[r] => x \notin since[r]
      BY <3>2
    <3>5. BackupKnown(r)'
      BY <2>1, <2>2, <3>1, <3>4 DEF Known, BackupKnown, Reads
    <3>6. RulesKnown(r)'
      BY <2>1, <2>2, <3>1, <3>4 DEF Known, RulesKnown, Reads
    <3>7. TargetKnown(r)'
      BY <2>1, <2>2, <3>1, <3>4 DEF Known, TargetKnown, SameTarget
    <3>8. AccountKnown(r)'
      BY <2>1, <2>2, <3>1, <3>4 DEF Known, AccountKnown, SameAccount
    <3> QED
      BY <2>4, <3>3, <3>5, <3>6, <3>7, <3>8 DEF Known
  <2> QED
    BY <2>5, <2>6
<1> QED
  BY <1>1, <1>2 DEF KnownOK

LEMMA KnownCrash ==
  ASSUME StagesOK, KnownOK, Crash
  PROVE  KnownOK'
<1>1. Surroundings'
  BY DEF KnownOK, Surroundings, Crash
<1>2. ASSUME NEW r \in Reviews PROVE Known(r)'
  <2>1. Shape(r) /\ Stage(receipt[r], worker[r], ansible[r])
    BY DEF KnownOK, Known, StagesOK
  <2>2. worker'[r].step = "idle" /\ ansible'[r] = ansible[r]
    BY DEF Crash, At, Idle
  <2>3. DOMAIN receipt'[r] = DOMAIN receipt[r] /\ receipt'[r].status = receipt[r].status
    BY <2>1 DEF Crash, Stage
  <2>4. Shape(r)'
    BY <2>1, <2>2, <2>3 DEF Shape
  <2> QED
    BY <2>2, <2>4, KnownIdleNext
<1> QED
  BY <1>1, <1>2 DEF KnownOK

LEMMA KnownStep == StagesOK /\ OneHolder /\ KnownOK /\ [Next]_vars => KnownOK'
<1> SUFFICES ASSUME StagesOK, OneHolder, KnownOK, [Next]_vars PROVE KnownOK'
  OBVIOUS
<1>1. ASSUME NEW r \in Reviews,
             \/ \E u \in Users, changes \in Requests[platform] : Review(r, u, changes)
             \/ ReadRules(r) \/ ReviewEnds(r) \/ Apply(r) \/ Claim(r) \/ Cancel(r) \/ DropCancelled(r)
      PROVE  KnownOK'
  BY <1>1, CalmRequests, KnownRequest, KnownReading, KnownOfOne
<1>2. ASSUME NEW r \in Reviews,
             \/ Start(r) \/ ReadBefore(r) \/ Capture(r) \/ ReadAgain(r) \/ Recheck(r)
             \/ Launch(r) \/ AnsibleEnds(r) \/ Verify(r) \/ Breaks(r) \/ OrphanEnds(r)
      PROVE  KnownOK'
  BY <1>2, CalmExecutions, KnownStart, KnownLooked, KnownRecheck, KnownLaunch, KnownAfterwards, KnownOfOne
<1>3. ASSUME NEW r \in Reviews, Send(r) PROVE KnownOK'
  BY <1>3, KnownSend
<1>4. CASE \/ \E u \in Users : ChangeAccount(u)
           \/ ChangeDevice
           \/ \E i \in Idents : EditBox(i)
           \/ \E r \in Reviews : Expire(r)
  BY <1>4, KnownOthers
<1>5. CASE Crash
  BY <1>5, KnownCrash
<1>6. CASE UNCHANGED vars
  BY <1>6 DEF vars, KnownOK, Surroundings, Known, Shape, Connected, Reads, BackupKnown, RulesKnown, TargetKnown, AccountKnown,
              SameTarget, SameAccount
<1> QED
  BY <1>1, <1>2, <1>3, <1>4, <1>5, <1>6 DEF Next

\* execute and run_ansible: whatever others do to the device, the accounts and the inventory, whenever
\* the process is killed, and however many receipts are reviewed and applied, the first command of a
\* receipt finds the reviewed device, rules, backup and account, except for what was changed after the
\* worker's own last look at it; a reading of another device, edited there and back, is no look.
THEOREM ReceiptsSendAsReviewed == Spec => SentAsReviewed
<1>1. ASSUME KnownOK, NEW r \in Reviews, At(r, "ansible"), ansible[r].sent = 0
      PROVE  /\ \/ ansible[r].to = receipt[r].plan.target
                \/ "target" \in since[r]
             /\ \/ box[receipt[r].plan.target] = receipt[r].base
                \/ "rules" \in since[r]
             /\ \/ worker[r].saved = receipt[r].base
                \/ "backup" \in since[r]
             /\ \/ SameAccount(r)
                \/ "account" \in since[r]
  BY <1>1 DEF KnownOK, Known, BackupKnown, RulesKnown, TargetKnown, AccountKnown, At
<1> DEFINE Sent ==
        \A r \in Reviews :
            At(r, "ansible") /\ ansible[r].sent = 0 /\ ansible'[r].sent = 1 =>
                /\ \/ ansible[r].to = receipt[r].plan.target
                   \/ "target" \in since[r]
                /\ \/ box[receipt[r].plan.target] = receipt[r].base
                   \/ "rules" \in since[r]
                /\ \/ worker[r].saved = receipt[r].base
                   \/ "backup" \in since[r]
                /\ \/ SameAccount(r)
                   \/ "account" \in since[r]
<1>2. KnownOK => [Sent]_vars
  BY <1>1
<1> QED
  BY <1>2, StagesInit, StagesStep, HolderInit, HolderStep, KnownInit, KnownStep, PTL DEF Spec, SentAsReviewed

(***************************************************************************)
(* The places of a finite set in their order: Place is the inverse of Nth.*)
(***************************************************************************)
LEMMA NthRange ==
  ASSUME NEW K \in SUBSET Int, IsFiniteSet(K), NEW k \in K
  PROVE  Nth(K, k) \in 1..Cardinality(K)
<1>1. {j \in K : j <= k} \subseteq K /\ k \in {j \in K : j <= k}
  OBVIOUS
<1>2. IsFiniteSet({j \in K : j <= k}) /\ Nth(K, k) <= Cardinality(K)
  BY <1>1, FS_Subset DEF Nth
<1>3. Nth(K, k) \in Nat /\ Nth(K, k) # 0
  BY <1>1, <1>2, FS_EmptySet, FS_CardinalityType DEF Nth
<1>4. Cardinality(K) \in Nat
  BY FS_CardinalityType
<1> QED
  BY <1>2, <1>3, <1>4

LEMMA NthGrows ==
  ASSUME NEW K \in SUBSET Int, IsFiniteSet(K), NEW k \in K, NEW l \in K, k < l
  PROVE  Nth(K, k) < Nth(K, l)
<1> DEFINE A == {j \in K : j <= k}
           B == {j \in K : j <= l}
<1>1. A \subseteq B /\ B \subseteq K /\ l \in B /\ l \notin A
  <2>1. \A j \in K : j \in Int
    OBVIOUS
  <2>2. \A j \in K : j <= k => j <= l
    BY <2>1
  <2>3. k <= l /\ l <= l /\ ~(l <= k)
    BY <2>1
  <2> QED
    BY <2>2, <2>3
<1> HIDE DEF A, B
<1>2. IsFiniteSet(B) /\ IsFiniteSet(A)
  BY <1>1, FS_Subset
<1>3. Cardinality(A) <= Cardinality(B) /\ Cardinality(A) # Cardinality(B)
  BY <1>1, <1>2, FS_Subset
<1>4. Cardinality(A) \in Nat /\ Cardinality(B) \in Nat
  BY <1>2, FS_CardinalityType
<1> QED
  BY <1>3, <1>4 DEF Nth, A, B

\* A number belongs to one place.
LEMMA NthOne ==
  ASSUME NEW K \in SUBSET Int, IsFiniteSet(K), NEW k \in K, NEW l \in K, Nth(K, k) = Nth(K, l)
  PROVE  k = l
<1>1. Nth(K, k) \in Int /\ Nth(K, l) \in Int
  BY NthRange
<1>2. CASE k < l
  BY <1>1, <1>2, NthGrows
<1>3. CASE l < k
  BY <1>1, <1>3, NthGrows
<1> QED
  BY <1>2, <1>3

LEMMA PlaceOf ==
  ASSUME NEW K \in SUBSET Int, IsFiniteSet(K), NEW n \in 1..Cardinality(K)
  PROVE  Place(K, n) \in K /\ Nth(K, Place(K, n)) = n
<1> DEFINE f == [k \in K |-> Nth(K, k)]
           N == 1..Cardinality(K)
<1>1. f \in [K -> N] /\ \A k \in K : f[k] = Nth(K, k)
  BY NthRange
<1> HIDE DEF f
<1>2. f \in Injection(K, N)
  BY <1>1, NthOne DEF Injection, IsInjective
<1>3. Cardinality(K) \in Nat
  BY FS_CardinalityType
<1>4. IsFiniteSet(N) /\ Cardinality(N) = Cardinality(K)
  BY <1>3, FS_Interval
<1>5. f \in Surjection(K, N)
  BY <1>2, <1>4, FS_Injection
<1>6. \E k \in K : f[k] = n
  BY <1>5 DEF Surjection
<1>7. \E k \in K : Nth(K, k) = n
  BY <1>1, <1>6
<1> QED
  BY <1>7 DEF Place

LEMMA PlaceIs ==
  ASSUME NEW K \in SUBSET Int, IsFiniteSet(K), NEW k \in K
  PROVE  Place(K, Nth(K, k)) = k
<1>1. Nth(K, k) \in 1..Cardinality(K)
  BY NthRange
<1>2. Place(K, Nth(K, k)) \in K /\ Nth(K, Place(K, Nth(K, k))) = Nth(K, k)
  BY <1>1, PlaceOf
<1>3. \A l \in K : Nth(K, l) = Nth(K, k) => l = k
  BY NthOne
<1> QED
  BY <1>2, <1>3

\* Places in a list are finitely many numbers.
LEMMA PlacesFinite ==
  ASSUME NEW n \in Nat, NEW K \in SUBSET (1..n)
  PROVE  K \in SUBSET Int /\ IsFiniteSet(K) /\ Cardinality(K) \in Nat
<1>1. IsFiniteSet(1..n)
  BY FS_Interval
<1>2. IsFiniteSet(K) /\ Cardinality(K) \in Nat
  BY <1>1, FS_Subset, FS_CardinalityType
<1> QED
  BY <1>2

\* The places of an interval are its members in turn.
LEMMA PlaceInterval ==
  ASSUME NEW a \in Nat, NEW m \in Nat, NEW n \in 1..m
  PROVE  /\ Cardinality((a + 1)..(a + m)) = m
         /\ Place((a + 1)..(a + m), n) = a + n
<1> DEFINE K == (a + 1)..(a + m)
<1>1. K \in SUBSET Int /\ IsFiniteSet(K) /\ Cardinality(K) = m /\ a + n \in K
  BY FS_Interval
<1>2. {j \in K : j <= a + n} = (a + 1)..(a + n)
  OBVIOUS
<1>3. Cardinality((a + 1)..(a + n)) = n
  BY FS_Interval
<1>4. Nth(K, a + n) = n
  BY <1>2, <1>3 DEF Nth
<1> HIDE DEF K
<1>5. Place(K, Nth(K, a + n)) = a + n
  BY <1>1, PlaceIs
<1> QED
  BY <1>1, <1>4, <1>5 DEF K

\* A new greatest place comes last.
LEMMA PlaceMore ==
  ASSUME NEW n \in Nat, NEW K \in SUBSET (1..n), NEW m \in Nat, n < m
  PROVE  /\ Cardinality(K \union {m}) = Cardinality(K) + 1
         /\ \A k \in 1..Cardinality(K) : Place(K \union {m}, k) = Place(K, k)
         /\ Place(K \union {m}, Cardinality(K) + 1) = m
<1> DEFINE L == K \union {m}
<1>1. K \in SUBSET Int /\ IsFiniteSet(K) /\ Cardinality(K) \in Nat
  BY PlacesFinite
<1>2. m \notin K /\ L \in SUBSET Int /\ \A k \in K : k \in Int /\ k <= n
  BY <1>1
<1>3. IsFiniteSet(L) /\ Cardinality(L) = Cardinality(K) + 1
  BY <1>1, <1>2, FS_AddElement
<1>4. ASSUME NEW k \in K PROVE Nth(L, k) = Nth(K, k)
  <2>1. {j \in L : j <= k} = {j \in K : j <= k}
    BY <1>2
  <2> QED
    BY <2>1 DEF Nth
<1>5. Nth(L, m) = Cardinality(K) + 1
  <2>1. \A j \in L : j <= m
    BY <1>2
  <2>2. {j \in L : j <= m} = L
    BY <2>1
  <2> QED
    BY <1>3, <2>2 DEF Nth
<1> HIDE DEF L
<1>6. m \in L /\ K \subseteq L
  BY DEF L
<1>7. ASSUME NEW i \in 1..Cardinality(K) PROVE Place(L, i) = Place(K, i)
  <2>1. Place(K, i) \in K /\ Nth(K, Place(K, i)) = i
    BY <1>1, PlaceOf
  <2>2. Place(L, Nth(L, Place(K, i))) = Place(K, i)
    BY <1>2, <1>3, <1>6, <2>1, PlaceIs, ZenonT(60)
  <2> QED
    BY <1>4, <2>1, <2>2
<1>8. Place(L, Cardinality(K) + 1) = m
  <2>1. Place(L, Nth(L, m)) = m
    BY <1>2, <1>3, <1>6, PlaceIs
  <2> QED
    BY <1>5, <2>1
<1> QED
  BY <1>3, <1>7, <1>8 DEF L

\* A list from its elements, and back.
LEMMA SeqFromElements ==
  ASSUME NEW n \in Nat, NEW s, DOMAIN s = 1..n, s = [k \in DOMAIN s |-> s[k]], NEW S, \A k \in 1..n : s[k] \in S
  PROVE  s \in Seq(S) /\ Len(s) = n
  OBVIOUS

LEMMA SeqShape ==
  ASSUME NEW S, NEW s \in Seq(S)
  PROVE  /\ Len(s) \in Nat /\ DOMAIN s = 1..Len(s) /\ s = [k \in DOMAIN s |-> s[k]]
         /\ \A k \in 1..Len(s) : s[k] \in S
  OBVIOUS

\* The elements at some places of a list are a list of as many.
LEMMA AtPlacesShape ==
  ASSUME NEW S, NEW s \in Seq(S), NEW K \in SUBSET DOMAIN s
  PROVE  /\ Cardinality(K) \in Nat
         /\ AtPlaces(s, K) \in Seq(S) /\ Len(AtPlaces(s, K)) = Cardinality(K)
         /\ \A n \in 1..Cardinality(K) : Place(K, n) \in K /\ AtPlaces(s, K)[n] = s[Place(K, n)]
<1>1. Len(s) \in Nat /\ DOMAIN s = 1..Len(s) /\ \A k \in 1..Len(s) : s[k] \in S
  BY SeqShape
<1>2. K \in SUBSET Int /\ IsFiniteSet(K) /\ Cardinality(K) \in Nat
  BY <1>1, PlacesFinite
<1>3. \A n \in 1..Cardinality(K) : Place(K, n) \in K
  BY <1>2, PlaceOf
<1> DEFINE t == AtPlaces(s, K)
<1>4. /\ DOMAIN t = 1..Cardinality(K) /\ t = [k \in DOMAIN t |-> t[k]]
      /\ \A n \in 1..Cardinality(K) : t[n] = s[Place(K, n)]
  BY DEF AtPlaces
<1> HIDE DEF t
<1>5. \A n \in 1..Cardinality(K) : t[n] \in S
  BY <1>1, <1>3, <1>4
<1>6. t \in Seq(S) /\ Len(t) = Cardinality(K)
  BY <1>2, <1>4, <1>5, SeqFromElements
<1> QED
  BY <1>2, <1>3, <1>4, <1>6 DEF t

Agree(s, t, K) == \A k \in K : t[k] = s[k]

\* A list t that agrees with s at the places in K, and has an element at m, beyond them.
Longer(S, s, n, K, t, m) ==
    /\ s \in Seq(S) /\ n \in Nat /\ n <= Len(s) /\ K \in SUBSET (1..n)
    /\ t \in Seq(S) /\ m \in Nat /\ n < m /\ m <= Len(t) /\ Agree(s, t, K)

LEMMA AtPlacesMore ==
  ASSUME NEW S, NEW s, NEW n, NEW K, NEW t, NEW m, Longer(S, s, n, K, t, m)
  PROVE  /\ AtPlaces(t, K) = AtPlaces(s, K)
         /\ AtPlaces(t, K \union {m}) = Append(AtPlaces(s, K), t[m])
<1> DEFINE c == Cardinality(K)
           u == AtPlaces(s, K)
           v == AtPlaces(t, K)
           w == AtPlaces(t, K \union {m})
           x == Append(u, t[m])
<1> n \in Nat /\ K \in SUBSET (1..n) /\ s \in Seq(S) /\ t \in Seq(S) /\ m \in Nat /\ n < m /\ n <= Len(s) /\ m <= Len(t)
    /\ Agree(s, t, K)
  BY DEF Longer
<1>1. n \in Nat /\ DOMAIN s = 1..Len(s) /\ DOMAIN t = 1..Len(t) /\ K \in SUBSET DOMAIN s /\ K \in SUBSET DOMAIN t
      /\ K \union {m} \in SUBSET DOMAIN t
  BY SeqShape
<1>2. /\ c \in Nat /\ u \in Seq(S) /\ Len(u) = c /\ \A i \in 1..c : Place(K, i) \in K /\ u[i] = s[Place(K, i)]
      /\ v \in Seq(S) /\ Len(v) = c /\ \A i \in 1..c : v[i] = t[Place(K, i)]
  BY <1>1, AtPlacesShape
<1>3. /\ Cardinality(K \union {m}) = c + 1
      /\ \A i \in 1..c : Place(K \union {m}, i) = Place(K, i)
      /\ Place(K \union {m}, c + 1) = m
  BY <1>1, PlaceMore
<1>4. /\ w \in Seq(S) /\ Len(w) = c + 1 /\ \A i \in 1..(c + 1) : w[i] = t[Place(K \union {m}, i)]
  <2>1. \A i \in 1..Cardinality(K \union {m}) : w[i] = t[Place(K \union {m}, i)]
    BY <1>1, AtPlacesShape
  <2>2. w \in Seq(S) /\ Len(w) = Cardinality(K \union {m})
    BY <1>1, AtPlacesShape
  <2> QED
    BY <1>3, <2>1, <2>2
<1>5. t[m] \in S
  BY <1>1, SeqShape
<1>6. x \in Seq(S) /\ Len(x) = c + 1 /\ (\A i \in 1..c : x[i] = u[i]) /\ x[c + 1] = t[m]
  BY <1>2, <1>5, AppendProperties
<1> HIDE DEF c, u, v, w, x
<1>7. u = v
  <2>1. \A i \in 1..c : u[i] = v[i]
    BY <1>2 DEF Agree
  <2> QED
    BY <1>2, <2>1, SeqEqual
<1>8. w = x
  <2>1. ASSUME NEW i \in 1..(c + 1) PROVE w[i] = x[i]
    <3>1. CASE i \in 1..c
      BY <1>2, <1>3, <1>4, <1>6, <3>1 DEF Agree
    <3>2. CASE i = c + 1
      BY <1>2, <1>3, <1>4, <1>6, <3>2
    <3> QED
      BY <1>2, <3>1, <3>2
  <2> QED
    BY <1>4, <1>6, <2>1, SeqEqual
<1> QED
  BY <1>7, <1>8 DEF u, v, w, x

\* What is left between two lists.
LEMMA AtPlacesInterval ==
  ASSUME NEW S, NEW s \in Seq(S), NEW a \in Nat, NEW m \in Nat, a + m <= Len(s)
  PROVE  AtPlaces(s, (a + 1)..(a + m)) = [n \in 1..m |-> s[a + n]]
<1>1. Cardinality((a + 1)..(a + m)) = m
  <2>1. CASE m = 0
    BY <2>1, FS_Interval
  <2>2. CASE m # 0
    BY <2>2, PlaceInterval
  <2> QED
    BY <2>1, <2>2
<1>2. \A n \in 1..m : Place((a + 1)..(a + m), n) = a + n
  BY PlaceInterval
<1> QED
  BY <1>1, <1>2 DEF AtPlaces

(***************************************************************************)
(* The rules of a plan on RouterOS: the items to be first in the reverse   *)
(* of their order, what was read, and the items to be last.                *)
(***************************************************************************)
PlacesOf(items, position) == {k \in DOMAIN items : items[k].change.position = position}

Rule(item) == [comment |-> item.tag, body |-> Body(item.change)]

RulesOf(T) == {Rule(i) : i \in T}

FirstRules(items) == AsRules(Reverse(AtPosition(items, "first")))

LastRules(items) == AsRules(AtPosition(items, "last"))

LEMMA AsRulesShape ==
  ASSUME NEW T, NEW s \in Seq(T)
  PROVE  AsRules(s) \in Seq(RulesOf(T)) /\ Len(AsRules(s)) = Len(s) /\ \A k \in 1..Len(s) : AsRules(s)[k] = Rule(s[k])
<1>1. Len(s) \in Nat /\ DOMAIN s = 1..Len(s) /\ \A k \in 1..Len(s) : s[k] \in T
  BY SeqShape
<1> DEFINE u == AsRules(s)
<1>2. u = [k \in 1..Len(s) |-> Rule(s[k])]
  BY <1>1 DEF AsRules, Rule
<1> HIDE DEF u
<1>3. \A k \in 1..Len(s) : u[k] = Rule(s[k]) /\ Rule(s[k]) \in RulesOf(T)
  BY <1>1, <1>2 DEF RulesOf
<1>4. DOMAIN u = 1..Len(s) /\ u = [k \in DOMAIN u |-> u[k]]
  BY <1>2
<1>5. u \in Seq(RulesOf(T)) /\ Len(u) = Len(s)
  BY <1>1, <1>3, <1>4, SeqFromElements
<1> QED
  BY <1>3, <1>5 DEF u

LEMMA ReverseShape ==
  ASSUME NEW T, NEW s \in Seq(T)
  PROVE  Reverse(s) \in Seq(T) /\ Len(Reverse(s)) = Len(s) /\ \A k \in 1..Len(s) : Reverse(s)[k] = s[(Len(s) - k) + 1]
  BY SeqShape DEF Reverse

LEMMA FirstShape ==
  ASSUME NEW T, NEW items \in Seq(T)
  PROVE  LET K == PlacesOf(items, "first")
             c == Cardinality(K)
         IN /\ c \in Nat /\ FirstRules(items) \in Seq(RulesOf(T)) /\ Len(FirstRules(items)) = c
            /\ \A i \in 1..c : /\ Place(K, (c - i) + 1) \in K
                               /\ FirstRules(items)[i] = Rule(items[Place(K, (c - i) + 1)])
<1> DEFINE K == PlacesOf(items, "first")
           c == Cardinality(K)
           s == AtPosition(items, "first")
<1>1. K \in SUBSET DOMAIN items /\ s = AtPlaces(items, K)
  BY DEF PlacesOf, AtPosition
<1> HIDE DEF K, s
<1>2. c \in Nat /\ s \in Seq(T) /\ Len(s) = c /\ \A n \in 1..c : Place(K, n) \in K /\ s[n] = items[Place(K, n)]
  BY <1>1, AtPlacesShape
<1>3. Reverse(s) \in Seq(T) /\ Len(Reverse(s)) = c /\ \A k \in 1..c : Reverse(s)[k] = s[(c - k) + 1]
  BY <1>2, ReverseShape
<1>4. /\ AsRules(Reverse(s)) \in Seq(RulesOf(T)) /\ Len(AsRules(Reverse(s))) = c
      /\ \A k \in 1..c : AsRules(Reverse(s))[k] = Rule(Reverse(s)[k])
  BY <1>3, AsRulesShape
<1>5. \A i \in 1..c : (c - i) + 1 \in 1..c
  BY <1>2
<1>6. \A i \in 1..c : AsRules(Reverse(s))[i] = Rule(items[Place(K, (c - i) + 1)]) /\ Place(K, (c - i) + 1) \in K
  BY <1>2, <1>3, <1>4, <1>5
<1> QED
  BY <1>2, <1>4, <1>6 DEF FirstRules, K, s

LEMMA LastShape ==
  ASSUME NEW T, NEW items \in Seq(T)
  PROVE  LET K == PlacesOf(items, "last")
             c == Cardinality(K)
         IN /\ c \in Nat /\ LastRules(items) \in Seq(RulesOf(T)) /\ Len(LastRules(items)) = c
            /\ \A i \in 1..c : Place(K, i) \in K /\ LastRules(items)[i] = Rule(items[Place(K, i)])
<1> DEFINE K == PlacesOf(items, "last")
           c == Cardinality(K)
           s == AtPosition(items, "last")
<1>1. K \in SUBSET DOMAIN items /\ s = AtPlaces(items, K)
  BY DEF PlacesOf, AtPosition
<1> HIDE DEF K, s
<1>2. c \in Nat /\ s \in Seq(T) /\ Len(s) = c /\ \A n \in 1..c : Place(K, n) \in K /\ s[n] = items[Place(K, n)]
  BY <1>1, AtPlacesShape
<1>3. AsRules(s) \in Seq(RulesOf(T)) /\ Len(AsRules(s)) = c /\ \A k \in 1..c : AsRules(s)[k] = Rule(s[k])
  BY <1>2, AsRulesShape
<1> QED
  BY <1>2, <1>3 DEF LastRules, K, s

LEMMA Between ==
  ASSUME NEW S, NEW f \in Seq(S), NEW b \in Seq(S), NEW l \in Seq(S)
  PROVE  /\ f \o b \o l \in Seq(S) /\ Len(f \o b \o l) = Len(f) + Len(b) + Len(l)
         /\ \A i \in 1..Len(f) : (f \o b \o l)[i] = f[i]
         /\ \A i \in 1..Len(b) : (f \o b \o l)[Len(f) + i] = b[i]
         /\ \A i \in 1..Len(l) : (f \o b \o l)[Len(f) + Len(b) + i] = l[i]
<1>1. Len(f) \in Nat /\ Len(b) \in Nat /\ Len(l) \in Nat
  BY SeqShape
<1>2. /\ f \o b \in Seq(S) /\ Len(f \o b) = Len(f) + Len(b)
      /\ \A i \in 1..(Len(f) + Len(b)) : (f \o b)[i] = IF i <= Len(f) THEN f[i] ELSE b[i - Len(f)]
  BY ConcatProperties
<1> DEFINE g == f \o b
<1> HIDE DEF g
<1>3. /\ g \o l \in Seq(S) /\ Len(g \o l) = Len(g) + Len(l)
      /\ \A i \in 1..(Len(g) + Len(l)) : (g \o l)[i] = IF i <= Len(g) THEN g[i] ELSE l[i - Len(g)]
  BY <1>2, ConcatProperties DEF g
<1>4. /\ Len(g) = Len(f) + Len(b)
      /\ \A i \in 1..Len(f) : g[i] = f[i]
      /\ \A i \in 1..Len(b) : g[Len(f) + i] = b[i]
  BY <1>1, <1>2 DEF g
<1>5. \A i \in 1..Len(f) : (g \o l)[i] = f[i]
  BY <1>1, <1>3, <1>4
<1>6. \A i \in 1..Len(b) : (g \o l)[Len(f) + i] = b[i]
  BY <1>1, <1>3, <1>4
<1>7. \A i \in 1..Len(l) : (g \o l)[Len(f) + Len(b) + i] = l[i]
  BY <1>1, <1>3, <1>4
<1> QED
  BY <1>3, <1>4, <1>5, <1>6, <1>7 DEF g

\* What the plan of a receipt r is on RouterOS.
Tagged(r, items) ==
    /\ items \in Seq(Range(items))
    /\ \A k \in DOMAIN items : items[k].tag = <<r, k>> /\ items[k].change.position \in {"first", "last"}

Order(items, base) == FirstRules(items) \o base \o LastRules(items)

\* A rule of the order is one of an item, or one of the base at its place.
LEMMA OrderShape ==
  ASSUME NEW r, NEW items, Tagged(r, items), NEW base, base \in Seq(Range(base))
  PROVE  LET F == PlacesOf(items, "first")
             L == PlacesOf(items, "last")
             f == Cardinality(F)
             l == Cardinality(L)
             b == Len(base)
             x == Order(items, base)
         IN /\ f \in Nat /\ l \in Nat /\ b \in Nat
            /\ x \in Seq(RulesOf(Range(items)) \union Range(base)) /\ Len(x) = f + b + l
            /\ \A i \in 1..f : Place(F, (f - i) + 1) \in F /\ x[i] = Rule(items[Place(F, (f - i) + 1)])
            /\ \A i \in 1..b : x[f + i] = base[i]
            /\ \A i \in 1..l : Place(L, i) \in L /\ x[f + b + i] = Rule(items[Place(L, i)])
<1> DEFINE F == PlacesOf(items, "first")
           L == PlacesOf(items, "last")
           f == Cardinality(F)
           l == Cardinality(L)
           b == Len(base)
           x == Order(items, base)
           R == RulesOf(Range(items)) \union Range(base)
<1>1. /\ f \in Nat /\ FirstRules(items) \in Seq(RulesOf(Range(items))) /\ Len(FirstRules(items)) = f
      /\ \A i \in 1..f : Place(F, (f - i) + 1) \in F /\ FirstRules(items)[i] = Rule(items[Place(F, (f - i) + 1)])
  BY FirstShape DEF Tagged
<1>2. /\ l \in Nat /\ LastRules(items) \in Seq(RulesOf(Range(items))) /\ Len(LastRules(items)) = l
      /\ \A i \in 1..l : Place(L, i) \in L /\ LastRules(items)[i] = Rule(items[Place(L, i)])
  BY LastShape DEF Tagged
<1>3. b \in Nat
  BY SeqShape
<1>4. RulesOf(Range(items)) \subseteq R /\ Range(base) \subseteq R
  OBVIOUS
<1> HIDE DEF F, L, R
<1>5. FirstRules(items) \in Seq(R) /\ base \in Seq(R) /\ LastRules(items) \in Seq(R)
  BY <1>1, <1>2, <1>4, SeqMonotonic
<1>6. /\ x \in Seq(R) /\ Len(x) = f + b + l
      /\ \A i \in 1..f : x[i] = FirstRules(items)[i]
      /\ \A i \in 1..b : x[f + i] = base[i]
      /\ \A i \in 1..l : x[f + b + i] = LastRules(items)[i]
  <2> DEFINE p == FirstRules(items)
             q == LastRules(items)
  <2>1. p \in Seq(R) /\ q \in Seq(R) /\ x = p \o base \o q /\ Len(p) = f /\ Len(q) = l
    BY <1>1, <1>2, <1>5 DEF Order
  <2> HIDE DEF p, q, x
  <2>2. /\ x \in Seq(R) /\ Len(x) = Len(p) + Len(base) + Len(q)
        /\ \A i \in 1..Len(p) : x[i] = p[i]
        /\ \A i \in 1..Len(base) : x[Len(p) + i] = base[i]
        /\ \A i \in 1..Len(q) : x[Len(p) + Len(base) + i] = q[i]
    <3>1. /\ p \o base \o q \in Seq(R) /\ Len(p \o base \o q) = Len(p) + Len(base) + Len(q)
          /\ \A i \in 1..Len(p) : (p \o base \o q)[i] = p[i]
          /\ \A i \in 1..Len(base) : (p \o base \o q)[Len(p) + i] = base[i]
          /\ \A i \in 1..Len(q) : (p \o base \o q)[Len(p) + Len(base) + i] = q[i]
      <4>1. p \in Seq(R) /\ base \in Seq(R) /\ q \in Seq(R)
        BY <1>5, <2>1
      <4> QED
        BY ONLY <4>1, Between
    <3> QED
      BY <2>1, <3>1
  <2> QED
    BY <2>1, <2>2 DEF p, q
<1> HIDE DEF x
<1>7. \A i \in 1..f : Place(F, (f - i) + 1) \in F /\ x[i] = Rule(items[Place(F, (f - i) + 1)])
  BY <1>1, <1>6
<1>8. \A i \in 1..l : Place(L, i) \in L /\ x[f + b + i] = Rule(items[Place(L, i)])
  BY <1>2, <1>6
<1> QED
  BY <1>1, <1>2, <1>3, <1>6, <1>7, <1>8 DEF F, L, R, x

LEMMA PositionsFinite ==
  ASSUME NEW r, NEW items, Tagged(r, items)
  PROVE  /\ Len(items) \in Nat /\ DOMAIN items = 1..Len(items)
         /\ \A p : /\ PlacesOf(items, p) \in SUBSET DOMAIN items /\ PlacesOf(items, p) \in SUBSET Int
                  /\ IsFiniteSet(PlacesOf(items, p))
<1>1. Len(items) \in Nat /\ DOMAIN items = 1..Len(items)
  BY SeqShape DEF Tagged
<1>2. \A p : PlacesOf(items, p) \in SUBSET DOMAIN items
  BY DEF PlacesOf
<1> QED
  BY <1>1, <1>2, PlacesFinite

\* Every item has exactly one place in the order.
LEMMA OrderOnce ==
  ASSUME NEW r, NEW items, Tagged(r, items), NEW base, base \in Seq(Range(base)), Foreign("mikrotik", r, base),
         NEW k \in DOMAIN items
  PROVE  \E i \in DOMAIN Order(items, base) :
            /\ Order(items, base)[i] = Rule(items[k])
            /\ \A j \in DOMAIN Order(items, base) : Order(items, base)[j].comment = items[k].tag => j = i
<1> DEFINE F == PlacesOf(items, "first")
           L == PlacesOf(items, "last")
           f == Cardinality(F)
           l == Cardinality(L)
           b == Len(base)
           x == Order(items, base)
<1>1. /\ f \in Nat /\ l \in Nat /\ b \in Nat
      /\ Len(x) = f + b + l /\ DOMAIN x = 1..(f + b + l)
      /\ \A i \in 1..f : Place(F, (f - i) + 1) \in F /\ x[i] = Rule(items[Place(F, (f - i) + 1)])
      /\ \A i \in 1..b : x[f + i] = base[i]
      /\ \A i \in 1..l : Place(L, i) \in L /\ x[f + b + i] = Rule(items[Place(L, i)])
  <2>1. /\ f \in Nat /\ l \in Nat /\ b \in Nat
        /\ x \in Seq(RulesOf(Range(items)) \union Range(base)) /\ Len(x) = f + b + l
        /\ \A i \in 1..f : Place(F, (f - i) + 1) \in F /\ x[i] = Rule(items[Place(F, (f - i) + 1)])
        /\ \A i \in 1..b : x[f + i] = base[i]
        /\ \A i \in 1..l : Place(L, i) \in L /\ x[f + b + i] = Rule(items[Place(L, i)])
    BY OrderShape, ZenonT(60)
  <2> HIDE DEF F, L, x
  <2>2. DOMAIN x = 1..Len(x)
    BY <2>1, SeqShape
  <2> QED
    BY <2>1, <2>2
<1>2. /\ F \in SUBSET DOMAIN items /\ F \in SUBSET Int /\ IsFiniteSet(F)
      /\ L \in SUBSET DOMAIN items /\ L \in SUBSET Int /\ IsFiniteSet(L)
  BY PositionsFinite
<1>3. \A m \in F : m \notin L
  BY DEF PlacesOf
<1>4. k \in F \/ k \in L
  BY DEF PlacesOf, Tagged
<1>5. \A m \in DOMAIN items : Rule(items[m]).comment = items[k].tag => m = k
  BY DEF Rule, Tagged
<1>6. \A i \in 1..b : base[i].comment # items[k].tag
  <2>1. DOMAIN base = 1..b
    BY SeqShape
  <2>2. items[k].tag \in {r} \X Nat
    <3>1. DOMAIN items = 1..Len(items) /\ Len(items) \in Nat
      BY PositionsFinite
    <3>2. k \in Nat
      BY <3>1
    <3>3. items[k].tag = <<r, k>>
      BY DEF Tagged
    <3> QED
      BY <3>2, <3>3
  <2> QED
    BY <2>1, <2>2 DEF Foreign
<1>7. \A i \in DOMAIN x : i \in 1..f \/ (\E j \in 1..b : i = f + j) \/ (\E j \in 1..l : i = f + b + j)
  <2>1. ASSUME NEW i \in DOMAIN x PROVE i \in 1..f \/ i - f \in 1..b \/ i - (f + b) \in 1..l
    BY <1>1
  <2>2. \A i \in DOMAIN x : i = f + (i - f) /\ i = f + b + (i - (f + b))
    BY <1>1
  <2> QED
    BY <2>1, <2>2
<1>8. \A m \in 1..f : Nth(F, Place(F, m)) = m
  BY <1>2, PlaceOf
<1>9. \A m \in 1..l : Nth(L, Place(L, m)) = m
  BY <1>2, PlaceOf
<1>10. k \in F => Nth(F, k) \in 1..f /\ Place(F, Nth(F, k)) = k
  BY <1>2, NthRange, PlaceIs
<1>11. k \in L => Nth(L, k) \in 1..l /\ Place(L, Nth(L, k)) = k
  BY <1>2, NthRange, PlaceIs
<1> HIDE DEF F, L, f, l, b, x
<1>12. CASE k \in F
  <2> DEFINE i == (f - Nth(F, k)) + 1
  <2>1. i \in 1..f /\ (f - i) + 1 = Nth(F, k)
    <3>1. f \in Nat /\ Nth(F, k) \in 1..f
      BY <1>1, <1>10, <1>12
    <3>2. \A n \in 1..f : (f - n) + 1 \in 1..f /\ (f - ((f - n) + 1)) + 1 = n
      BY <3>1
    <3> QED
      BY <3>1, <3>2
  <2>2. x[i] = Rule(items[k]) /\ i \in DOMAIN x
    BY <1>1, <1>10, <1>12, <2>1
  <2>3. ASSUME NEW j \in DOMAIN x, x[j].comment = items[k].tag PROVE j = i
    <3>1. CASE j \in 1..f
      <4>1. (f - j) + 1 \in 1..f /\ Place(F, (f - j) + 1) \in F
        BY <1>1, <3>1
      <4>2. Place(F, (f - j) + 1) = k
        BY <1>1, <1>2, <1>5, <2>3, <3>1, <4>1
      <4>3. (f - j) + 1 = Nth(F, k)
        BY <1>8, <4>1, <4>2
      <4> QED
        BY <1>1, <1>10, <1>12, <3>1, <4>3
    <3>2. ASSUME NEW m \in 1..b, j = f + m PROVE FALSE
      BY <1>1, <1>6, <2>3, <3>2
    <3>3. ASSUME NEW m \in 1..l, j = f + b + m PROVE FALSE
      BY <1>1, <1>2, <1>3, <1>5, <1>12, <2>3, <3>3
    <3> QED
      BY <1>7, <3>1, <3>2, <3>3
  <2> QED
    BY <2>2, <2>3 DEF x
<1>13. CASE k \in L
  <2> DEFINE i == f + b + Nth(L, k)
  <2>1. x[i] = Rule(items[k]) /\ i \in DOMAIN x
    BY <1>1, <1>11, <1>13
  <2>2. ASSUME NEW j \in DOMAIN x, x[j].comment = items[k].tag PROVE j = i
    <3>1. CASE j \in 1..f
      BY <1>1, <1>2, <1>3, <1>5, <1>13, <2>2, <3>1
    <3>2. ASSUME NEW m \in 1..b, j = f + m PROVE FALSE
      BY <1>1, <1>6, <2>2, <3>2
    <3>3. ASSUME NEW m \in 1..l, j = f + b + m PROVE j = i
      <4>1. Place(L, m) = k
        BY <1>1, <1>2, <1>5, <2>2, <3>3
      <4> QED
        BY <1>9, <3>3, <4>1
    <3> QED
      BY <1>7, <3>1, <3>2, <3>3
  <2> QED
    BY <2>1, <2>2 DEF x
<1> QED
  BY <1>4, <1>12, <1>13

(***************************************************************************)
(* What the verification of the placement compares: the tags, and the      *)
(* rules in the middle.                                                    *)
(***************************************************************************)
LEMMA CommentsShape ==
  ASSUME NEW S, NEW s \in Seq(S), NEW C, \A x \in S : x.comment \in C
  PROVE  Comments(s) \in Seq(C) /\ Len(Comments(s)) = Len(s) /\ \A k \in 1..Len(s) : Comments(s)[k] = s[k].comment
<1>1. Len(s) \in Nat /\ DOMAIN s = 1..Len(s) /\ \A k \in 1..Len(s) : s[k] \in S
  BY SeqShape
<1> DEFINE u == Comments(s)
<1>2. u = [k \in 1..Len(s) |-> s[k].comment]
  BY <1>1 DEF Comments
<1> HIDE DEF u
<1>3. DOMAIN u = 1..Len(s) /\ u = [k \in DOMAIN u |-> u[k]] /\ \A k \in 1..Len(s) : u[k] = s[k].comment /\ s[k].comment \in C
  BY <1>1, <1>2
<1>4. u \in Seq(C) /\ Len(u) = Len(s)
  BY <1>1, <1>3, SeqFromElements
<1> QED
  BY <1>3, <1>4 DEF u

LEMMA CommentsBetween ==
  ASSUME NEW S, NEW f \in Seq(S), NEW b \in Seq(S), NEW l \in Seq(S)
  PROVE  Comments(f \o b \o l) = Comments(f) \o Comments(b) \o Comments(l)
<1> DEFINE C == {x.comment : x \in S}
           u == Comments(f) \o Comments(b) \o Comments(l)
           x == f \o b \o l
           v == Comments(x)
<1>1. \A y \in S : y.comment \in C
  OBVIOUS
<1> HIDE DEF C
<1>2. /\ Comments(f) \in Seq(C) /\ Len(Comments(f)) = Len(f) /\ \A k \in 1..Len(f) : Comments(f)[k] = f[k].comment
      /\ Comments(b) \in Seq(C) /\ Len(Comments(b)) = Len(b) /\ \A k \in 1..Len(b) : Comments(b)[k] = b[k].comment
      /\ Comments(l) \in Seq(C) /\ Len(Comments(l)) = Len(l) /\ \A k \in 1..Len(l) : Comments(l)[k] = l[k].comment
  BY <1>1, CommentsShape
<1>3. /\ x \in Seq(S) /\ Len(x) = Len(f) + Len(b) + Len(l)
      /\ \A i \in 1..Len(f) : x[i] = f[i]
      /\ \A i \in 1..Len(b) : x[Len(f) + i] = b[i]
      /\ \A i \in 1..Len(l) : x[Len(f) + Len(b) + i] = l[i]
  BY Between
<1>4. /\ u \in Seq(C) /\ Len(u) = Len(Comments(f)) + Len(Comments(b)) + Len(Comments(l))
      /\ \A i \in 1..Len(Comments(f)) : u[i] = Comments(f)[i]
      /\ \A i \in 1..Len(Comments(b)) : u[Len(Comments(f)) + i] = Comments(b)[i]
      /\ \A i \in 1..Len(Comments(l)) : u[Len(Comments(f)) + Len(Comments(b)) + i] = Comments(l)[i]
  <2>1. Comments(f) \in Seq(C) /\ Comments(b) \in Seq(C) /\ Comments(l) \in Seq(C)
    BY <1>2
  <2> QED
    BY ONLY <2>1, Between
<1> HIDE DEF x
<1>5. v \in Seq(C) /\ Len(v) = Len(x) /\ \A k \in 1..Len(x) : v[k] = x[k].comment
  BY <1>1, <1>3, CommentsShape
<1>6. Len(f) \in Nat /\ Len(b) \in Nat /\ Len(l) \in Nat
  BY SeqShape
<1> HIDE DEF u, v
<1>7. ASSUME NEW i \in 1..Len(u) PROVE u[i] = v[i]
  <2>1. i \in 1..(Len(f) + Len(b) + Len(l))
    BY <1>2, <1>4
  <2>2. CASE i \in 1..Len(f)
    <3>1. u[i] = f[i].comment /\ x[i] = f[i]
      BY <1>2, <1>3, <1>4, <2>2
    <3> QED
      BY <1>3, <1>5, <2>1, <3>1
  <2>3. CASE i - Len(f) \in 1..Len(b)
    <3>1. PICK j \in 1..Len(b) : i = Len(f) + j
      <4>1. i = Len(f) + (i - Len(f))
        BY <1>6, <2>1
      <4> QED
        BY <2>3, <4>1
    <3>2. u[i] = b[j].comment /\ x[i] = b[j]
      BY <1>2, <1>3, <1>4, <3>1
    <3> QED
      BY <1>3, <1>5, <1>6, <2>1, <3>2
  <2>4. CASE i - (Len(f) + Len(b)) \in 1..Len(l)
    <3>1. PICK j \in 1..Len(l) : i = Len(f) + Len(b) + j
      <4>1. i = Len(f) + Len(b) + (i - (Len(f) + Len(b)))
        BY <1>6, <2>1
      <4> QED
        BY <2>4, <4>1
    <3>2. u[i] = l[j].comment /\ x[i] = l[j]
      BY <1>2, <1>3, <1>4, <3>1
    <3> QED
      BY <1>3, <1>5, <1>6, <2>1, <3>2
  <2> QED
    BY <1>6, <2>1, <2>2, <2>3, <2>4
<1>8. u = v
  BY <1>2, <1>3, <1>4, <1>5, <1>7, SeqEqual
<1> QED
  BY <1>8 DEF u, v, x

LEMMA PlacedIsOrder ==
  ASSUME NEW r, NEW items, Tagged(r, items), NEW base, NEW after,
         IsFilter("mikrotik", base.rules), IsFilter("mikrotik", after.rules)
  PROVE  LET x == Order(items, base.rules)
             f == Cardinality(PlacesOf(items, "first"))
         IN Placed(items, base, after) <=>
                /\ Len(after.rules) = Len(x)
                /\ \A j \in 1..Len(x) : after.rules[j].comment = x[j].comment
                /\ \A i \in 1..Len(base.rules) : after.rules[f + i] = base.rules[i]
<1> DEFINE x == Order(items, base.rules)
           f == Cardinality(PlacesOf(items, "first"))
           a == after.rules
           b == base.rules
           R == RulesOf(Range(items)) \union Range(b)
           p == FirstRules(items)
           q == LastRules(items)
<1>1. a \in Seq(Range(a)) /\ b \in Seq(Range(b))
  BY DEF IsFilter
<1>2. f \in Nat /\ Len(b) \in Nat /\ x \in Seq(R) /\ Len(x) \in Nat /\ f + Len(b) <= Len(x)
  <2>1. /\ f \in Nat /\ Cardinality(PlacesOf(items, "last")) \in Nat /\ Len(b) \in Nat /\ x \in Seq(R)
        /\ Len(x) = f + Len(b) + Cardinality(PlacesOf(items, "last"))
    BY <1>1, OrderShape
  <2> QED
    BY <2>1
<1>3. p \in Seq(R) /\ b \in Seq(R) /\ q \in Seq(R) /\ Len(p) = f
  <2>1. p \in Seq(RulesOf(Range(items))) /\ q \in Seq(RulesOf(Range(items))) /\ Len(p) = f
    BY FirstShape, LastShape DEF Tagged
  <2>2. RulesOf(Range(items)) \subseteq R /\ Range(b) \subseteq R
    OBVIOUS
  <2> HIDE DEF R, p, q, b
  <2> QED
    BY <1>1, <2>1, <2>2, SeqMonotonic
<1>4. Comments(x) = Comments(p) \o Comments(b) \o Comments(q)
  <2>1. x = p \o b \o q
    BY DEF Order
  <2> HIDE DEF p, b, q, R, x
  <2> QED
    <3>1. p \in Seq(R) /\ b \in Seq(R) /\ q \in Seq(R)
      BY <1>3
    <3>2. Comments(p \o b \o q) = Comments(p) \o Comments(b) \o Comments(q)
      BY ONLY <3>1, CommentsBetween, SMTT(60)
    <3> QED
      BY <2>1, <3>2
<1>5. Placed(items, base, after) <=> Comments(a) = Comments(x) /\ SubSeq(a, f + 1, f + Len(b)) = b
  <2>1. Placed(items, base, after) <=>
            /\ Comments(a) = Comments(p) \o Comments(b) \o Comments(q)
            /\ SubSeq(a, Len(p) + 1, Len(p) + Len(b)) = b
    BY DEF Placed, FirstRules, LastRules
  <2> HIDE DEF p, b, q, R, x, a, f
  <2>2. Len(p) = f
    BY <1>3
  <2> QED
    BY ONLY <2>2, <1>4, <2>1, Zenon
<1> HIDE DEF x, f, R, p, q
<1>6. Comments(a) = Comments(x) <=> Len(a) = Len(x) /\ \A j \in 1..Len(x) : a[j].comment = x[j].comment
  <2> DEFINE C == {y.comment : y \in Range(a)} \union {y.comment : y \in R}
  <2>1. (\A y \in Range(a) : y.comment \in C) /\ (\A y \in R : y.comment \in C)
    OBVIOUS
  <2> HIDE DEF C
  <2>2. Comments(a) \in Seq(C) /\ Len(Comments(a)) = Len(a) /\ \A k \in 1..Len(a) : Comments(a)[k] = a[k].comment
    BY <1>1, <2>1, CommentsShape
  <2>3. Comments(x) \in Seq(C) /\ Len(Comments(x)) = Len(x) /\ \A k \in 1..Len(x) : Comments(x)[k] = x[k].comment
    BY <1>2, <2>1, CommentsShape
  <2>4. ASSUME Len(a) = Len(x), \A j \in 1..Len(x) : a[j].comment = x[j].comment PROVE Comments(a) = Comments(x)
    <3>1. Len(Comments(a)) = Len(Comments(x)) /\ \A j \in 1..Len(Comments(a)) : Comments(a)[j] = Comments(x)[j]
      BY <2>2, <2>3, <2>4
    <3> QED
      BY <2>2, <2>3, <3>1, SeqEqual
  <2>5. ASSUME Comments(a) = Comments(x) PROVE Len(a) = Len(x) /\ \A j \in 1..Len(x) : a[j].comment = x[j].comment
    BY <2>2, <2>3, <2>5
  <2> QED
    BY <2>4, <2>5
<1>7. ASSUME Len(a) = Len(x)
      PROVE  SubSeq(a, f + 1, f + Len(b)) = b <=> \A i \in 1..Len(b) : a[f + i] = b[i]
  <2> DEFINE m == SubSeq(a, f + 1, f + Len(b))
             S == Range(a) \union Range(b)
  <2>1. a \in Seq(S) /\ b \in Seq(S)
    BY <1>1, SeqMonotonic
  <2> HIDE DEF S, a, b
  <2>2. \A i \in (f + 1)..(f + Len(b)) : a[i] \in S
    BY <1>2, <1>7, <2>1, SeqShape
  <2>3. /\ m \in Seq(S) /\ Len(m) = IF f + 1 <= f + Len(b) THEN f + Len(b) - (f + 1) + 1 ELSE 0
        /\ \A i \in 1..(f + Len(b) - (f + 1) + 1) : m[i] = a[f + 1 + i - 1]
    BY <1>2, <2>2, SubSeqProperties
  <2>4. Len(m) = Len(b) /\ \A i \in 1..Len(b) : m[i] = a[f + i]
    BY <1>2, <2>3
  <2> HIDE DEF m
  <2>5. m = b <=> \A i \in 1..Len(b) : m[i] = b[i]
    BY <2>1, <2>3, <2>4, SeqEqual
  <2> QED
    BY <2>4, <2>5 DEF m
<1> HIDE DEF a, b
<1> QED
  BY <1>5, <1>6, <1>7 DEF x, f, a, b

\* On RouterOS the verification succeeds for the reviewed order of the rules and for nothing else.
LEMMA RouterOSExact ==
  ASSUME NEW r, NEW items, Tagged(r, items), NEW base, NEW after,
         IsFilter("mikrotik", base.rules), IsFilter("mikrotik", after.rules), Foreign("mikrotik", r, base.rules)
  PROVE  Complete("mikrotik", items, base, after) <=> after.rules = Order(items, base.rules)
<1> DEFINE F == PlacesOf(items, "first")
           L == PlacesOf(items, "last")
           f == Cardinality(F)
           l == Cardinality(L)
           a == after.rules
           b == base.rules
           x == Order(items, b)
           R == RulesOf(Range(items)) \union Range(b)
<1>1. a \in Seq(Range(a)) /\ b \in Seq(Range(b)) /\ \A j \in DOMAIN a : a[j] = [comment |-> a[j].comment, body |-> a[j].body]
  BY DEF IsFilter
<1>2. DOMAIN a = 1..Len(a) /\ DOMAIN b = 1..Len(b) /\ Len(a) \in Nat
  BY <1>1, SeqShape
<1>3. /\ f \in Nat /\ l \in Nat /\ Len(b) \in Nat
      /\ x \in Seq(R) /\ Len(x) = f + Len(b) + l
      /\ \A i \in 1..f : Place(F, (f - i) + 1) \in F /\ x[i] = Rule(items[Place(F, (f - i) + 1)])
      /\ \A i \in 1..Len(b) : x[f + i] = b[i]
      /\ \A i \in 1..l : Place(L, i) \in L /\ x[f + Len(b) + i] = Rule(items[Place(L, i)])
  <2> HIDE DEF a, b
  <2>1. b \in Seq(Range(b))
    BY <1>1
  <2> QED
    BY <2>1, OrderShape, ZenonT(60)
<1>4. F \subseteq DOMAIN items /\ L \subseteq DOMAIN items
  BY DEF PlacesOf
<1> DEFINE Good == \A k \in DOMAIN items : Outcome("mikrotik", items[k], after)
           Same == \A j \in 1..Len(x) : a[j].comment = x[j].comment
           Kept == \A i \in 1..Len(b) : a[f + i] = b[i]
<1>5. Placed(items, base, after) <=> Len(a) = Len(x) /\ Same /\ Kept
  BY PlacedIsOrder
<1>6. \A k \in DOMAIN items : Outcome("mikrotik", items[k], after) <=>
          LET found == {i \in DOMAIN a : a[i].comment = items[k].tag} IN
          Cardinality(found) = 1 /\ \A i \in found : a[i].body = Body(items[k].change)
  BY DEF Outcome
<1>7. \A k \in DOMAIN items :
        \E i \in DOMAIN x : x[i] = Rule(items[k]) /\ \A j \in DOMAIN x : x[j].comment = items[k].tag => j = i
  BY <1>1, OrderOnce
<1>8. Complete("mikrotik", items, base, after) <=> Placed(items, base, after) /\ Good
  BY DEF Complete
<1> HIDE DEF F, L, f, l, a, b, x, R
<1>9. ASSUME Len(a) = Len(x), Same, Kept, Good PROVE a = x
  <2>1. ASSUME NEW j \in 1..Len(x), NEW k \in DOMAIN items, x[j] = Rule(items[k]) PROVE a[j] = x[j]
    <3>1. a[j].comment = items[k].tag /\ j \in DOMAIN a
      BY <1>2, <1>9, <2>1 DEF Rule
    <3>2. a[j].body = Body(items[k].change)
      BY <1>6, <1>9, <2>1, <3>1
    <3> QED
      BY <1>1, <2>1, <3>1, <3>2 DEF Rule
  <2>2. ASSUME NEW j \in 1..Len(x) PROVE a[j] = x[j]
    <3>1. CASE j \in 1..f
      BY <1>3, <1>4, <2>1, <3>1
    <3>2. CASE j - f \in 1..Len(b)
      <4>1. j = f + (j - f)
        BY <1>3
      <4> QED
        BY <1>3, <1>9, <3>2, <4>1
    <3>3. CASE j - (f + Len(b)) \in 1..l
      <4>1. j = f + Len(b) + (j - (f + Len(b)))
        BY <1>3
      <4>2. PICK i \in 1..l : j = f + Len(b) + i
        BY <3>3, <4>1
      <4> QED
        BY <1>3, <1>4, <2>1, <4>2
    <3> QED
      BY <1>3, <3>1, <3>2, <3>3
  <2>3. a \in Seq(Range(a) \union R) /\ x \in Seq(Range(a) \union R)
    BY <1>1, <1>3, SeqMonotonic
  <2> QED
    BY <1>9, <2>2, <2>3, SeqEqual
<1>10. ASSUME a = x PROVE Len(a) = Len(x) /\ Same /\ Kept /\ Good
  <2>1. Len(a) = Len(x) /\ Same /\ Kept
    BY <1>3, <1>10
  <2>2. ASSUME NEW k \in DOMAIN items PROVE Outcome("mikrotik", items[k], after)
    <3>1. PICK i \in DOMAIN a : a[i] = Rule(items[k]) /\ \A j \in DOMAIN a : a[j].comment = items[k].tag => j = i
      BY <1>7, <1>10
    <3>2. a[i].comment = items[k].tag /\ a[i].body = Body(items[k].change)
      BY <3>1 DEF Rule
    <3>3. {j \in DOMAIN a : a[j].comment = items[k].tag} = {i}
      BY <3>1, <3>2
    <3>4. Cardinality({i}) = 1
      BY FS_Singleton
    <3> QED
      BY <1>6, <3>2, <3>3, <3>4
  <2> QED
    BY <2>1, <2>2
<1> QED
  BY <1>5, <1>8, <1>9, <1>10 DEF a, b, x

(***************************************************************************)
(* A step of the execution: from the order of the first n items to the one *)
(* of n + 1.                                                               *)
(***************************************************************************)
\* The first n items.
LEMMA PrefixShape ==
  ASSUME NEW items, items \in Seq(Range(items)), NEW n \in 0..Len(items)
  PROVE  /\ SubSeq(items, 1, n) \in Seq(Range(items)) /\ Len(SubSeq(items, 1, n)) = n /\ DOMAIN SubSeq(items, 1, n) = 1..n
         /\ \A k \in 1..n : SubSeq(items, 1, n)[k] = items[k]
         /\ SubSeq(items, 1, n) \in Seq(Range(SubSeq(items, 1, n)))
<1> DEFINE t == SubSeq(items, 1, n)
<1>1. Len(items) \in Nat /\ DOMAIN items = 1..Len(items) /\ \A k \in 1..Len(items) : items[k] \in Range(items)
  BY SeqShape
<1>2. n \in Nat /\ \A k \in 1..n : k \in 1..Len(items)
  BY <1>1
<1>3. t \in Seq(Range(items)) /\ Len(t) = n /\ \A k \in 1..n : t[k] = items[k]
  BY <1>1, <1>2, SubSeqProperties
<1> HIDE DEF t
<1>4. DOMAIN t = 1..n /\ t = [k \in DOMAIN t |-> t[k]]
  BY <1>3, SeqShape
<1>5. \A k \in 1..n : t[k] \in Range(t)
  BY <1>4 DEF Range
<1>6. t \in Seq(Range(t))
  BY <1>2, <1>4, <1>5, SeqFromElements
<1> QED
  BY <1>3, <1>4, <1>6 DEF t

LEMMA PrefixTagged ==
  ASSUME NEW r, NEW items, Tagged(r, items), NEW n \in 0..Len(items)
  PROVE  Tagged(r, SubSeq(items, 1, n))
<1> DEFINE t == SubSeq(items, 1, n)
<1>1. /\ items \in Seq(Range(items)) /\ DOMAIN items = 1..Len(items) /\ Len(items) \in Nat
      /\ \A k \in DOMAIN items : items[k].tag = <<r, k>> /\ items[k].change.position \in {"first", "last"}
  BY SeqShape DEF Tagged
<1>2. DOMAIN t = 1..n /\ (\A k \in 1..n : t[k] = items[k]) /\ t \in Seq(Range(t))
  BY <1>1, PrefixShape
<1> HIDE DEF t
<1>3. \A k \in DOMAIN t : k \in DOMAIN items
  BY <1>1, <1>2
<1>4. Tagged(r, t)
  BY <1>1, <1>2, <1>3 DEF Tagged
<1> QED
  BY <1>4 DEF t

LEMMA AsRulesCat ==
  ASSUME NEW T, NEW u \in Seq(T), NEW v \in Seq(T)
  PROVE  AsRules(u \o v) = AsRules(u) \o AsRules(v)
<1> DEFINE x == u \o v
           y == AsRules(u) \o AsRules(v)
           z == AsRules(x)
           R == RulesOf(T)
<1>1. Len(u) \in Nat /\ Len(v) \in Nat
  BY SeqShape
<1>2. /\ x \in Seq(T) /\ Len(x) = Len(u) + Len(v)
      /\ \A i \in 1..(Len(u) + Len(v)) : x[i] = IF i <= Len(u) THEN u[i] ELSE v[i - Len(u)]
  BY ConcatProperties
<1>3. /\ AsRules(u) \in Seq(R) /\ Len(AsRules(u)) = Len(u) /\ \A k \in 1..Len(u) : AsRules(u)[k] = Rule(u[k])
      /\ AsRules(v) \in Seq(R) /\ Len(AsRules(v)) = Len(v) /\ \A k \in 1..Len(v) : AsRules(v)[k] = Rule(v[k])
  BY AsRulesShape
<1> HIDE DEF x, R
<1>4. z \in Seq(R) /\ Len(z) = Len(x) /\ \A k \in 1..Len(x) : z[k] = Rule(x[k])
  BY <1>2, AsRulesShape DEF R
<1>5. /\ y \in Seq(R) /\ Len(y) = Len(AsRules(u)) + Len(AsRules(v))
      /\ \A i \in 1..(Len(AsRules(u)) + Len(AsRules(v))) :
            y[i] = IF i <= Len(AsRules(u)) THEN AsRules(u)[i] ELSE AsRules(v)[i - Len(AsRules(u))]
  <2>1. AsRules(u) \in Seq(R) /\ AsRules(v) \in Seq(R)
    BY <1>3
  <2> QED
    BY ONLY <2>1, ConcatProperties
<1> HIDE DEF y, z
<1>6. ASSUME NEW i \in 1..Len(z) PROVE z[i] = y[i]
  <2>1. CASE i <= Len(u)
    BY <1>1, <1>2, <1>3, <1>4, <1>5, <2>1
  <2>2. CASE ~(i <= Len(u))
    <3>1. i - Len(u) \in 1..Len(v) /\ i \in 1..Len(x)
      BY <1>1, <1>2, <1>4, <2>2
    <3>2. x[i] = v[i - Len(u)] /\ y[i] = AsRules(v)[i - Len(u)]
      BY <1>1, <1>2, <1>3, <1>4, <1>5, <2>2
    <3> QED
      BY <1>3, <1>4, <3>1, <3>2
  <2> QED
    BY <2>1, <2>2
<1>7. z = y
  <2>1. Len(z) = Len(y)
    BY <1>2, <1>3, <1>4, <1>5
  <2> QED
    BY <1>4, <1>5, <1>6, <2>1, SeqEqual
<1> QED
  BY <1>7 DEF x, y, z

LEMMA ReverseAppend ==
  ASSUME NEW T, NEW u \in Seq(T), NEW e \in T
  PROVE  Reverse(Append(u, e)) = <<e>> \o Reverse(u)
<1> DEFINE w == Append(u, e)
           x == Reverse(w)
           y == <<e>> \o Reverse(u)
<1>1. Len(u) \in Nat
  BY SeqShape
<1>2. w \in Seq(T) /\ Len(w) = Len(u) + 1 /\ (\A i \in 1..Len(u) : w[i] = u[i]) /\ w[Len(u) + 1] = e
  BY AppendProperties
<1>3. Reverse(u) \in Seq(T) /\ Len(Reverse(u)) = Len(u) /\ \A k \in 1..Len(u) : Reverse(u)[k] = u[(Len(u) - k) + 1]
  BY ReverseShape
<1> HIDE DEF w
<1>4. x \in Seq(T) /\ Len(x) = Len(u) + 1 /\ \A k \in 1..(Len(u) + 1) : x[k] = w[((Len(u) + 1) - k) + 1]
  BY <1>2, ReverseShape
<1>5. <<e>> \in Seq(T) /\ Len(<<e>>) = 1 /\ <<e>>[1] = e
  OBVIOUS
<1>6. y \in Seq(T) /\ Len(y) = 1 + Len(u) /\ \A i \in 1..(1 + Len(u)) : y[i] = IF i <= 1 THEN <<e>>[i] ELSE Reverse(u)[i - 1]
  BY <1>3, <1>5, ConcatProperties
<1> HIDE DEF x, y
<1>7. ASSUME NEW i \in 1..(Len(u) + 1) PROVE x[i] = y[i]
  <2>1. CASE i = 1
    <3>1. ((Len(u) + 1) - 1) + 1 = Len(u) + 1
      BY <1>1
    <3> QED
      BY <1>1, <1>2, <1>4, <1>5, <1>6, <2>1, <3>1
  <2>2. CASE i # 1
    <3>1. i - 1 \in 1..Len(u) /\ ((Len(u) + 1) - i) + 1 \in 1..Len(u) /\ (Len(u) - (i - 1)) + 1 = ((Len(u) + 1) - i) + 1
      BY <1>1, <2>2
    <3>2. y[i] = Reverse(u)[i - 1]
      BY <1>1, <1>6, <2>2
    <3>3. x[i] = u[((Len(u) + 1) - i) + 1]
      BY <1>2, <1>4, <3>1
    <3>4. Reverse(u)[i - 1] = u[(Len(u) - (i - 1)) + 1]
      BY <1>3, <3>1
    <3> QED
      BY <3>1, <3>2, <3>3, <3>4
  <2> QED
    BY <2>1, <2>2
<1>8. Len(x) = Len(y)
  BY <1>1, <1>4, <1>6
<1>9. x = y
  BY <1>4, <1>6, <1>7, <1>8, SeqEqual
<1> QED
  BY <1>9 DEF w, x, y

\* The items of a position, before and after one more item.
LEMMA AtPositionMore ==
  ASSUME NEW items, items \in Seq(Range(items)), NEW n \in 0..(Len(items) - 1), NEW p
  PROVE  AtPosition(SubSeq(items, 1, n + 1), p) =
            IF items[n + 1].change.position = p THEN Append(AtPosition(SubSeq(items, 1, n), p), items[n + 1])
            ELSE AtPosition(SubSeq(items, 1, n), p)
<1> DEFINE t == SubSeq(items, 1, n)
           s == SubSeq(items, 1, n + 1)
           S == Range(items)
           K == PlacesOf(t, p)
<1>1. Len(items) \in Nat /\ n \in Nat /\ n \in 0..Len(items) /\ n + 1 \in 0..Len(items)
  BY SeqShape
<1>2. t \in Seq(S) /\ Len(t) = n /\ DOMAIN t = 1..n /\ \A k \in 1..n : t[k] = items[k]
  BY <1>1, PrefixShape
<1>3. s \in Seq(S) /\ Len(s) = n + 1 /\ DOMAIN s = 1..(n + 1) /\ \A k \in 1..(n + 1) : s[k] = items[k]
  BY <1>1, PrefixShape
<1> HIDE DEF s, t, S
<1>4. K \in SUBSET (1..n) /\ \A k \in K : s[k] = t[k]
  BY <1>1, <1>2, <1>3 DEF PlacesOf
<1> HIDE DEF K
<1>5. AtPlaces(s, K) = AtPlaces(t, K) /\ AtPlaces(s, K \union {n + 1}) = Append(AtPlaces(t, K), s[n + 1])
  <2> DEFINE m == n + 1
  <2>1. n \in Nat /\ m \in Nat /\ n < m /\ K \in SUBSET (1..n) /\ Agree(t, s, K) /\ n <= Len(t) /\ m <= Len(s)
    BY <1>1, <1>2, <1>3, <1>4 DEF Agree
  <2> HIDE DEF m
  <2>2. Longer(S, t, n, K, s, m)
    BY <1>2, <1>3, <2>1 DEF Longer
  <2>3. AtPlaces(s, K) = AtPlaces(t, K) /\ AtPlaces(s, K \union {m}) = Append(AtPlaces(t, K), s[m])
    BY ONLY <2>2, AtPlacesMore
  <2> QED
    BY <2>3 DEF m
<1>6. PlacesOf(s, p) = IF items[n + 1].change.position = p THEN K \union {n + 1} ELSE K
  <2>1. \A k \in 1..(n + 1) : k \in 1..n \/ k = n + 1
    BY <1>1
  <2>2. s[n + 1] = items[n + 1] /\ n + 1 \in 1..(n + 1) /\ \A k \in 1..n : k \in 1..(n + 1)
    BY <1>1, <1>3
  <2> QED
    BY <1>2, <1>3, <1>4, <2>1, <2>2 DEF PlacesOf, K
<1>7. AtPosition(s, p) = AtPlaces(s, PlacesOf(s, p)) /\ AtPosition(t, p) = AtPlaces(t, K)
  BY DEF AtPosition, PlacesOf, K
<1>8. s[n + 1] = items[n + 1]
  BY <1>1, <1>3
<1> QED
  BY <1>3, <1>5, <1>6, <1>7, <1>8 DEF s, t

\* One item, sent or added to the reviewed order, leads to the same rules.
LEMMA RouterOSPerformed ==
  ASSUME NEW r, NEW items, Tagged(r, items), NEW n \in 0..(Len(items) - 1),
         NEW base, base \in Seq(Range(base)), Foreign("mikrotik", r, base)
  PROVE  Performed("mikrotik", items[n + 1], Order(SubSeq(items, 1, n), base)) = Order(SubSeq(items, 1, n + 1), base)
<1> DEFINE t == SubSeq(items, 1, n)
           s == SubSeq(items, 1, n + 1)
           i == items[n + 1]
           x == Order(t, base)
           S == Range(items)
           R == RulesOf(S) \union Range(base)
           one == AsRules(<<i>>)
<1>1. /\ Len(items) \in Nat /\ n \in Nat /\ n \in 0..Len(items) /\ n + 1 \in DOMAIN items
      /\ items \in Seq(S) /\ i \in S /\ i.tag = <<r, n + 1>> /\ i.change.position \in {"first", "last"}
  BY SeqShape DEF Tagged
<1>2. /\ Tagged(r, t) /\ t \in Seq(S) /\ DOMAIN t = 1..n
  BY <1>1, PrefixTagged, PrefixShape
<1>3. x \in Seq(RulesOf(Range(t)) \union Range(base))
  BY <1>2, OrderShape
<1>4. ASSUME NEW k \in DOMAIN x PROVE x[k].comment # i.tag
  <2>1. x[k] \in RulesOf(Range(t)) \union Range(base)
    BY <1>3, SeqShape
  <2>2. CASE x[k] \in RulesOf(Range(t))
    <3>1. PICK m \in 1..n : x[k] = Rule(t[m])
      BY <1>2, <2>2 DEF RulesOf, Range
    <3>2. x[k].comment = <<r, m>>
      BY <1>2, <3>1 DEF Tagged, Rule
    <3>3. m # n + 1
      BY <1>1
    <3> QED
      BY <1>1, <3>2, <3>3
  <2>3. CASE x[k] \in Range(base)
    <3>1. i.tag \in {r} \X Nat
      BY <1>1
    <3> QED
      BY <2>3, <3>1 DEF Foreign, Range
  <2> QED
    BY <2>1, <2>2, <2>3
<1>5. Performed("mikrotik", i, x) = IF i.change.position = "first" THEN one \o x ELSE x \o one
  BY <1>4 DEF Performed
<1>6. \A p : AtPosition(s, p) = IF i.change.position = p THEN Append(AtPosition(t, p), i) ELSE AtPosition(t, p)
  BY <1>1, AtPositionMore
<1>7. AtPosition(t, "first") \in Seq(S) /\ AtPosition(t, "last") \in Seq(S)
  <2>1. \A p : {k \in DOMAIN t : t[k].change.position = p} \in SUBSET DOMAIN t
    OBVIOUS
  <2> QED
    BY <1>2, <2>1, AtPlacesShape DEF AtPosition
<1>8. one \in Seq(R) /\ base \in Seq(R) /\ FirstRules(t) \in Seq(R) /\ LastRules(t) \in Seq(R)
  <2>1. <<i>> \in Seq(S)
    BY <1>1
  <2>2. one \in Seq(RulesOf(S)) /\ FirstRules(t) \in Seq(RulesOf(S)) /\ LastRules(t) \in Seq(RulesOf(S))
    BY <1>2, <2>1, AsRulesShape, FirstShape, LastShape
  <2>3. RulesOf(S) \subseteq R /\ Range(base) \subseteq R
    OBVIOUS
  <2> HIDE DEF R, S, one
  <2> QED
    BY <2>2, <2>3, SeqMonotonic
<1> HIDE DEF S, R, t, s
<1>9. CASE i.change.position = "first"
  <2> DEFINE u == AtPosition(t, "first")
  <2>1. AtPosition(s, "first") = Append(u, i) /\ AtPosition(s, "last") = AtPosition(t, "last")
    BY <1>6, <1>9
  <2>2. Reverse(Append(u, i)) = <<i>> \o Reverse(u)
    BY <1>1, <1>7, ReverseAppend
  <2>3. AsRules(<<i>> \o Reverse(u)) = one \o AsRules(Reverse(u))
    <3>1. <<i>> \in Seq(S) /\ Reverse(u) \in Seq(S)
      BY <1>1, <1>7, ReverseShape
    <3> QED
      BY <3>1, AsRulesCat
  <2>4. FirstRules(s) = one \o FirstRules(t) /\ LastRules(s) = LastRules(t)
    BY <2>1, <2>2, <2>3 DEF FirstRules, LastRules
  <2>5. one \o (FirstRules(t) \o base \o LastRules(t)) = (one \o FirstRules(t)) \o base \o LastRules(t)
    <3> DEFINE p == FirstRules(t)
               q == LastRules(t)
    <3> HIDE DEF p, q, one
    <3>1. one \in Seq(R) /\ p \in Seq(R) /\ base \in Seq(R) /\ q \in Seq(R)
      BY <1>8 DEF p, q
    <3>2. p \o base \in Seq(R)
      BY <3>1, ConcatProperties
    <3>3. one \o ((p \o base) \o q) = (one \o (p \o base)) \o q
      BY ONLY <3>1, <3>2, ConcatAssociative, SMTT(60)
    <3>4. (one \o p) \o base = one \o (p \o base)
      BY ONLY <3>1, ConcatAssociative, SMTT(60)
    <3> QED
      BY <3>3, <3>4 DEF p, q
  <2> QED
    BY <1>5, <1>9, <2>4, <2>5 DEF Order, s, t
<1>10. CASE i.change.position = "last"
  <2> DEFINE u == AtPosition(t, "last")
  <2>1. AtPosition(s, "last") = Append(u, i) /\ AtPosition(s, "first") = AtPosition(t, "first")
    BY <1>6, <1>10
  <2>2. <<i>> \in Seq(S) /\ Append(u, i) = u \o <<i>>
    BY <1>1, <1>7, AppendIsConcat
  <2>3. AsRules(u \o <<i>>) = AsRules(u) \o one
    BY <1>7, <2>2, AsRulesCat
  <2>4. LastRules(s) = LastRules(t) \o one /\ FirstRules(s) = FirstRules(t)
    BY <2>1, <2>2, <2>3 DEF FirstRules, LastRules
  <2>5. (FirstRules(t) \o base \o LastRules(t)) \o one = FirstRules(t) \o base \o (LastRules(t) \o one)
    <3> DEFINE p == FirstRules(t)
               q == LastRules(t)
    <3> HIDE DEF p, q, one
    <3>1. one \in Seq(R) /\ p \in Seq(R) /\ base \in Seq(R) /\ q \in Seq(R)
      BY <1>8 DEF p, q
    <3>2. p \o base \in Seq(R)
      BY <3>1, ConcatProperties
    <3>3. ((p \o base) \o q) \o one = (p \o base) \o (q \o one)
      BY ONLY <3>1, <3>2, ConcatAssociative, SMTT(60)
    <3> QED
      BY <3>3 DEF p, q
  <2> QED
    BY <1>5, <1>10, <2>4, <2>5 DEF Order, s, t
<1> QED
  BY <1>1, <1>9, <1>10

\* The rules without those of the plan are the reviewed ones.
LEMMA RouterOSRecovered ==
  ASSUME NEW r, NEW items, Tagged(r, items), NEW n \in 0..Len(items),
         NEW base, base \in Seq(Range(base)), Foreign("mikrotik", r, base)
  PROVE  Recovered("mikrotik", items, Order(SubSeq(items, 1, n), base)) = base
<1> DEFINE t == SubSeq(items, 1, n)
           F == PlacesOf(t, "first")
           L == PlacesOf(t, "last")
           f == Cardinality(F)
           l == Cardinality(L)
           b == Len(base)
           x == Order(t, base)
           K == {j \in DOMAIN x : \A k \in DOMAIN items : x[j].comment # items[k].tag}
<1>1. Len(items) \in Nat /\ DOMAIN items = 1..Len(items) /\ items \in Seq(Range(items)) /\ n \in Nat
  BY SeqShape DEF Tagged
<1>2. Tagged(r, t) /\ DOMAIN t = 1..n /\ \A k \in 1..n : t[k] = items[k] /\ k \in DOMAIN items
  BY <1>1, PrefixTagged, PrefixShape
<1>3. /\ f \in Nat /\ l \in Nat /\ b \in Nat /\ DOMAIN base = 1..b
      /\ x \in Seq(RulesOf(Range(t)) \union Range(base)) /\ Len(x) = f + b + l
      /\ \A i \in 1..f : Place(F, (f - i) + 1) \in F /\ x[i] = Rule(t[Place(F, (f - i) + 1)])
      /\ \A i \in 1..b : x[f + i] = base[i]
      /\ \A i \in 1..l : Place(L, i) \in L /\ x[f + b + i] = Rule(t[Place(L, i)])
  <2>1. DOMAIN base = 1..b
    BY SeqShape
  <2> HIDE DEF t
  <2>2. Tagged(r, t) /\ base \in Seq(Range(base))
    BY <1>2
  <2>3. /\ f \in Nat /\ l \in Nat /\ b \in Nat
        /\ x \in Seq(RulesOf(Range(t)) \union Range(base)) /\ Len(x) = f + b + l
        /\ \A i \in 1..f : Place(F, (f - i) + 1) \in F /\ x[i] = Rule(t[Place(F, (f - i) + 1)])
        /\ \A i \in 1..b : x[f + i] = base[i]
        /\ \A i \in 1..l : Place(L, i) \in L /\ x[f + b + i] = Rule(t[Place(L, i)])
    BY ONLY <2>2, OrderShape
  <2> QED
    BY <2>1, <2>3
<1>4. DOMAIN x = 1..(f + b + l)
  BY <1>3, SeqShape
<1>5. F \subseteq DOMAIN t /\ L \subseteq DOMAIN t
  BY DEF PlacesOf
<1>6. \A m \in DOMAIN t : \E k \in DOMAIN items : Rule(t[m]).comment = items[k].tag
  BY <1>2 DEF Rule
<1>7. \A j \in 1..b, k \in DOMAIN items : base[j].comment # items[k].tag
  <2>1. ASSUME NEW k \in DOMAIN items PROVE items[k].tag \in {r} \X Nat
    <3>1. k \in Nat /\ items[k].tag = <<r, k>>
      BY <1>1 DEF Tagged
    <3> QED
      BY <3>1
  <2> QED
    BY <1>3, <2>1 DEF Foreign
<1> HIDE DEF F, L, f, l, b, x, t
<1>8. K = (f + 1)..(f + b)
  <2>1. ASSUME NEW j \in DOMAIN x, j \in (f + 1)..(f + b) PROVE j \in K
    <3>1. j - f \in 1..b /\ j = f + (j - f)
      BY <1>3, <2>1
    <3> QED
      BY <1>3, <1>7, <3>1
  <2>2. ASSUME NEW j \in DOMAIN x, j \notin (f + 1)..(f + b) PROVE j \notin K
    <3>1. j \in 1..f \/ (j - (f + b) \in 1..l /\ j = f + b + (j - (f + b)))
      BY <1>3, <1>4, <2>2
    <3>2. CASE j \in 1..f
      BY <1>3, <1>5, <1>6, <3>2
    <3>3. CASE j - (f + b) \in 1..l /\ j = f + b + (j - (f + b))
      <4>1. PICK i \in 1..l : j = f + b + i
        BY <3>3
      <4>2. x[j] = Rule(t[Place(L, i)]) /\ Place(L, i) \in DOMAIN t
        BY <1>3, <1>5, <4>1
      <4> QED
        BY <1>6, <4>2
    <3> QED
      BY <3>1, <3>2, <3>3
  <2>3. (f + 1)..(f + b) \subseteq DOMAIN x
    BY <1>3, <1>4
  <2> QED
    BY <2>1, <2>2, <2>3
<1>9. Recovered("mikrotik", items, x) = AtPlaces(x, K)
  BY DEF Recovered
<1> HIDE DEF K
<1>10. AtPlaces(x, (f + 1)..(f + b)) = [i \in 1..b |-> x[f + i]]
  <2>1. f + b <= Len(x)
    BY <1>3
  <2> QED
    BY <1>3, <2>1, AtPlacesInterval
<1>11. base = [i \in 1..b |-> base[i]]
  BY <1>3, SeqShape
<1> QED
  BY <1>3, <1>8, <1>9, <1>10, <1>11 DEF x, t

(***************************************************************************)
(* The rules on Cisco, as the set of what the ACLs have.  Whatever the     *)
(* numbers and the ACLs of a change set, the compiler lets it through only *)
(* if every entry is a new one.                                            *)
(***************************************************************************)
\* ACLs as the set of what they hold.
Has(rules, a, e) == a \in DOMAIN rules /\ e \in rules[a]

SameEntries(f, g) == DOMAIN f = DOMAIN g /\ \A a, e : Has(f, a, e) <=> Has(g, a, e)

IsAcls(rules) == rules = [a \in DOMAIN rules |-> rules[a]]

LEMMA EntriesHas ==
  ASSUME NEW rules
  PROVE  /\ \A a, e : Has(rules, a, e) <=> <<a, e>> \in Entries(rules)
         /\ \A x \in Entries(rules) : x = <<x[1], x[2]>> /\ Has(rules, x[1], x[2])
BY DEF Has, Entries

\* ACLs of the same names that have the same entries are the same.
LEMMA SameAcls ==
  ASSUME NEW f, NEW g, IsAcls(f), IsAcls(g), SameEntries(f, g)
  PROVE  f = g
<1>1. ASSUME NEW a \in DOMAIN f PROVE f[a] = g[a]
  <2>1. \A e : e \in f[a] <=> e \in g[a]
    BY <1>1 DEF SameEntries, Has
  <2> QED
    BY <2>1
<1>2. DOMAIN f = DOMAIN g
  BY DEF SameEntries
<1> QED
  BY <1>1, <1>2 DEF IsAcls

\* What the compiler lets through: new entries with free numbers.
Fits(items, rules) ==
    /\ Len(items) \in Nat /\ DOMAIN items = 1..Len(items)
    /\ IsAcls(rules) /\ DOMAIN rules \intersect OtherAcls = {} /\ IsFiniteSet(Entries(rules))
    /\ \A k \in DOMAIN items :
        /\ items[k].change.acl \notin OtherAcls
        /\ Creates(items[k].change) <=> items[k].change.acl \notin DOMAIN rules
        /\ \A e : Has(rules, items[k].change.acl, e) => e.sequence # items[k].change.sequence
        /\ \A j \in 1..(k - 1) :
            items[j].change.acl = items[k].change.acl => items[j].change.sequence # items[k].change.sequence

LEMMA EntriesApart ==
  ASSUME NEW items, NEW rules, Fits(items, rules), NEW j \in DOMAIN items, NEW k \in DOMAIN items, j # k,
         items[j].change.acl = items[k].change.acl
  PROVE  items[j].change.sequence # items[k].change.sequence
<1>1. j \in 1..(k - 1) \/ k \in 1..(j - 1)
  BY DEF Fits
<1> QED
  BY <1>1 DEF Fits

\* The ACLs x are those of the base with the entries of the items.
Merges(x, items, base) ==
    /\ IsAcls(x)
    /\ DOMAIN x = DOMAIN base \union {items[k].change.acl : k \in DOMAIN items}
    /\ \A a, e : Has(x, a, e) <=>
            Has(base, a, e) \/ \E k \in DOMAIN items : a = items[k].change.acl /\ e = AsEntry(items[k])

LEMMA FinalAcls ==
  ASSUME NEW items, NEW base
  PROVE  Merges(Final("cisco", items, base), items, base)
<1> DEFINE x == Final("cisco", items, base)
           mine == ToSet(items)
           D == DOMAIN base \union {i.change.acl : i \in mine}
           y == [a \in D |->
                   (IF a \in DOMAIN base THEN base[a] ELSE {}) \union {AsEntry(i) : i \in {j \in mine : j.change.acl = a}}]
<1>1. x = y
  BY DEF Final
<1>2. mine = {items[k] : k \in DOMAIN items}
  BY DEF ToSet
<1>3. D = DOMAIN base \union {items[k].change.acl : k \in DOMAIN items}
  BY <1>2
<1> HIDE DEF mine
<1>4. ASSUME NEW a, NEW e
      PROVE  Has(y, a, e) <=>
                Has(base, a, e) \/ \E k \in DOMAIN items : a = items[k].change.acl /\ e = AsEntry(items[k])
  <2>1. CASE a \in D
    <3>1. Has(y, a, e) <=> e \in (IF a \in DOMAIN base THEN base[a] ELSE {})
                          \/ e \in {AsEntry(i) : i \in {j \in mine : j.change.acl = a}}
      BY <2>1 DEF Has
    <3>2. e \in (IF a \in DOMAIN base THEN base[a] ELSE {}) <=> Has(base, a, e)
      BY DEF Has
    <3>3. e \in {AsEntry(i) : i \in {j \in mine : j.change.acl = a}} <=>
            \E k \in DOMAIN items : a = items[k].change.acl /\ e = AsEntry(items[k])
      BY <1>2
    <3> QED
      BY <3>1, <3>2, <3>3
  <2>2. CASE a \notin D
    BY <1>3, <2>2 DEF Has
  <2> QED
    BY <2>1, <2>2
<1>5. IsAcls(y) /\ DOMAIN y = D
  BY DEF IsAcls
<1> HIDE DEF y, D
<1> QED
  BY <1>1, <1>3, <1>4, <1>5 DEF Merges

LEMMA PrefixItems ==
  ASSUME NEW items, items \in Seq(Range(items)), NEW n \in 0..Len(items)
  PROVE  /\ n \in Nat /\ DOMAIN SubSeq(items, 1, n) = 1..n /\ DOMAIN items = 1..Len(items) /\ Len(items) \in Nat
         /\ \A k \in 1..n : SubSeq(items, 1, n)[k] = items[k] /\ k \in DOMAIN items
<1>1. Len(items) \in Nat /\ DOMAIN items = 1..Len(items)
  BY SeqShape
<1> QED
  BY <1>1, PrefixShape

\* One entry, sent or added to the reviewed order, leads to the same ACLs.
LEMMA CiscoPerformed ==
  ASSUME NEW items, items \in Seq(Range(items)), NEW n \in 0..(Len(items) - 1), NEW base, Fits(items, base)
  PROVE  Performed("cisco", items[n + 1], Final("cisco", SubSeq(items, 1, n), base))
            = Final("cisco", SubSeq(items, 1, n + 1), base)
<1> DEFINE t == SubSeq(items, 1, n)
           s == SubSeq(items, 1, n + 1)
           i == items[n + 1]
           acl == i.change.acl
           x == Final("cisco", t, base)
           y == Final("cisco", s, base)
           had == IF acl \in DOMAIN x THEN x[acl] ELSE {}
           now == IF \E e \in had : e.sequence = i.change.sequence THEN had ELSE had \union {AsEntry(i)}
           z == Performed("cisco", i, x)
<1>1. Len(items) \in Nat /\ n \in 0..Len(items) /\ n + 1 \in 0..Len(items) /\ n \in Nat /\ n + 1 \in DOMAIN items
  BY SeqShape
<1>2. DOMAIN t = 1..n /\ \A k \in 1..n : t[k] = items[k] /\ k \in DOMAIN items
  BY <1>1, PrefixItems
<1>3. DOMAIN s = 1..(n + 1) /\ \A k \in 1..(n + 1) : s[k] = items[k]
  BY <1>1, PrefixItems
<1> HIDE DEF s, t
<1>4. /\ IsAcls(x)
      /\ DOMAIN x = DOMAIN base \union {t[k].change.acl : k \in DOMAIN t}
      /\ \A a, e : Has(x, a, e) <=> Has(base, a, e) \/ \E k \in DOMAIN t : a = t[k].change.acl /\ e = AsEntry(t[k])
  <2>1. Merges(x, t, base)
    BY FinalAcls
  <2> QED
    BY <2>1 DEF Merges
<1>5. /\ IsAcls(y)
      /\ DOMAIN y = DOMAIN base \union {s[k].change.acl : k \in DOMAIN s}
      /\ \A a, e : Has(y, a, e) <=> Has(base, a, e) \/ \E k \in DOMAIN s : a = s[k].change.acl /\ e = AsEntry(s[k])
  <2>1. Merges(y, s, base)
    BY FinalAcls
  <2> QED
    BY <2>1 DEF Merges
<1>6. z = [a \in DOMAIN x \union {acl} |-> IF a = acl THEN now ELSE x[a]]
  BY DEF Performed
<1> HIDE DEF x, y
<1>7. \A e : e \in had <=> Has(x, acl, e)
  BY DEF Has
<1>8. ASSUME NEW e \in had PROVE e.sequence # i.change.sequence
  <2>1. CASE Has(base, acl, e)
    BY <1>1, <2>1 DEF Fits
  <2>2. CASE \E k \in DOMAIN t : acl = t[k].change.acl /\ e = AsEntry(t[k])
    <3>1. PICK k \in 1..n : acl = t[k].change.acl /\ e = AsEntry(t[k])
      BY <1>2, <2>2
    <3>2. items[k].change.acl = acl /\ e.sequence = items[k].change.sequence /\ k \in DOMAIN items /\ k # n + 1
      BY <1>1, <1>2, <3>1 DEF AsEntry
    <3> QED
      BY <1>1, <3>2, EntriesApart
  <2> QED
    BY <1>4, <1>7, <1>8, <2>1, <2>2
<1>9. now = had \union {AsEntry(i)}
  BY <1>8
<1> HIDE DEF now, had
<1>10. IsAcls(z) /\ DOMAIN z = DOMAIN x \union {acl}
  BY <1>6 DEF IsAcls
<1>11. ASSUME NEW a, NEW e PROVE Has(z, a, e) <=> Has(x, a, e) \/ (a = acl /\ e = AsEntry(i))
  <2>1. CASE a = acl
    BY <1>6, <1>7, <1>9, <2>1 DEF Has
  <2>2. CASE a # acl
    BY <1>6, <2>2 DEF Has
  <2> QED
    BY <2>1, <2>2
<1>12. \A k \in 1..(n + 1) : k \in 1..n \/ k = n + 1
  BY <1>1
<1>13. n + 1 \in 1..(n + 1) /\ s[n + 1] = i /\ \A k \in 1..n : k \in 1..(n + 1) /\ s[k] = t[k]
  BY <1>1, <1>2, <1>3
<1> HIDE DEF z, i
<1>14. DOMAIN z = DOMAIN y
  BY <1>2, <1>3, <1>4, <1>5, <1>10, <1>12, <1>13
<1>15. ASSUME NEW a, NEW e PROVE Has(z, a, e) <=> Has(y, a, e)
  BY <1>2, <1>3, <1>4, <1>5, <1>11, <1>12, <1>13
<1> QED
  BY <1>5, <1>10, <1>14, <1>15, SameAcls DEF SameEntries, x, y, z, s, t, i

\* The recovery recipe takes off exactly the entries of the plan and the ACLs it created.
LEMMA CiscoRecovered ==
  ASSUME NEW items, items \in Seq(Range(items)), NEW n \in 0..Len(items), NEW base, Fits(items, base)
  PROVE  Recovered("cisco", items, Final("cisco", SubSeq(items, 1, n), base)) = base
<1> DEFINE t == SubSeq(items, 1, n)
           x == Final("cisco", t, base)
           mine == {items[k].change : k \in DOMAIN items}
           made == {c.acl : c \in {d \in mine : Creates(d)}}
           y == [a \in DOMAIN x \ made |-> {e \in x[a] : \A c \in mine : c.acl = a => c.sequence # e.sequence}]
<1>1. n \in Nat /\ DOMAIN t = 1..n /\ \A k \in 1..n : t[k] = items[k] /\ k \in DOMAIN items
  BY PrefixItems
<1> HIDE DEF t
<1>2. /\ IsAcls(x)
      /\ DOMAIN x = DOMAIN base \union {t[k].change.acl : k \in DOMAIN t}
      /\ \A a, e : Has(x, a, e) <=> Has(base, a, e) \/ \E k \in DOMAIN t : a = t[k].change.acl /\ e = AsEntry(t[k])
  <2>1. Merges(x, t, base)
    BY FinalAcls
  <2> QED
    BY <2>1 DEF Merges
<1>3. Recovered("cisco", items, x) = y
  BY DEF Recovered
<1> HIDE DEF x
<1>4. \A k \in DOMAIN items : items[k].change.acl \in made <=> items[k].change.acl \notin DOMAIN base
  <2>1. ASSUME NEW k \in DOMAIN items, items[k].change.acl \in made PROVE items[k].change.acl \notin DOMAIN base
    <3>1. PICK j \in DOMAIN items : Creates(items[j].change) /\ items[j].change.acl = items[k].change.acl
      BY <2>1
    <3> QED
      BY <3>1 DEF Fits
  <2>2. ASSUME NEW k \in DOMAIN items, items[k].change.acl \notin DOMAIN base PROVE items[k].change.acl \in made
    BY <2>2 DEF Fits
  <2> QED
    BY <2>1, <2>2
<1>5. \A a \in made : \E k \in DOMAIN items : a = items[k].change.acl
  OBVIOUS
<1> HIDE DEF made
<1>6. DOMAIN y = DOMAIN base /\ IsAcls(y)
  <2>1. ASSUME NEW a PROVE a \in DOMAIN x \ made <=> a \in DOMAIN base
    <3>1. CASE a \in DOMAIN base
      <4>1. a \notin made
        BY <1>4, <1>5, <3>1
      <4> QED
        BY <1>2, <3>1, <4>1
    <3>2. CASE a \notin DOMAIN base /\ a \in DOMAIN x
      <4>1. PICK k \in DOMAIN t : a = t[k].change.acl
        BY <1>2, <3>2
      <4>2. k \in DOMAIN items /\ a = items[k].change.acl
        BY <1>1, <4>1
      <4> QED
        BY <1>4, <3>2, <4>2
    <3> QED
      BY <3>1, <3>2
  <2> QED
    BY <2>1 DEF IsAcls
<1>7. ASSUME NEW a, NEW e PROVE Has(y, a, e) <=> Has(base, a, e)
  <2>1. CASE a \in DOMAIN base
    <3>1. Has(y, a, e) <=> Has(x, a, e) /\ \A c \in mine : c.acl = a => c.sequence # e.sequence
      BY <1>2, <1>6, <2>1 DEF Has
    <3>2. ASSUME Has(base, a, e), NEW c \in mine, c.acl = a PROVE c.sequence # e.sequence
      BY <3>2 DEF Fits
    <3>3. ASSUME NEW k \in DOMAIN t, a = t[k].change.acl, e = AsEntry(t[k])
          PROVE  \E c \in mine : c.acl = a /\ c.sequence = e.sequence
      <4>1. t[k].change \in mine /\ e.sequence = t[k].change.sequence
        BY <1>1, <3>3 DEF AsEntry
      <4> QED
        BY <3>3, <4>1
    <3> HIDE DEF mine, y
    <3> QED
      BY <1>2, <3>1, <3>2, <3>3
  <2>2. CASE a \notin DOMAIN base
    BY <1>6, <2>2 DEF Has
  <2> QED
    BY <2>1, <2>2
<1>8. IsAcls(base)
  BY DEF Fits
<1> HIDE DEF y
<1> QED
  BY <1>3, <1>6, <1>7, <1>8, SameAcls DEF SameEntries, x, t

\* The entries of the items, as many as there are items and none of the base.
New(items) == {<<items[k].change.acl, AsEntry(items[k])>> : k \in DOMAIN items}

LEMMA NewCount ==
  ASSUME NEW items, NEW base, Fits(items, base)
  PROVE  IsFiniteSet(New(items)) /\ Cardinality(New(items)) = Len(items) /\ New(items) \intersect Entries(base) = {}
<1> DEFINE n == Len(items)
           f == [k \in 1..n |-> <<items[k].change.acl, AsEntry(items[k])>>]
<1>1. n \in Nat /\ DOMAIN items = 1..n
  BY DEF Fits
<1>2. ASSUME NEW j \in 1..n, NEW k \in 1..n, j # k PROVE f[j] # f[k]
  <2>1. CASE items[j].change.acl = items[k].change.acl
    <3>1. items[j].change.sequence # items[k].change.sequence
      BY <1>1, <1>2, <2>1, EntriesApart
    <3>2. AsEntry(items[j]) # AsEntry(items[k])
      BY <3>1 DEF AsEntry
    <3> QED
      BY <3>2
  <2>2. CASE items[j].change.acl # items[k].change.acl
    BY <2>2
  <2> QED
    BY <2>1, <2>2
<1>3. f \in [1..n -> New(items)] /\ \A x \in New(items) : \E k \in 1..n : f[k] = x
  BY <1>1 DEF New
<1> HIDE DEF f
<1>4. ExistsBijection(1..n, New(items))
  BY <1>2, <1>3 DEF ExistsBijection, Bijection, Injection, Surjection, IsInjective
<1>5. IsFiniteSet(1..n) /\ Cardinality(1..n) = n
  <2>1. IsFiniteSet(1..n) /\ Cardinality(1..n) = IF 1 > n THEN 0 ELSE n - 1 + 1
    BY <1>1, FS_Interval
  <2> QED
    BY <1>1, <2>1
<1>6. IsFiniteSet(New(items)) /\ Cardinality(New(items)) = n
  BY <1>4, <1>5, FS_Bijection
<1>7. ASSUME NEW x \in New(items), x \in Entries(base) PROVE FALSE
  <2>1. PICK k \in DOMAIN items : x = <<items[k].change.acl, AsEntry(items[k])>>
    BY DEF New
  <2>2. Has(base, items[k].change.acl, AsEntry(items[k]))
    BY <1>7, <2>1, EntriesHas
  <2>3. AsEntry(items[k]).sequence = items[k].change.sequence
    BY DEF AsEntry
  <2> QED
    BY <2>2, <2>3 DEF Fits
<1> QED
  BY <1>6, <1>7

LEMMA MergedEntries ==
  ASSUME NEW items, NEW base, NEW x, Merges(x, items, base)
  PROVE  Entries(x) = Entries(base) \union New(items)
<1>1. ASSUME NEW p \in Entries(x) PROVE p \in Entries(base) \union New(items)
  <2>1. p = <<p[1], p[2]>> /\ Has(x, p[1], p[2])
    BY EntriesHas
  <2>2. CASE Has(base, p[1], p[2])
    BY <2>1, <2>2, EntriesHas
  <2>3. CASE \E k \in DOMAIN items : p[1] = items[k].change.acl /\ p[2] = AsEntry(items[k])
    BY <2>1, <2>3 DEF New
  <2> QED
    BY <2>1, <2>2, <2>3 DEF Merges
<1>2. ASSUME NEW p \in Entries(base) PROVE p \in Entries(x)
  <2>1. p = <<p[1], p[2]>> /\ Has(base, p[1], p[2])
    BY EntriesHas
  <2>2. Has(x, p[1], p[2])
    BY <2>1 DEF Merges
  <2> QED
    BY <2>1, <2>2, EntriesHas
<1>3. ASSUME NEW p \in New(items) PROVE p \in Entries(x)
  <2>1. PICK k \in DOMAIN items : p = <<items[k].change.acl, AsEntry(items[k])>>
    BY DEF New
  <2>2. Has(x, items[k].change.acl, AsEntry(items[k]))
    BY DEF Merges
  <2> QED
    BY <2>1, <2>2, EntriesHas
<1> QED
  BY <1>1, <1>2, <1>3

\* On Cisco the verification succeeds for the reviewed ACLs and for nothing else.
LEMMA CiscoExact ==
  ASSUME NEW items, NEW base, NEW after, Fits(items, base.rules), IsFilter("cisco", after.rules)
  PROVE  Complete("cisco", items, base, after) <=>
            /\ after.rules = Final("cisco", items, base.rules)
            /\ after.bindings = base.bindings /\ after.remarks = base.remarks
<1> DEFINE b == base.rules
           a == after.rules
           x == Final("cisco", items, b)
           made == {items[k].change.acl : k \in {j \in DOMAIN items : Creates(items[j].change)}}
<1>1. Merges(x, items, b)
  BY FinalAcls
<1>2. IsAcls(a) /\ DOMAIN a \intersect OtherAcls = {} /\ IsFiniteSet(Entries(a))
  BY DEF IsFilter, IsAcls
<1>3. IsFiniteSet(Entries(b)) /\ Len(items) \in Nat /\ DOMAIN b \intersect OtherAcls = {}
  BY DEF Fits
<1>4. IsFiniteSet(New(items)) /\ Cardinality(New(items)) = Len(items) /\ New(items) \intersect Entries(b) = {}
  BY NewCount
<1>5. Entries(x) = Entries(b) \union New(items)
  BY <1>1, MergedEntries
<1>6. Cardinality(Entries(x)) = Cardinality(Entries(b)) + Len(items) /\ IsFiniteSet(Entries(x))
  <2>1. Entries(b) \intersect New(items) = {} /\ Cardinality({}) = 0 /\ Cardinality(Entries(b)) \in Nat
    BY <1>3, <1>4, FS_EmptySet, FS_CardinalityType
  <2>2. /\ IsFiniteSet(Entries(b) \union New(items))
        /\ Cardinality(Entries(b) \union New(items))
            = Cardinality(Entries(b)) + Cardinality(New(items)) - Cardinality(Entries(b) \intersect New(items))
    BY <1>3, <1>4, FS_Union
  <2>3. Cardinality(Entries(b) \union New(items)) = Cardinality(Entries(b)) + Len(items)
    <3>1. Cardinality(Entries(b) \intersect New(items)) = 0
      BY <2>1
    <3>2. Cardinality(New(items)) = Len(items)
      BY <1>4
    <3> QED
      BY <1>3, <2>1, <2>2, <3>1, <3>2
  <2> HIDE DEF x
  <2> QED
    BY <1>5, <2>2, <2>3
<1>7. DOMAIN x = DOMAIN b \union made
  <2>1. ASSUME NEW k \in DOMAIN items PROVE items[k].change.acl \in DOMAIN b \/ items[k].change.acl \in made
    BY DEF Fits
  <2>2. made \subseteq {items[k].change.acl : k \in DOMAIN items}
    OBVIOUS
  <2>3. DOMAIN x = DOMAIN b \union {items[k].change.acl : k \in DOMAIN items}
    BY <1>1 DEF Merges
  <2> HIDE DEF made
  <2> QED
    BY <2>1, <2>2, <2>3
<1>8. DOMAIN x \intersect OtherAcls = {}
  <2>1. made \intersect OtherAcls = {}
    BY DEF Fits
  <2> QED
    BY <1>3, <1>7, <2>1
<1>9. AclNames(a) = AclNames(b) \union made <=> DOMAIN a = DOMAIN x
  BY <1>2, <1>7, <1>8 DEF AclNames
<1>10. ASSUME NEW k \in DOMAIN items
       PROVE  Outcome("cisco", items[k], after) <=> <<items[k].change.acl, AsEntry(items[k])>> \in Entries(a)
  <2>1. Outcome("cisco", items[k], after) <=> Has(a, items[k].change.acl, AsEntry(items[k]))
    BY DEF Outcome, Has
  <2> QED
    BY <2>1, EntriesHas
<1>11. (\A k \in DOMAIN items : Outcome("cisco", items[k], after)) <=> New(items) \subseteq Entries(a)
  BY <1>10 DEF New
<1>12. Complete("cisco", items, base, after) <=>
          /\ after.bindings = base.bindings /\ after.remarks = base.remarks
          /\ Cardinality(Entries(a)) = Cardinality(Entries(b)) + Len(items)
          /\ AclNames(a) = AclNames(b) \union made
          /\ Entries(b) \subseteq Entries(a)
          /\ New(items) \subseteq Entries(a)
  BY <1>11 DEF Complete, Preserved
<1> HIDE DEF a, b, x, made
<1>13. ASSUME DOMAIN a = DOMAIN x, Entries(x) \subseteq Entries(a), Cardinality(Entries(a)) = Cardinality(Entries(x))
       PROVE  a = x
  <2>1. Entries(a) = Entries(x)
    BY <1>2, <1>13, FS_Subset
  <2>2. SameEntries(a, x)
    BY <1>13, <2>1, EntriesHas DEF SameEntries
  <2>3. IsAcls(x)
    BY <1>1 DEF Merges
  <2> QED
    BY <1>2, <2>2, <2>3, SameAcls
<1>14. ASSUME a = x
       PROVE  /\ Cardinality(Entries(a)) = Cardinality(Entries(b)) + Len(items)
              /\ DOMAIN a = DOMAIN x /\ Entries(b) \subseteq Entries(a) /\ New(items) \subseteq Entries(a)
  BY <1>5, <1>6, <1>14
<1>15. a = x <=> /\ Cardinality(Entries(a)) = Cardinality(Entries(b)) + Len(items)
                 /\ DOMAIN a = DOMAIN x /\ Entries(b) \subseteq Entries(a) /\ New(items) \subseteq Entries(a)
  BY <1>5, <1>6, <1>13, <1>14
<1> QED
  BY <1>9, <1>12, <1>15 DEF a, b, x

(***************************************************************************)
(* Both platforms: what was compiled from a change set r and an observed   *)
(* base is sound, and then the commands, the verification and the recovery *)
(* recipe agree with what the reviewer was shown.                          *)
(***************************************************************************)
\* What a plan was compiled from.
Changes(items) == [k \in DOMAIN items |-> items[k].change]

Compiled(p, r, items) == WellFormed(p, Changes(items)) /\ items = Items(r, Changes(items))

Sound(p, r, items, base) ==
    /\ Compiled(p, r, items)
    /\ IsConfiguration(p, base)
    /\ Foreign(p, r, base.rules)
    /\ p = "cisco" => ~AclRefuses(Changes(items), base)

LEMMA CompiledShape ==
  ASSUME NEW p, NEW r, NEW items, Compiled(p, r, items)
  PROVE  /\ items \in Seq(Range(items)) /\ Len(items) \in Nat /\ DOMAIN items = 1..Len(items)
         /\ \A k \in DOMAIN items : items[k].tag = <<r, k>> /\ items[k].change = Changes(items)[k]
<1> DEFINE c == Changes(items)
           n == Len(c)
<1>1. c \in Seq(Range(c))
  BY DEF Compiled, WellFormed
<1>2. n \in Nat /\ DOMAIN c = 1..n
  BY <1>1, SeqShape
<1>3. DOMAIN items = DOMAIN c
  BY DEF Changes
<1> HIDE DEF c
<1>4. items = [k \in DOMAIN c |-> [tag |-> <<r, k>>, change |-> c[k]]]
  BY DEF Compiled, Items, c
<1>5. items = [k \in DOMAIN items |-> items[k]]
  BY <1>4
<1>6. \A k \in 1..n : items[k] \in Range(items)
  BY <1>2, <1>3 DEF Range
<1>7. items \in Seq(Range(items)) /\ Len(items) = n
  BY <1>2, <1>3, <1>5, <1>6, SeqFromElements
<1> QED
  BY <1>2, <1>3, <1>4, <1>7 DEF c

\* On RouterOS the items have the tags of the receipt, on Cisco they are new entries.
LEMMA RouterOSTagged ==
  ASSUME NEW r, NEW items, Compiled("mikrotik", r, items)
  PROVE  Tagged(r, items)
<1>1. /\ items \in Seq(Range(items))
      /\ \A k \in DOMAIN items : items[k].tag = <<r, k>> /\ items[k].change = Changes(items)[k]
  BY CompiledShape
<1>2. \A k \in DOMAIN items : Changes(items)[k].position \in {"first", "last"}
  BY DEF Compiled, WellFormed, Changes
<1> QED
  BY <1>1, <1>2 DEF Tagged

LEMMA CiscoFits ==
  ASSUME NEW r, NEW items, NEW base, Sound("cisco", r, items, base)
  PROVE  Fits(items, base.rules)
<1> DEFINE c == Changes(items)
           rules == base.rules
<1>1. Compiled("cisco", r, items) /\ IsConfiguration("cisco", base) /\ ~AclRefuses(c, base)
  BY DEF Sound
<1>2. Len(items) \in Nat /\ DOMAIN items = 1..Len(items) /\ \A k \in DOMAIN items : items[k].change = c[k]
  BY <1>1, CompiledShape
<1>3. DOMAIN c = DOMAIN items /\ \A k \in DOMAIN c : "create" \in DOMAIN c[k]
  BY <1>1 DEF Compiled, WellFormed, Changes
<1>4. IsAcls(rules) /\ DOMAIN rules \intersect OtherAcls = {} /\ IsFiniteSet(Entries(rules))
  BY <1>1 DEF IsConfiguration, IsFilter, IsAcls
<1>5. ASSUME NEW k \in DOMAIN c
      PROVE  /\ c[k].create => c[k].acl \notin AclNames(rules)
             /\ ~c[k].create => c[k].acl \in DOMAIN rules
             /\ c[k].acl \in DOMAIN rules => \A e \in rules[c[k].acl] : e.sequence # c[k].sequence
             /\ \A j \in 1..(k - 1) : ~(c[j].acl = c[k].acl /\ c[j].sequence = c[k].sequence)
  BY <1>1 DEF AclRefuses
<1> HIDE DEF c
<1>6. ASSUME NEW k \in DOMAIN items
      PROVE  /\ items[k].change.acl \notin OtherAcls
             /\ Creates(items[k].change) <=> items[k].change.acl \notin DOMAIN rules
             /\ \A e : Has(rules, items[k].change.acl, e) => e.sequence # items[k].change.sequence
             /\ \A j \in 1..(k - 1) :
                  items[j].change.acl = items[k].change.acl => items[j].change.sequence # items[k].change.sequence
  <2>1. items[k].change = c[k] /\ k \in DOMAIN c /\ \A j \in 1..(k - 1) : items[j].change = c[j]
    BY <1>2, <1>3
  <2>2. Creates(c[k]) <=> c[k].create
    BY <1>3, <2>1 DEF Creates
  <2>3. c[k].acl \notin OtherAcls
    BY <1>4, <1>5, <2>1 DEF AclNames
  <2>4. Creates(c[k]) <=> c[k].acl \notin DOMAIN rules
    BY <1>5, <2>1, <2>2 DEF AclNames
  <2>5. \A e : Has(rules, c[k].acl, e) => e.sequence # c[k].sequence
    BY <1>5, <2>1 DEF Has
  <2>6. \A j \in 1..(k - 1) : c[j].acl = c[k].acl => c[j].sequence # c[k].sequence
    BY <1>5, <2>1
  <2> QED
    BY <2>1, <2>3, <2>4, <2>5, <2>6
<1> QED
  BY <1>2, <1>4, <1>6 DEF Fits

\* On either platform: the order of the reviewer is the one of RouterOS or the ACLs of Cisco.
LEMMA RouterOSFinal ==
  ASSUME NEW items, NEW base
  PROVE  Final("mikrotik", items, base) = Order(items, base)
BY DEF Final, Order, FirstRules, LastRules

\* compile_plan: the commands of a plan build the final order the reviewer is shown one item at a time; after n of them
\* the device has what a receipt of the first n items would show. No command finds its tag or its number taken.
THEOREM PerformedIsFinal ==
  ASSUME NEW p \in {"mikrotik", "cisco"}, NEW r, NEW items, NEW base, Sound(p, r, items, base),
         NEW n \in 0..(Len(items) - 1)
  PROVE  Performed(p, items[n + 1], Final(p, SubSeq(items, 1, n), base.rules)) = Final(p, SubSeq(items, 1, n + 1), base.rules)
<1>1. Compiled(p, r, items) /\ IsConfiguration(p, base) /\ Foreign(p, r, base.rules)
  BY DEF Sound
<1>2. CASE p = "mikrotik"
  <2>1. Tagged(r, items) /\ base.rules \in Seq(Range(base.rules)) /\ Foreign("mikrotik", r, base.rules)
    BY <1>1, <1>2, RouterOSTagged DEF IsConfiguration, IsFilter
  <2>2. Performed("mikrotik", items[n + 1], Order(SubSeq(items, 1, n), base.rules)) = Order(SubSeq(items, 1, n + 1), base.rules)
    BY <2>1, RouterOSPerformed
  <2> QED
    BY <1>2, <2>2, RouterOSFinal
<1>3. CASE p = "cisco"
  <2>1. items \in Seq(Range(items)) /\ Fits(items, base.rules)
    BY <1>1, <1>3, CompiledShape, CiscoFits
  <2> QED
    BY <1>3, <2>1, CiscoPerformed
<1> QED
  BY <1>2, <1>3

\* compile_plan: undone after any of its commands, in the order of the plan, a receipt leaves the reviewed rules: on
\* RouterOS the rules that do not have its tags, in their order; on Cisco the lists and entries there were before.
THEOREM RecoveredFinal ==
  ASSUME NEW p \in {"mikrotik", "cisco"}, NEW r, NEW items, NEW base, Sound(p, r, items, base),
         NEW n \in 0..Len(items)
  PROVE  Recovered(p, items, Final(p, SubSeq(items, 1, n), base.rules)) = base.rules
<1>1. Compiled(p, r, items) /\ IsConfiguration(p, base) /\ Foreign(p, r, base.rules)
  BY DEF Sound
<1>2. CASE p = "mikrotik"
  <2>1. Tagged(r, items) /\ base.rules \in Seq(Range(base.rules)) /\ Foreign("mikrotik", r, base.rules)
    BY <1>1, <1>2, RouterOSTagged DEF IsConfiguration, IsFilter
  <2>2. Recovered("mikrotik", items, Order(SubSeq(items, 1, n), base.rules)) = base.rules
    BY <2>1, RouterOSRecovered
  <2> QED
    BY <1>2, <2>2, RouterOSFinal
<1>3. CASE p = "cisco"
  <2>1. items \in Seq(Range(items)) /\ Fits(items, base.rules)
    BY <1>1, <1>3, CompiledShape, CiscoFits
  <2> QED
    BY <1>3, <2>1, CiscoRecovered
<1> QED
  BY <1>2, <1>3

\* verify: what it compares (tags, their order and the rules between them on RouterOS; on Cisco the number of entries,
\* the names, the bindings, and that old and new entries are there) holds exactly of the configuration that the
\* reviewer was shown, for every plan the compiler lets through and everything a reading may show.
THEOREM VerificationExact ==
  ASSUME NEW p \in {"mikrotik", "cisco"}, NEW r, NEW items, NEW base, Sound(p, r, items, base),
         NEW after, IsConfiguration(p, after)
  PROVE  Complete(p, items, base, after) <=> after = [base EXCEPT !.rules = Final(p, items, base.rules)]
<1>1. Compiled(p, r, items) /\ IsConfiguration(p, base) /\ Foreign(p, r, base.rules)
  BY DEF Sound
<1>2. after = [base EXCEPT !.rules = Final(p, items, base.rules)] <=>
        /\ after.rules = Final(p, items, base.rules)
        /\ after.bindings = base.bindings /\ after.remarks = base.remarks
  BY <1>1 DEF IsConfiguration, Configuration
<1>3. CASE p = "mikrotik"
  <2>1. Tagged(r, items) /\ IsFilter("mikrotik", base.rules) /\ IsFilter("mikrotik", after.rules)
        /\ Foreign("mikrotik", r, base.rules)
    BY <1>1, <1>3, RouterOSTagged DEF IsConfiguration
  <2>2. Complete("mikrotik", items, base, after) <=> after.rules = Order(items, base.rules)
    BY <2>1, RouterOSExact
  <2>3. after.bindings = base.bindings /\ after.remarks = base.remarks
    BY <1>1, <1>3 DEF IsConfiguration
  <2> QED
    BY <1>2, <1>3, <2>2, <2>3, RouterOSFinal
<1>4. CASE p = "cisco"
  <2>1. Fits(items, base.rules) /\ IsFilter("cisco", after.rules)
    BY <1>4, CiscoFits DEF IsConfiguration
  <2>2. Complete("cisco", items, base, after) <=>
            /\ after.rules = Final("cisco", items, base.rules)
            /\ after.bindings = base.bindings /\ after.remarks = base.remarks
    BY <2>1, CiscoExact
  <2> QED
    BY <1>2, <1>4, <2>2
<1> QED
  BY <1>3, <1>4

\* Before the first item, the order is what was read.
LEMMA FinalNone ==
  ASSUME NEW p \in {"mikrotik", "cisco"}, NEW r, NEW items, NEW base, Sound(p, r, items, base)
  PROVE  Final(p, SubSeq(items, 1, 0), base.rules) = base.rules
<1> DEFINE t == SubSeq(items, 1, 0)
           b == base.rules
<1>1. Compiled(p, r, items) /\ IsFilter(p, b)
  BY DEF Sound, IsConfiguration
<1>2. items \in Seq(Range(items)) /\ Len(items) \in Nat
  BY <1>1, CompiledShape
<1>3. 0 \in 0..Len(items)
  BY <1>2
<1>4. DOMAIN t = {}
  BY <1>2, <1>3, PrefixItems
<1>5. CASE p = "mikrotik"
  <2> DEFINE x == Order(t, b)
  <2>1. Tagged(r, t)
    BY <1>1, <1>3, <1>5, RouterOSTagged, PrefixTagged
  <2>2. b \in Seq(Range(b))
    BY <1>1, <1>5 DEF IsFilter
  <2>3. Cardinality(PlacesOf(t, "first")) = 0 /\ Cardinality(PlacesOf(t, "last")) = 0
    BY <1>4, FS_EmptySet DEF PlacesOf
  <2> HIDE DEF t, b
  <2>4. x \in Seq(RulesOf(Range(t)) \union Range(b)) /\ Len(b) \in Nat
        /\ Len(x) = Cardinality(PlacesOf(t, "first")) + Len(b) + Cardinality(PlacesOf(t, "last"))
        /\ \A i \in 1..Len(b) : x[Cardinality(PlacesOf(t, "first")) + i] = b[i]
    BY <2>1, <2>2, OrderShape
  <2> HIDE DEF x
  <2>5. Len(x) = Len(b) /\ \A i \in 1..Len(b) : x[i] = b[i]
    <3>1. \A i \in 1..Len(b) : 0 + i = i
      BY <2>4
    <3> QED
      BY <2>3, <2>4, <3>1
  <2>6. x = b
    BY <2>2, <2>4, <2>5, SeqEqual
  <2> QED
    BY <1>5, <2>6, RouterOSFinal DEF t, b, x
<1>6. CASE p = "cisco"
  <2> DEFINE x == Final("cisco", t, b)
  <2>1. Merges(x, t, b)
    BY FinalAcls
  <2>2. IsAcls(b)
    BY <1>1, <1>6 DEF IsFilter, IsAcls
  <2>3. IsAcls(x) /\ SameEntries(x, b)
    BY <1>4, <2>1 DEF Merges, SameEntries
  <2>4. x = b
    BY <2>2, <2>3, SameAcls
  <2> QED
    BY <1>6, <2>4
<1> QED
  BY <1>5, <1>6

\* A command leaves a filter, with no rule of another review's tags.
LEMMA PerformedRouterOS ==
  ASSUME NEW r, NEW item, NEW k \in Nat, item.tag = <<r, k>>, NEW rules, IsFilter("mikrotik", rules)
  PROVE  LET x == Performed("mikrotik", item, rules) IN
         IsFilter("mikrotik", x) /\ \A s : s # r /\ Foreign("mikrotik", s, rules) => Foreign("mikrotik", s, x)
<1> DEFINE x == Performed("mikrotik", item, rules)
           S == {Rule(item)} \union Range(rules)
           one == AsRules(<<item>>)
<1>1. rules \in Seq(Range(rules)) /\ \A j \in DOMAIN rules : rules[j] = [comment |-> rules[j].comment, body |-> rules[j].body]
  BY DEF IsFilter
<1>2. rules \in Seq(S)
  BY <1>1, SeqMonotonic
<1>3. one \in Seq(S)
  <2>1. one \in Seq(RulesOf({item}))
    BY AsRulesShape
  <2>2. RulesOf({item}) \subseteq S
    BY DEF RulesOf
  <2> QED
    BY <2>1, <2>2, SeqMonotonic
<1>4. x = rules \/ x = one \o rules \/ x = rules \o one
  BY DEF Performed
<1> HIDE DEF one, S, x
<1>5. x \in Seq(S)
  BY <1>2, <1>3, <1>4, ConcatProperties
<1>6. DOMAIN x = 1..Len(x) /\ x = [j \in DOMAIN x |-> x[j]] /\ Len(x) \in Nat /\ \A j \in 1..Len(x) : x[j] \in S
  BY <1>5, SeqShape
<1>7. x \in Seq(Range(x))
  <2>1. \A j \in 1..Len(x) : x[j] \in Range(x)
    BY <1>6 DEF Range
  <2> QED
    BY <1>6, <2>1, SeqFromElements
<1>8. \A y \in S : y = [comment |-> y.comment, body |-> y.body]
  BY <1>1 DEF S, Rule, Range
<1>9. IsFilter("mikrotik", x)
  BY <1>6, <1>7, <1>8 DEF IsFilter
<1>10. ASSUME NEW s, s # r, Foreign("mikrotik", s, rules) PROVE Foreign("mikrotik", s, x)
  <2>1. \A y \in S : y.comment \notin {s} \X Nat
    BY <1>10 DEF S, Rule, Range, Foreign
  <2> QED
    BY <1>6, <2>1 DEF Foreign
<1> QED
  BY <1>9, <1>10 DEF x

LEMMA PerformedCisco ==
  ASSUME NEW item, item.change.acl \notin OtherAcls, NEW rules, IsFilter("cisco", rules)
  PROVE  IsFilter("cisco", Performed("cisco", item, rules))
<1> DEFINE acl == item.change.acl
           had == IF acl \in DOMAIN rules THEN rules[acl] ELSE {}
           now == IF \E e \in had : e.sequence = item.change.sequence THEN had ELSE had \union {AsEntry(item)}
           x == Performed("cisco", item, rules)
           pair == <<acl, AsEntry(item)>>
<1>1. DOMAIN rules \intersect OtherAcls = {} /\ IsFiniteSet(Entries(rules))
  BY DEF IsFilter
<1>2. x = [a \in DOMAIN rules \union {acl} |-> IF a = acl THEN now ELSE rules[a]]
  BY DEF Performed
<1>3. \A e : e \in had => Has(rules, acl, e)
  BY DEF Has
<1>4. now \subseteq had \union {AsEntry(item)}
  OBVIOUS
<1> HIDE DEF x, now, had
<1>5. ASSUME NEW a, NEW e, Has(x, a, e) PROVE Has(rules, a, e) \/ <<a, e>> = pair
  <2>1. CASE a = acl
    BY <1>2, <1>3, <1>4, <1>5, <2>1 DEF Has
  <2>2. CASE a # acl
    BY <1>2, <1>5, <2>2 DEF Has
  <2> QED
    BY <2>1, <2>2
<1>6. Entries(x) \subseteq Entries(rules) \union {pair}
  <2>1. ASSUME NEW y \in Entries(x) PROVE y \in Entries(rules) \union {pair}
    <3>1. y = <<y[1], y[2]>> /\ Has(x, y[1], y[2])
      BY EntriesHas
    <3>2. Has(rules, y[1], y[2]) => y \in Entries(rules)
      BY <3>1, EntriesHas
    <3> HIDE DEF pair
    <3> QED
      BY <1>5, <3>1, <3>2
  <2> QED
    BY <2>1
<1>7. IsFiniteSet(Entries(x))
  <2>1. IsFiniteSet(Entries(rules) \union {pair})
    BY <1>1, FS_AddElement
  <2> QED
    BY <1>6, <2>1, FS_Subset
<1>8. x = [a \in DOMAIN x |-> x[a]] /\ DOMAIN x = DOMAIN rules \union {acl}
  BY <1>2
<1> QED
  BY <1>1, <1>7, <1>8 DEF IsFilter, x

LEMMA PerformedFilter ==
  ASSUME NEW p \in {"mikrotik", "cisco"}, NEW r, NEW items, NEW base, Sound(p, r, items, base), NEW k \in DOMAIN items,
         NEW rules, IsFilter(p, rules)
  PROVE  /\ IsFilter(p, Performed(p, items[k], rules))
         /\ \A s : s # r /\ Foreign(p, s, rules) => Foreign(p, s, Performed(p, items[k], rules))
<1>1. Compiled(p, r, items)
  BY DEF Sound
<1>2. DOMAIN items = 1..Len(items) /\ Len(items) \in Nat /\ items[k].tag = <<r, k>>
  BY <1>1, CompiledShape
<1>3. CASE p = "mikrotik"
  <2>1. k \in Nat /\ items[k].tag = <<r, k>> /\ IsFilter("mikrotik", rules)
    BY <1>2, <1>3
  <2> QED
    BY <1>3, <2>1, PerformedRouterOS
<1>4. CASE p = "cisco"
  <2>1. items[k].change.acl \notin OtherAcls
    BY <1>4, CiscoFits DEF Fits
  <2>2. IsFilter("cisco", Performed("cisco", items[k], rules))
    BY <1>4, <2>1, PerformedCisco
  <2> QED
    BY <1>4, <2>2 DEF Foreign
<1> QED
  BY <1>3, <1>4

(***************************************************************************)
(* What the plans in the rows and in the hands of the workers are, for the *)
(* configurations the boxes can have.                                      *)
(***************************************************************************)
\* What the boxes have: configurations, without a tag of a receipt that is not shown yet.
Boxes ==
    /\ platform \in {"mikrotik", "cisco"}
    /\ \A i \in Idents : IsConfiguration(platform, box[i])
    /\ \A r \in Reviews, i \in Idents : receipt[r].status = "NONE" => Foreign(platform, r, box[i].rules)

\* What a worker that is not idle reads, and the plan it compiles.
Reading(r) ==
    /\ worker[r].ident \in Idents
    /\ worker[r].step = "review" => Compiled(platform, r, worker[r].plan.items)
    /\ worker[r].seen = "rules" =>
        /\ IsFilter(platform, worker[r].rules)
        /\ receipt[r].status = "NONE" => Foreign(platform, r, worker[r].rules)

\* The row of a receipt, and its worker.
Planned(r) ==
    /\ receipt[r].status # "NONE" => Sound(platform, r, receipt[r].plan.items, receipt[r].base)
    /\ worker[r].step # "idle" => Reading(r)

PlansOK == Boxes /\ \A r \in Reviews : Planned(r)

LEMMA PlansInit == Init => PlansOK
<1> SUFFICES ASSUME Init PROVE PlansOK
  OBVIOUS
<1>1. platform \in Platforms /\ platform \in {"mikrotik", "cisco"} /\ box = [i \in Idents |-> Initial[platform]]
  BY FirewallAssumption DEF Init
<1>2. IsConfiguration(platform, Initial[platform]) /\ \A r \in Reviews : Foreign(platform, r, Initial[platform].rules)
  BY <1>1, InitialAssumption
<1>3. Boxes
  BY <1>1, <1>2 DEF Boxes
<1>4. \A r \in Reviews : Planned(r)
  BY DEF Init, Planned, Unused, Idle
<1> QED
  BY <1>3, <1>4 DEF PlansOK

\* A row is filled once: then it is no longer NONE, and its plan and its base stay.
RowKept(r) ==
    /\ receipt'[r].status # "NONE" /\ receipt[r].status # "NONE"
    /\ receipt'[r].plan = receipt[r].plan /\ receipt'[r].base = receipt[r].base

\* A worker that begins to look at something, or has ended.
Afresh(r) ==
    \/ worker'[r].step = "idle"
    \/ worker'[r].step # "review" /\ worker'[r].ident \in Idents /\ worker'[r].seen = "nothing"

LEMMA PlannedStays ==
  ASSUME NEW r \in Reviews, Planned(r), platform' = platform,
         \/ RowKept(r)
         \/ receipt'[r] = receipt[r],
         \/ Afresh(r)
         \/ worker'[r] = worker[r]
  PROVE  Planned(r)'
BY DEF Planned, Reading, RowKept, Afresh

LEMMA BoxesStay ==
  ASSUME Boxes, platform' = platform, box' = box, \A r \in Reviews : receipt'[r].status = "NONE" => receipt[r].status = "NONE"
  PROVE  Boxes'
BY DEF Boxes

LEMMA PlansOfOne ==
  ASSUME PlansOK, NEW r \in Reviews, CalmOf(r), platform' = platform, Planned(r)',
         receipt'[r].status = "NONE" => receipt[r].status = "NONE"
  PROVE  PlansOK'
<1>1. \A s \in Reviews \ {r} : receipt'[s] = receipt[s] /\ worker'[s] = worker[s]
  BY DEF CalmOf, OnlyOf
<1>2. \A s \in Reviews : receipt'[s].status = "NONE" => receipt[s].status = "NONE"
  BY <1>1
<1>3. Boxes'
  BY <1>2, BoxesStay DEF PlansOK, CalmOf
<1>4. ASSUME NEW s \in Reviews \ {r} PROVE Planned(s)'
  BY <1>1, PlannedStays DEF PlansOK
<1> QED
  BY <1>3, <1>4 DEF PlansOK

\* What a reading concludes with is a configuration of the device.
LEMMA ObservedConfiguration ==
  ASSUME PlansOK, NEW r \in Reviews, worker[r].step # "idle", worker[r].seen = "rules"
  PROVE  /\ IsConfiguration(platform, Observed(r))
         /\ receipt[r].status = "NONE" => Foreign(platform, r, Observed(r).rules)
<1> DEFINE b == box[worker[r].ident]
<1>1. Reading(r) /\ IsConfiguration(platform, b) /\ IsFilter(platform, worker[r].rules)
  BY DEF PlansOK, Planned, Reading, Boxes
<1>2. b = [rules |-> b.rules, bindings |-> b.bindings, remarks |-> b.remarks]
  BY <1>1 DEF IsConfiguration, Configuration
<1>3. Observed(r) = [b EXCEPT !.rules = worker[r].rules]
  BY DEF Observed
<1> HIDE DEF b
<1>4. Observed(r) = [rules |-> worker[r].rules, bindings |-> b.bindings, remarks |-> b.remarks]
  BY <1>2, <1>3
<1> QED
  BY <1>1, <1>4 DEF IsConfiguration, Configuration, Reading

LEMMA PlannedReview ==
  ASSUME StagesOK, KnownOK, PlansOK, NEW r \in Reviews, NEW u \in Users, NEW changes, Review(r, u, changes)
  PROVE  Planned(r)'
<1> DEFINE items == Items(r, changes)
           w == Busy("review", [actor |-> u, role |-> account[u].role, version |-> account[u].version,
                                target |-> device.ident, items |-> items])
<1>1. Compiled(platform, r, items)
  <2>1. WellFormed(platform, changes) /\ changes \in Seq(Range(changes))
    BY DEF Review, WellFormed
  <2>2. changes = [k \in DOMAIN changes |-> changes[k]]
    BY <2>1, SeqShape
  <2>3. Changes(items) = changes
    BY <2>2 DEF Items, Changes
  <2> QED
    BY <2>1, <2>3 DEF Compiled
<1> HIDE DEF items
<1>2. w.step = "review" /\ w.plan.items = items /\ w.ident = device.ident /\ w.seen = "nothing"
  BY DEF Busy
<1> HIDE DEF w
<1>3. worker'[r] = w /\ receipt' = receipt /\ platform' = platform
  BY DEF Review, StagesOK, w, items
<1>4. device.ident \in Idents /\ Planned(r)
  BY DEF KnownOK, Surroundings, PlansOK
<1> QED
  BY <1>1, <1>2, <1>3, <1>4 DEF Planned, Reading

LEMMA PlannedReadRules ==
  ASSUME StagesOK, KnownOK, PlansOK, NEW r \in Reviews, ReadRules(r)
  PROVE  Planned(r)'
<1>1. /\ worker[r].step # "idle" /\ UNCHANGED <<platform, receipt>>
      /\ worker' = [worker EXCEPT ![r].seen = "rules", ![r].ident = Reached(r), ![r].rules = box[Reached(r)].rules]
  BY DEF ReadRules
<1>2. Reading(r) /\ Planned(r) /\ Reached(r) \in Idents
  BY <1>1 DEF PlansOK, Planned, Reading, Reached, KnownOK, Surroundings
<1>3. /\ worker'[r].step = worker[r].step /\ worker'[r].plan = worker[r].plan
      /\ worker'[r].ident = worker[r].ident \/ worker'[r].ident = Reached(r)
      /\ worker'[r].rules = worker[r].rules \/ worker'[r].rules = box[Reached(r)].rules
      /\ worker'[r].seen = worker[r].seen \/ worker'[r].rules = box[Reached(r)].rules
  BY <1>1 DEF StagesOK
<1>4. /\ IsFilter(platform, box[Reached(r)].rules)
      /\ receipt[r].status = "NONE" => Foreign(platform, r, box[Reached(r)].rules)
  BY <1>2 DEF PlansOK, Boxes, IsConfiguration
<1> QED
  BY <1>1, <1>2, <1>3, <1>4 DEF Planned, Reading

LEMMA PlannedReviewEnds ==
  ASSUME StagesOK, KnownOK, PlansOK, NEW r \in Reviews, ReviewEnds(r)
  PROVE  Planned(r)' /\ (receipt'[r].status = "NONE" => receipt[r].status = "NONE")
<1> DEFINE plan    == worker[r].plan
           items   == plan.items
           q == [status |-> "REVIEWED", run |-> "NONE", cancel |-> FALSE, expired |-> FALSE,
                 plan |-> plan, base |-> Observed(r), adminOnly |-> AdminOnly(Changes(items)),
                 risk |-> PlanRisk(Changes(items))]
<1>1. Stage(receipt[r], worker[r], ansible[r]) /\ worker[r].step = "review" /\ worker[r].seen = "rules"
  BY DEF StagesOK, ReviewEnds, Read, At
<1>2. receipt[r].status = "NONE" /\ Planned(r) /\ Reading(r) /\ Boxes
  BY <1>1 DEF Stage, PlansOK, Planned
<1>3. worker'[r] = Idle /\ platform' = platform
  BY DEF ReviewEnds, StagesOK
<1>4. CASE receipt' = receipt
  BY <1>2, <1>3, <1>4 DEF Planned, Idle
<1>5. CASE receipt' # receipt
  <2>1. receipt' = [receipt EXCEPT ![r] = q] /\ ~Refuses(platform, Changes(items), Observed(r), plan.role)
    BY <1>5 DEF ReviewEnds, Changes
  <2>2. q.status = "REVIEWED" /\ q.plan = plan /\ q.base = Observed(r)
    OBVIOUS
  <2> HIDE DEF q
  <2>3. receipt'[r] = q
    BY <2>1 DEF StagesOK
  <2>4. IsConfiguration(platform, Observed(r)) /\ Foreign(platform, r, Observed(r).rules)
    BY <1>1, <1>2, ObservedConfiguration
  <2>5. Compiled(platform, r, items)
    BY <1>1, <1>2 DEF Reading
  <2>6. platform = "cisco" => ~AclRefuses(Changes(items), Observed(r))
    BY <2>1 DEF Refuses
  <2>7. Sound(platform, r, items, Observed(r))
    BY <2>4, <2>5, <2>6 DEF Sound
  <2> QED
    BY <1>2, <1>3, <2>2, <2>3, <2>7 DEF Planned, Idle
<1> QED
  BY <1>4, <1>5

\* What the rows, the workers and the processes have as fields.
LEMMA RowShape ==
  ASSUME StagesOK, KnownOK, NEW r \in Reviews
  PROVE  /\ Stage(receipt[r], worker[r], ansible[r]) /\ Shape(r)
         /\ {"status", "run"} \subseteq DOMAIN receipt[r]
         /\ receipt[r].status # "NONE" => {"plan", "base", "status", "run"} \subseteq DOMAIN receipt[r]
         /\ worker[r].step # "idle" => {"step", "seen", "rules", "ident", "saved"} \subseteq DOMAIN worker[r]
         /\ worker[r].step \in Before \union After => receipt[r].status # "NONE" /\ receipt[r].run = "RUNNING"
BY DEF StagesOK, Stage, KnownOK, Known, Shape

LEMMA PlannedRequest ==
  ASSUME StagesOK, KnownOK, PlansOK, NEW r \in Reviews, Apply(r) \/ Claim(r) \/ Cancel(r) \/ DropCancelled(r) \/ Expire(r)
  PROVE  Planned(r)' /\ (receipt'[r].status = "NONE" => receipt[r].status = "NONE")
<1>1. Stage(receipt[r], worker[r], ansible[r]) /\ Shape(r) /\ Planned(r) /\ {"status", "run"} \subseteq DOMAIN receipt[r]
  BY RowShape DEF PlansOK
<1>2. platform' = platform /\ worker' = worker
  BY DEF Apply, Claim, Cancel, DropCancelled, Expire, Others
<1>3. RowKept(r) \/ receipt'[r] = receipt[r]
  <2>1. CASE Apply(r)
    BY <2>1 DEF Apply
  <2>2. CASE Claim(r)
    BY <1>1, <2>2 DEF Claim, RowKept, Shape, StagesOK
  <2>3. CASE Cancel(r)
    BY <1>1, <2>3 DEF Cancel, RowKept, Shape, StagesOK, Stage
  <2>4. CASE DropCancelled(r)
    BY <1>1, <2>4 DEF DropCancelled, RowKept, Shape, StagesOK, Stage
  <2>5. CASE Expire(r)
    BY <1>1, <2>5 DEF Expire, RowKept, Shape, StagesOK
  <2> QED
    BY <2>1, <2>2, <2>3, <2>4, <2>5
<1>4. Planned(r)'
  BY <1>1, <1>2, <1>3, PlannedStays
<1> QED
  BY <1>3, <1>4 DEF RowKept

LEMMA RowFinishes ==
  ASSUME StagesOK, KnownOK, NEW r \in Reviews, NEW run, NEW status, Finishes(r, run, status),
         status = receipt[r].status \/ status # "NONE", receipt[r].status # "NONE"
  PROVE  RowKept(r) /\ Afresh(r)
<1>1. {"plan", "base", "status", "run"} \subseteq DOMAIN receipt[r]
  BY RowShape
<1>2. receipt' = [receipt EXCEPT ![r].run = run, ![r].status = status] /\ worker'[r] = Idle
  BY DEF Finishes, StagesOK
<1>3. RowKept(r)
  BY <1>1, <1>2 DEF StagesOK, RowKept
<1> QED
  BY <1>2, <1>3 DEF Afresh, Idle

LEMMA GoesAfresh ==
  ASSUME StagesOK, KnownOK, PlansOK, NEW r \in Reviews, NEW step, Goes(r, step), step # "review", worker[r].step # "idle"
  PROVE  Afresh(r) /\ worker'[r].step = step
<1>1. {"step", "seen", "rules", "ident", "saved"} \subseteq DOMAIN worker[r] /\ worker[r].ident \in Idents
  BY RowShape DEF PlansOK, Planned, Reading
<1> QED
  BY <1>1 DEF Goes, StagesOK, Afresh

LEMMA PlannedExecution ==
  ASSUME StagesOK, KnownOK, PlansOK, NEW r \in Reviews,
         \/ Start(r) \/ ReadBefore(r) \/ Capture(r) \/ ReadAgain(r) \/ Recheck(r)
         \/ Launch(r) \/ AnsibleEnds(r) \/ Verify(r) \/ Breaks(r) \/ OrphanEnds(r)
  PROVE  Planned(r)' /\ (receipt'[r].status = "NONE" => receipt[r].status = "NONE")
<1>1. Stage(receipt[r], worker[r], ansible[r]) /\ Planned(r) /\ {"status", "run"} \subseteq DOMAIN receipt[r]
  BY RowShape DEF PlansOK
<1>2. platform' = platform
  BY DEF Start, ReadBefore, Capture, ReadAgain, Recheck, Launch, AnsibleEnds, Verify, Breaks, OrphanEnds
<1>3. device.ident \in Idents
  BY DEF KnownOK, Surroundings
<1>4. CASE Start(r)
  <2>1. receipt[r].status # "NONE" /\ {"plan", "base"} \subseteq DOMAIN receipt[r]
    BY <1>1, <1>4, RowShape DEF Start, Stage
  <2>2. RowKept(r)
    BY <1>1, <1>4, <2>1 DEF Start, StagesOK, RowKept
  <2>3. Afresh(r) \/ worker'[r] = worker[r]
    BY <1>3, <1>4 DEF Start, StagesOK, Afresh, Busy
  <2> QED
    BY <1>1, <1>2, <2>2, <2>3, PlannedStays DEF RowKept
<1>5. CASE \/ ReadBefore(r) \/ Capture(r) \/ ReadAgain(r) \/ Recheck(r) \/ Launch(r) \/ AnsibleEnds(r) \/ Verify(r)
           \/ (Breaks(r) /\ worker[r].step # "review")
  <2>1. worker[r].step \in Before \union After
    BY <1>5 DEF ReadBefore, Capture, ReadAgain, Recheck, Launch, AnsibleEnds, Verify, Breaks, Read, At, Before, After
  <2>2. /\ {"plan", "base", "status", "run"} \subseteq DOMAIN receipt[r] /\ receipt[r].status # "NONE"
        /\ {"step", "seen", "rules", "ident", "saved"} \subseteq DOMAIN worker[r] /\ worker[r].step # "idle"
        /\ worker[r].ident \in Idents
    BY <2>1, RowShape DEF PlansOK, Planned, Reading, Before, After
  <2>3. RowKept(r) /\ Afresh(r) => Planned(r)' /\ (receipt'[r].status = "NONE" => receipt[r].status = "NONE")
    BY <1>1, <1>2, PlannedStays DEF RowKept
  <2>4. receipt' = receipt => RowKept(r)
    BY <2>2 DEF RowKept
  <2>5. CASE ReadBefore(r) \/ ReadAgain(r)
    <3>1. Fails(r) \/ (receipt' = receipt /\ (Goes(r, "capture") \/ Goes(r, "recheck")))
      BY <2>5 DEF ReadBefore, ReadAgain
    <3> QED
      BY <2>2, <2>3, <2>4, <3>1, RowFinishes, GoesAfresh DEF Fails
  <2>6. CASE Capture(r)
    <3>1. /\ receipt' = receipt /\ worker'[r].step = "again" /\ worker'[r].seen = worker[r].seen
          /\ worker'[r].ident = worker[r].ident
      BY <2>2, <2>6 DEF Capture, StagesOK
    <3>2. worker[r].seen = "nothing"
      BY <2>6, RowShape DEF Shape, Capture, At
    <3> QED
      BY <2>2, <2>3, <2>4, <3>1, <3>2 DEF Afresh
  <2>7. CASE Recheck(r)
    <3>1. CASE Fails(r) \/ Finishes(r, "CANCELLED", "CANCELLED")
      BY <2>2, <2>3, <3>1, RowFinishes DEF Fails
    <3>2. CASE Goes(r, "launch") /\ receipt' = [receipt EXCEPT ![r].status = "APPLYING"]
      <4>1. RowKept(r)
        BY <2>2, <3>2 DEF RowKept, StagesOK
      <4> QED
        BY <2>2, <2>3, <3>2, <4>1, GoesAfresh
    <3> QED
      BY <2>7, <3>1, <3>2 DEF Recheck
  <2>8. CASE Launch(r)
    <3>1. /\ receipt' = receipt /\ worker'[r].step = "ansible" /\ worker'[r].seen = worker[r].seen
          /\ worker'[r].ident = device.ident
      BY <2>2, <2>8 DEF Launch, StagesOK
    <3>2. Planned(r) /\ worker'[r].rules = worker[r].rules
      BY <1>1, <2>2, <2>8 DEF Launch, StagesOK
    <3> QED
      BY <1>2, <1>3, <2>2, <3>1, <3>2 DEF Planned, Reading
  <2>9. CASE AnsibleEnds(r)
    <3>1. RowKept(r)
      BY <2>2, <2>9 DEF AnsibleEnds, RowKept, StagesOK
    <3>2. Goes(r, "after")
      BY <2>9 DEF AnsibleEnds
    <3> QED
      BY <2>2, <2>3, <3>1, <3>2, GoesAfresh
  <2>10. CASE Verify(r)
    <3>1. worker'[r].step = "idle"
      BY <2>10 DEF Verify, StagesOK, Idle
    <3>2. \E outcome \in {"SUCCESS", "PARTIAL", "CANCELLED", "FAILED"} :
            \/ receipt' = [receipt EXCEPT ![r].run = "FAILED"]
            \/ receipt' = [receipt EXCEPT ![r].run = outcome, ![r].status = outcome]
      BY <2>10 DEF Verify
    <3>3. RowKept(r)
      BY <2>2, <3>2 DEF RowKept, StagesOK
    <3> QED
      BY <2>3, <3>1, <3>3 DEF Afresh
  <2>11. CASE Breaks(r) /\ worker[r].step # "review"
    <3>1. Fails(r) \/ Finishes(r, "APPLIED_UNVERIFIED", "APPLIED_UNVERIFIED")
      BY <2>11 DEF Breaks, At
    <3> QED
      BY <2>2, <2>3, <3>1, RowFinishes DEF Fails
  <2> QED
    BY <1>5, <2>5, <2>6, <2>7, <2>8, <2>9, <2>10, <2>11, SMTT(60)
<1>6. CASE Breaks(r) /\ worker[r].step = "review"
  <2>1. worker' = [worker EXCEPT ![r] = Idle] /\ receipt' = receipt
    BY <1>6 DEF Breaks, At
  <2>2. Afresh(r)
    BY <2>1 DEF Afresh, Idle, StagesOK
  <2> QED
    BY <1>1, <1>2, <2>1, <2>2, PlannedStays
<1>7. CASE OrphanEnds(r)
  <2>1. worker' = worker /\ receipt' = receipt
    BY <1>7 DEF OrphanEnds
  <2> QED
    BY <1>1, <1>2, <2>1, PlannedStays
<1> QED
  BY <1>4, <1>5, <1>6, <1>7

\* A command leaves a configuration, with no tag of a receipt that is not shown yet.
LEMMA PlansSend ==
  ASSUME StagesOK, KnownOK, PlansOK, NEW r \in Reviews, Send(r)
  PROVE  PlansOK'
<1> DEFINE items == receipt[r].plan.items
           k == ansible[r].sent + 1
           b == box[ansible[r].to]
           sent == Performed(platform, items[k], b.rules)
<1>1. /\ ansible[r].on /\ ansible[r].sent < Len(items) /\ box' = [box EXCEPT ![ansible[r].to] = [@ EXCEPT !.rules = sent]]
      /\ UNCHANGED <<platform, receipt, worker>>
  BY DEF Send
<1>2. ansible[r].sent \in Nat /\ receipt[r].status # "NONE"
  <2>1. Stage(receipt[r], worker[r], ansible[r]) /\ Shape(r)
    BY RowShape
  <2> QED
    BY <1>1, <2>1 DEF Shape, Stage
<1>3. Sound(platform, r, items, receipt[r].base) /\ Boxes
  BY <1>2 DEF PlansOK, Planned
<1>4. k \in DOMAIN items
  <2>1. Len(items) \in Nat /\ DOMAIN items = 1..Len(items)
    BY <1>3, CompiledShape DEF Sound
  <2> QED
    BY <1>1, <1>2, <2>1
<1> HIDE DEF sent, k, items
<1>5. ASSUME ansible[r].to \in Idents
      PROVE  /\ IsConfiguration(platform, [b EXCEPT !.rules = sent])
             /\ \A s \in Reviews : receipt[s].status = "NONE" => Foreign(platform, s, sent)
  <2>1. IsConfiguration(platform, b) /\ IsFilter(platform, b.rules) /\ platform \in {"mikrotik", "cisco"}
    BY <1>3, <1>5 DEF Boxes, IsConfiguration
  <2>2. \A s \in Reviews : receipt[s].status = "NONE" => Foreign(platform, s, b.rules) /\ s # r
    BY <1>2, <1>3, <1>5 DEF Boxes
  <2> HIDE DEF b
  <2>3. IsFilter(platform, sent) /\ \A s : s # r /\ Foreign(platform, s, b.rules) => Foreign(platform, s, sent)
    BY <1>3, <1>4, <2>1, PerformedFilter DEF sent
  <2>4. b = [rules |-> b.rules, bindings |-> b.bindings, remarks |-> b.remarks]
    BY <2>1 DEF IsConfiguration, Configuration
  <2>5. [b EXCEPT !.rules = sent] = [rules |-> sent, bindings |-> b.bindings, remarks |-> b.remarks]
    BY <2>4
  <2> QED
    BY <2>1, <2>2, <2>3, <2>5 DEF IsConfiguration, Configuration
<1>6. \A i \in Idents : box'[i] = box[i] \/ (i = ansible[r].to /\ box'[i] = [b EXCEPT !.rules = sent] /\ box'[i].rules = sent)
  <2>1. DOMAIN box = Idents /\ \A i \in Idents : box[i] = Configuration(box[i])
    BY DEF KnownOK, Surroundings
  <2> QED
    BY <1>1, <2>1 DEF Configuration
<1> HIDE DEF b
<1>7. Boxes'
  BY <1>1, <1>3, <1>5, <1>6 DEF Boxes
<1>8. \A s \in Reviews : Planned(s)'
  BY <1>1, PlannedStays DEF PlansOK
<1> QED
  BY <1>7, <1>8 DEF PlansOK

LEMMA PlansOthers ==
  ASSUME StagesOK, PlansOK,
         \/ \E u \in Users : ChangeAccount(u)
         \/ ChangeDevice
         \/ \E i \in Idents : EditBox(i)
  PROVE  PlansOK'
<1>1. UNCHANGED <<platform, receipt, worker>>
  BY DEF ChangeAccount, ChangeDevice, EditBox, Others
<1>2. \A r \in Reviews : Planned(r)'
  BY <1>1, PlannedStays DEF PlansOK
<1>3. CASE box' = box
  BY <1>1, <1>2, <1>3, BoxesStay DEF PlansOK
<1>4. ASSUME NEW i \in Idents, EditBox(i) PROVE Boxes'
  <2>1. PICK state : /\ IsConfiguration(platform, state)
                     /\ \A r \in Reviews : ~Reviewed(r) => Foreign(platform, r, state.rules)
                     /\ box' = [box EXCEPT ![i] = state]
    BY <1>4 DEF EditBox
  <2>2. \A j \in Idents : box'[j] = box[j] \/ box'[j] = state
    BY <2>1
  <2> QED
    BY <1>1, <2>1, <2>2 DEF PlansOK, Boxes, Reviewed
<1> QED
  BY <1>2, <1>3, <1>4 DEF PlansOK, ChangeAccount, ChangeDevice

LEMMA PlansCrash ==
  ASSUME StagesOK, KnownOK, PlansOK, Crash
  PROVE  PlansOK'
<1>1. UNCHANGED <<platform, box>>
  BY DEF Crash
<1>2. ASSUME NEW r \in Reviews PROVE receipt'[r].status = receipt[r].status /\ Planned(r)'
  <2>1. /\ {"status", "run"} \subseteq DOMAIN receipt[r] /\ Stage(receipt[r], worker[r], ansible[r]) /\ Planned(r)
        /\ receipt[r].status # "NONE" => {"plan", "base", "status", "run"} \subseteq DOMAIN receipt[r]
    BY RowShape DEF PlansOK
  <2>2. receipt'[r] = receipt[r] \/ (receipt[r].run = "RUNNING" /\ receipt'[r] = [receipt[r] EXCEPT !.run = "INTERRUPTED"])
    BY DEF Crash
  <2>3. receipt'[r].status = receipt[r].status /\ (receipt'[r] = receipt[r] \/ RowKept(r))
    BY <2>1, <2>2 DEF RowKept, Stage
  <2>4. Afresh(r)
    BY DEF Crash, At, Afresh, Idle
  <2> QED
    BY <1>1, <2>1, <2>3, <2>4, PlannedStays
<1> QED
  BY <1>1, <1>2, BoxesStay DEF PlansOK

LEMMA PlansStep == StagesOK /\ KnownOK /\ PlansOK /\ [Next]_vars => PlansOK'
<1> SUFFICES ASSUME StagesOK, KnownOK, PlansOK, [Next]_vars PROVE PlansOK'
  OBVIOUS
<1>1. ASSUME NEW r \in Reviews, NEW u \in Users, NEW changes \in Requests[platform], Review(r, u, changes) PROVE PlansOK'
  <2>1. receipt' = receipt /\ platform' = platform
    BY <1>1 DEF Review
  <2> QED
    BY <1>1, <2>1, CalmRequests, PlannedReview, PlansOfOne
<1>2. ASSUME NEW r \in Reviews, ReadRules(r) PROVE PlansOK'
  <2>1. receipt' = receipt /\ platform' = platform
    BY <1>2 DEF ReadRules
  <2> QED
    BY <1>2, <2>1, CalmRequests, PlannedReadRules, PlansOfOne
<1>3. ASSUME NEW r \in Reviews, ReviewEnds(r) PROVE PlansOK'
  <2>1. platform' = platform
    BY <1>3 DEF ReviewEnds
  <2> QED
    BY <1>3, <2>1, CalmRequests, PlannedReviewEnds, PlansOfOne
<1>4. ASSUME NEW r \in Reviews, Apply(r) \/ Claim(r) \/ Cancel(r) \/ DropCancelled(r) PROVE PlansOK'
  <2>1. platform' = platform
    BY <1>4 DEF Apply, Claim, Cancel, DropCancelled
  <2> QED
    BY <1>4, <2>1, CalmRequests, PlannedRequest, PlansOfOne
<1>5. ASSUME NEW r \in Reviews,
             \/ Start(r) \/ ReadBefore(r) \/ Capture(r) \/ ReadAgain(r) \/ Recheck(r)
             \/ Launch(r) \/ AnsibleEnds(r) \/ Verify(r) \/ Breaks(r) \/ OrphanEnds(r)
      PROVE  PlansOK'
  <2>1. platform' = platform
    BY <1>5 DEF Start, ReadBefore, Capture, ReadAgain, Recheck, Launch, AnsibleEnds, Verify, Breaks, OrphanEnds
  <2> QED
    BY <1>5, <2>1, CalmExecutions, PlannedExecution, PlansOfOne
<1>6. ASSUME NEW r \in Reviews, Send(r) PROVE PlansOK'
  BY <1>6, PlansSend
<1>7. CASE \/ \E u \in Users : ChangeAccount(u)
           \/ ChangeDevice
           \/ \E i \in Idents : EditBox(i)
  BY <1>7, PlansOthers
<1>8. ASSUME NEW r \in Reviews, Expire(r) PROVE PlansOK'
  <2>1. UNCHANGED <<platform, box>>
    BY <1>8 DEF Expire, Others
  <2>2. Planned(r)' /\ (receipt'[r].status = "NONE" => receipt[r].status = "NONE")
    BY <1>8, PlannedRequest
  <2>3. \A s \in Reviews \ {r} : receipt'[s] = receipt[s] /\ worker'[s] = worker[s]
    BY <1>8, RequestsAreOf DEF OnlyOf
  <2>4. \A s \in Reviews : Planned(s)' /\ (receipt'[s].status = "NONE" => receipt[s].status = "NONE")
    BY <2>1, <2>2, <2>3, PlannedStays DEF PlansOK
  <2> QED
    BY <2>1, <2>4, BoxesStay DEF PlansOK
<1>9. CASE Crash
  BY <1>9, PlansCrash
<1>10. CASE UNCHANGED vars
  BY <1>10 DEF vars, PlansOK, Boxes, Planned, Reading
<1> QED
  BY <1>1, <1>2, <1>3, <1>4, <1>5, <1>6, <1>7, <1>8, <1>9, <1>10 DEF Next

(***************************************************************************)
(* The status of the rows, and what a result says of the device.           *)
(***************************************************************************)
\* What the reviewer was shown as the configuration after the change.
Exact(r) == [receipt[r].base EXCEPT !.rules = Final(platform, receipt[r].plan.items, receipt[r].base.rules)]

\* The status a run has its review in.
StatusOf(r) ==
    /\ receipt[r].run = "NONE" => receipt[r].status \in {"NONE", "REVIEWED"}
    /\ receipt[r].run = "PENDING" => receipt[r].status = "QUEUED"
    /\ receipt[r].run = "RUNNING" => receipt[r].status \in {"QUEUED", "APPLYING", "VERIFYING"}
    /\ receipt[r].status \in {"REVIEWED", "QUEUED"} => ansible[r].launched = 0
    /\ worker[r].step \in {"launch", "ansible"} => receipt[r].status = "APPLYING"
    /\ worker[r].step = "after" => receipt[r].status = "VERIFYING"

Results == {"SUCCESS", "PARTIAL", "CANCELLED"}

\* What verification sees and concludes, unless the device changed since, or is another: nothing is sent any more.
OutcomeOf(r) ==
    /\ worker[r].step = "after" \/ receipt[r].run \in Results => ~ansible[r].on
    /\ "result" \notin since[r] =>
        /\ worker[r].step = "after" =>
            worker[r].seen = "rules" /\ worker[r].ident = SentTo(r) /\ worker[r].rules = box[SentTo(r)].rules
        /\ receipt[r].run = "SUCCESS" => box[SentTo(r)] = Exact(r)
        /\ receipt[r].run = "PARTIAL" => box[SentTo(r)] # Exact(r)
        /\ receipt[r].run = "CANCELLED" => ansible[r].launched = 0 \/ box[SentTo(r)] = receipt[r].base

ResultsOK == \A r \in Reviews : StatusOf(r) /\ OutcomeOf(r)

LEMMA ResultsInit == Init => ResultsOK
BY DEF Init, ResultsOK, StatusOf, OutcomeOf, Results, Unused, Idle, Off

\* A run without a result, that is not verified either.
LEMMA NoOutcome ==
  ASSUME NEW r \in Reviews, receipt'[r].run \notin Results, worker'[r].step # "after"
  PROVE  OutcomeOf(r)'
BY DEF OutcomeOf, Results

\* A result stays as long as whatever changes the device is counted.
LEMMA OutcomeStays ==
  ASSUME NEW r \in Reviews, OutcomeOf(r), UNCHANGED platform, ansible'[r] = ansible[r],
         receipt'[r].run = receipt[r].run, receipt'[r].plan = receipt[r].plan, receipt'[r].base = receipt[r].base,
         worker'[r] = worker[r] \/ worker'[r].step # "after",
         "result" \in since[r] => "result" \in since'[r],
         "result" \in since'[r] \/ UNCHANGED box
  PROVE  OutcomeOf(r)'
BY DEF OutcomeOf, SentTo, Exact

LEMMA ResultsOfOne ==
  ASSUME ResultsOK, NEW r \in Reviews, CalmOf(r), platform' = platform, StatusOf(r)', OutcomeOf(r)'
  PROVE  ResultsOK'
<1>1. ASSUME NEW s \in Reviews \ {r} PROVE StatusOf(s)' /\ OutcomeOf(s)'
  <2>1. receipt'[s] = receipt[s] /\ worker'[s] = worker[s] /\ ansible'[s] = ansible[s] /\ since'[s] = since[s] /\ box' = box
    BY DEF CalmOf, OnlyOf
  <2> QED
    BY <2>1, OutcomeStays DEF ResultsOK, StatusOf
<1> QED
  BY <1>1 DEF ResultsOK

LEMMA ResultRequest ==
  ASSUME StagesOK, KnownOK, ResultsOK, NEW r \in Reviews,
         \/ \E u \in Users, changes \in Requests[platform] : Review(r, u, changes)
         \/ ReadRules(r) \/ ReviewEnds(r) \/ Apply(r) \/ Claim(r) \/ Cancel(r) \/ DropCancelled(r)
  PROVE  StatusOf(r)' /\ OutcomeOf(r)'
<1>1. /\ Stage(receipt[r], worker[r], ansible[r]) /\ Shape(r) /\ StatusOf(r) /\ OutcomeOf(r)
      /\ {"status", "run"} \subseteq DOMAIN receipt[r]
      /\ Stage(receipt[r], worker[r], ansible[r])'
  BY RowShape, StagesStep DEF ResultsOK, StagesOK, Next
<1>2. UNCHANGED <<platform, ansible, box>> /\ (~ReadRules(r) => UNCHANGED since)
  BY DEF Review, ReadRules, ReviewEnds, Apply, Claim, Cancel, DropCancelled
<1>3. ASSUME NEW u \in Users, NEW changes \in Requests[platform], Review(r, u, changes)
      PROVE  StatusOf(r)' /\ OutcomeOf(r)'
  <2>1. receipt' = receipt /\ receipt[r].status = "NONE" /\ receipt[r].run = "NONE"
    BY <1>1, <1>3 DEF Review, Stage
  <2>2. worker'[r].step = "review"
    BY <1>3 DEF Review, Busy, StagesOK
  <2> QED
    BY <1>1, <1>2, <2>1, <2>2, NoOutcome DEF StatusOf, Results
<1>4. CASE ReadRules(r)
  <2>1. /\ receipt' = receipt /\ worker'[r].step = worker[r].step
        /\ worker[r].step = "review" \/ worker[r].step \in Before \union After
    BY <1>4 DEF ReadRules, StagesOK, Before, After
  <2>2. receipt[r].run \in {"NONE", "RUNNING"} /\ {"step", "seen", "rules", "ident", "saved"} \subseteq DOMAIN worker[r]
    BY <1>1, <2>1, RowShape DEF Stage, Before, After
  <2>3. StatusOf(r)'
    BY <1>1, <1>2, <2>1 DEF StatusOf
  <2>4. CASE worker[r].step # "after"
    BY <2>1, <2>2, <2>3, <2>4, NoOutcome DEF Results
  <2>5. CASE worker[r].step = "after"
    <3>1. /\ worker'[r].step = "after" /\ worker'[r].seen = "rules" /\ worker'[r].ident = Reached(r)
          /\ worker'[r].rules = box[Reached(r)].rules
      BY <1>4, <2>2, <2>5 DEF ReadRules, StagesOK
    <3>2. "result" \notin since[r] \/ "result" \in since'[r] \/ Reached(r) = SentTo(r)
      BY <1>4, <2>5 DEF ReadRules, LooksAt, At, KnownOK, Surroundings
    <3>3. "result" \notin since[r] => FALSE
      BY <1>1, <1>4, <2>5 DEF OutcomeOf, ReadRules
    <3>4. SentTo(r)' = SentTo(r)
      BY <1>2, <2>1 DEF SentTo
    <3>5. OutcomeOf(r)'
      BY <1>1, <1>2, <2>1, <2>2, <2>5, <3>1, <3>2, <3>3, <3>4 DEF OutcomeOf, Results
    <3> QED
      BY <2>3, <3>5
  <2> QED
    BY <2>4, <2>5
<1>5. CASE ReviewEnds(r)
  <2>1. ansible[r].launched = 0 /\ receipt[r].run = "NONE" /\ receipt[r].status = "NONE"
    BY <1>1, <1>5 DEF ReviewEnds, Read, At, Stage
  <2>2. worker'[r].step = "idle"
    BY <1>5 DEF ReviewEnds, Idle, StagesOK
  <2>3. receipt'[r] = receipt[r] \/ (receipt'[r].status = "REVIEWED" /\ receipt'[r].run = "NONE")
    BY <1>5 DEF ReviewEnds, StagesOK
  <2> QED
    BY <1>1, <1>2, <2>1, <2>2, <2>3, NoOutcome DEF StatusOf, Results
<1>6. CASE Apply(r)
  BY <1>1, <1>2, <1>6, OutcomeStays DEF Apply, StatusOf
<1>7. CASE Claim(r)
  <2>1. CASE receipt' = receipt
    BY <1>1, <1>2, <1>7, <2>1, OutcomeStays DEF Claim, StatusOf
  <2>2. CASE receipt' # receipt
    <3>1. /\ receipt[r].status = "REVIEWED" /\ receipt[r].run = "NONE" /\ worker' = worker
          /\ receipt'[r].status = "QUEUED" /\ receipt'[r].run = "PENDING"
      BY <1>1, <1>7, <2>2 DEF Claim, StagesOK
    <3>2. worker[r].step = "idle" /\ ansible[r].launched = 0
      BY <1>1, <3>1 DEF Stage
    <3> QED
      BY <1>2, <3>1, <3>2, NoOutcome DEF StatusOf, Results
  <2> QED
    BY <2>1, <2>2
<1>8. CASE Cancel(r)
  <2>1. /\ receipt'[r].status = receipt[r].status /\ receipt'[r].run = receipt[r].run /\ worker' = worker
        /\ receipt'[r].plan = receipt[r].plan /\ receipt'[r].base = receipt[r].base
    BY <1>1, <1>8 DEF Cancel, StagesOK, Shape, Stage
  <2> QED
    BY <1>1, <1>2, <1>8, <2>1, OutcomeStays DEF StatusOf, Cancel
<1>9. CASE DropCancelled(r)
  <2>1. /\ receipt'[r].status = receipt[r].status /\ receipt'[r].run = "CANCELLED" /\ worker' = worker
        /\ receipt[r].run = "PENDING"
    BY <1>1, <1>9 DEF DropCancelled, StagesOK
  <2>2. ansible[r].launched = 0 /\ ~ansible[r].on /\ worker[r].step # "after"
    BY <1>1, <2>1 DEF Stage, Shape, After
  <2> QED
    BY <1>1, <1>2, <2>1, <2>2 DEF StatusOf, OutcomeOf
<1> QED
  BY <1>3, <1>4, <1>5, <1>6, <1>7, <1>8, <1>9

LEMMA ResultFails ==
  ASSUME StagesOK, KnownOK, ResultsOK, NEW r \in Reviews, Fails(r), ansible'[r] = ansible[r]
  PROVE  StatusOf(r)' /\ OutcomeOf(r)'
<1>1. {"status", "run"} \subseteq DOMAIN receipt[r] /\ StatusOf(r)
  BY RowShape DEF ResultsOK
<1>2. receipt'[r].run = "FAILED" /\ receipt'[r].status = receipt[r].status /\ worker'[r].step = "idle"
  BY <1>1 DEF Fails, Finishes, StagesOK, Idle
<1> QED
  BY <1>1, <1>2, NoOutcome DEF StatusOf, Results

\* The verification: SUCCESS is what the reviewer was shown, PARTIAL is not, and CANCELLED is the base.
LEMMA ResultVerify ==
  ASSUME StagesOK, KnownOK, PlansOK, ResultsOK, NEW r \in Reviews, Verify(r)
  PROVE  StatusOf(r)' /\ OutcomeOf(r)'
<1> DEFINE after   == Observed(r)
           items   == receipt[r].plan.items
           base    == receipt[r].base
           partly  == (\E k \in DOMAIN items : Outcome(platform, items[k], after)) \/ after # base
           outcome == IF Complete(platform, items, base, after) THEN "SUCCESS"
                      ELSE IF partly THEN "PARTIAL"
                      ELSE IF receipt[r].cancel THEN "CANCELLED" ELSE "FAILED"
<1>1. worker[r].step = "after" /\ worker[r].seen = "rules" /\ UNCHANGED <<platform, ansible, since, box>>
  BY DEF Verify, Read, At
<1>2. /\ receipt[r].status = "VERIFYING" /\ receipt[r].run = "RUNNING" /\ StatusOf(r) /\ OutcomeOf(r)
      /\ {"plan", "base", "status", "run"} \subseteq DOMAIN receipt[r]
  BY <1>1, RowShape DEF ResultsOK, StatusOf, After
<1>3. Complete(platform, items, base, after) <=> after = Exact(r)
  <2>1. Sound(platform, r, items, base) /\ IsConfiguration(platform, after) /\ platform \in {"mikrotik", "cisco"}
    BY <1>1, <1>2, ObservedConfiguration DEF PlansOK, Planned, Boxes
  <2> QED
    BY <2>1, VerificationExact DEF Exact
<1>4. /\ \/ receipt' = [receipt EXCEPT ![r].run = "FAILED"]
         \/ receipt' = [receipt EXCEPT ![r].run = outcome, ![r].status = outcome]
      /\ worker' = [worker EXCEPT ![r] = Idle]
  BY DEF Verify
<1>5. /\ outcome \in {"SUCCESS", "PARTIAL", "CANCELLED", "FAILED"}
      /\ outcome = "SUCCESS" => after = Exact(r)
      /\ outcome = "PARTIAL" => after # Exact(r)
      /\ outcome = "CANCELLED" => after = base
  BY <1>3
<1>6. /\ worker'[r].step = "idle" /\ ~ansible[r].on
      /\ "result" \notin since[r] => box[SentTo(r)] = after
  <2>1. worker'[r].step = "idle" /\ ~ansible[r].on
    BY <1>1, <1>2, <1>4 DEF StagesOK, Idle, OutcomeOf
  <2>2. worker[r].ident \in Idents
    BY <1>1 DEF PlansOK, Planned, Reading
  <2>3. "result" \notin since[r] => worker[r].ident = SentTo(r) /\ worker[r].rules = box[worker[r].ident].rules
    BY <1>1, <1>2 DEF OutcomeOf
  <2> QED
    BY <2>1, <2>2, <2>3, ObservedIs DEF KnownOK
<1> HIDE DEF outcome, after
<1>7. CASE receipt' = [receipt EXCEPT ![r].run = "FAILED"]
  <2>1. receipt'[r].run = "FAILED" /\ receipt'[r].status = "VERIFYING"
    BY <1>2, <1>7 DEF StagesOK
  <2> QED
    BY <1>6, <2>1, NoOutcome DEF StatusOf, Results
<1>8. CASE receipt' = [receipt EXCEPT ![r].run = outcome, ![r].status = outcome]
  <2>1. /\ receipt'[r].run = outcome /\ receipt'[r].status = outcome
        /\ receipt'[r].plan = receipt[r].plan /\ receipt'[r].base = base
    BY <1>2, <1>8 DEF StagesOK
  <2>2. Exact(r)' = Exact(r) /\ SentTo(r)' = SentTo(r)
    BY <1>1, <2>1 DEF Exact, SentTo
  <2>3. StatusOf(r)'
    BY <1>5, <1>6, <2>1 DEF StatusOf
  <2>4. OutcomeOf(r)'
    BY <1>1, <1>5, <1>6, <2>1, <2>2 DEF OutcomeOf
  <2> QED
    BY <2>3, <2>4
<1> QED
  BY <1>4, <1>7, <1>8

LEMMA ResultExecution ==
  ASSUME StagesOK, KnownOK, PlansOK, ResultsOK, NEW r \in Reviews,
         \/ Start(r) \/ ReadBefore(r) \/ Capture(r) \/ ReadAgain(r) \/ Recheck(r)
         \/ Launch(r) \/ AnsibleEnds(r) \/ Verify(r) \/ Breaks(r) \/ OrphanEnds(r)
  PROVE  StatusOf(r)' /\ OutcomeOf(r)'
<1>1. /\ Stage(receipt[r], worker[r], ansible[r]) /\ Shape(r) /\ StatusOf(r) /\ OutcomeOf(r)
      /\ {"status", "run"} \subseteq DOMAIN receipt[r]
      /\ worker[r].step \in Before \union After => receipt[r].status # "NONE" /\ receipt[r].run = "RUNNING"
  BY RowShape DEF ResultsOK
<1>2. UNCHANGED <<platform, box>>
  BY DEF Start, ReadBefore, Capture, ReadAgain, Recheck, Launch, AnsibleEnds, Verify, Breaks, OrphanEnds
<1>3. CASE Start(r)
  <2>1. receipt[r].run = "PENDING" /\ receipt[r].status = "QUEUED" /\ ansible[r].launched = 0 /\ ansible' = ansible
        /\ worker[r].step = "idle"
    BY <1>1, <1>3 DEF Start, StatusOf, Stage, Before, After
  <2>2. receipt'[r].run \in {"RUNNING", "FAILED"} /\ receipt'[r].status = "QUEUED"
    BY <1>1, <1>3, <2>1 DEF Start, StagesOK
  <2>3. worker'[r].step \in {"idle", "before"}
    BY <1>3, <2>1 DEF Start, StagesOK, Busy
  <2> QED
    BY <2>1, <2>2, <2>3, NoOutcome DEF StatusOf, Results
<1>4. CASE ReadBefore(r) \/ Capture(r) \/ ReadAgain(r)
  <2>1. worker[r].step \in Before /\ ansible' = ansible /\ ansible[r].launched = 0 /\ receipt[r].run = "RUNNING"
    BY <1>1, <1>4 DEF ReadBefore, Capture, ReadAgain, Read, At, Before, Stage
  <2>2. CASE Fails(r)
    BY <2>1, <2>2, ResultFails
  <2>3. CASE ~Fails(r)
    <3>1. receipt' = receipt /\ worker'[r].step \in {"capture", "again", "recheck"}
      BY <1>1, <1>4, <2>3 DEF ReadBefore, Capture, ReadAgain, Goes, StagesOK, Stage
    <3> QED
      BY <1>1, <2>1, <3>1, NoOutcome DEF StatusOf, Results
  <2> QED
    BY <2>2, <2>3
<1>5. CASE Recheck(r)
  <2>1. ansible' = ansible /\ ansible[r].launched = 0 /\ ~ansible[r].on /\ receipt[r].run = "RUNNING"
    BY <1>1, <1>5 DEF Recheck, At, Before, Stage, Shape
  <2>2. CASE Fails(r)
    BY <2>1, <2>2, ResultFails
  <2>3. CASE Finishes(r, "CANCELLED", "CANCELLED")
    <3>1. receipt'[r].run = "CANCELLED" /\ receipt'[r].status = "CANCELLED" /\ worker'[r].step = "idle"
      BY <1>1, <2>3 DEF Finishes, StagesOK, Idle
    <3> QED
      BY <2>1, <3>1 DEF StatusOf, OutcomeOf
  <2>4. CASE Goes(r, "launch") /\ receipt' = [receipt EXCEPT ![r].status = "APPLYING"]
    <3>1. receipt'[r].run = "RUNNING" /\ receipt'[r].status = "APPLYING" /\ worker'[r].step = "launch"
      BY <1>1, <2>1, <2>4 DEF Goes, StagesOK, Stage
    <3> QED
      BY <2>1, <3>1, NoOutcome DEF StatusOf, Results
  <2> QED
    BY <1>5, <2>2, <2>3, <2>4 DEF Recheck
<1>6. CASE Launch(r)
  <2>1. receipt' = receipt /\ receipt[r].run = "RUNNING" /\ receipt[r].status = "APPLYING"
    BY <1>1, <1>6 DEF Launch, At, Before, StatusOf
  <2>2. worker'[r].step = "ansible"
    BY <1>1, <1>6 DEF Launch, StagesOK, Stage
  <2> QED
    BY <2>1, <2>2, NoOutcome DEF StatusOf, Results
<1>7. CASE OrphanEnds(r)
  <2>1. UNCHANGED <<receipt, worker>> /\ ansible'[r].launched = ansible[r].launched /\ ansible[r].on
    BY <1>1, <1>7 DEF OrphanEnds, StagesOK, Stage
  <2> QED
    BY <1>1, <2>1, NoOutcome DEF StatusOf, OutcomeOf
<1>8. CASE AnsibleEnds(r)
  <2>1. receipt[r].run = "RUNNING"
    BY <1>1, <1>8 DEF AnsibleEnds, At, Before, After
  <2>2. receipt'[r].run = "RUNNING" /\ receipt'[r].status = "VERIFYING"
    BY <1>1, <1>8, <2>1 DEF AnsibleEnds, StagesOK
  <2>3. worker'[r].step = "after"
    BY <1>1, <1>8 DEF AnsibleEnds, Goes, StagesOK, Stage
  <2>4. ~ansible'[r].on /\ "result" \in since'[r]
    BY <1>1, <1>8 DEF AnsibleEnds, StagesOK, Shape, KnownOK, Surroundings
  <2> QED
    BY <2>2, <2>3, <2>4 DEF StatusOf, OutcomeOf
<1>9. CASE Verify(r)
  BY <1>9, ResultVerify
<1>10. CASE Breaks(r)
  <2>1. ansible' = ansible
    BY <1>10 DEF Breaks
  <2>2. CASE Fails(r)
    BY <2>1, <2>2, ResultFails
  <2>3. CASE At(r, "review") /\ worker' = [worker EXCEPT ![r] = Idle] /\ UNCHANGED receipt
    <3>1. receipt[r].run = "NONE" /\ worker'[r].step = "idle"
      BY <1>1, <2>3 DEF At, Stage, StagesOK, Idle
    <3> QED
      BY <1>1, <2>1, <2>3, <3>1, NoOutcome DEF StatusOf, Results
  <2>4. CASE Finishes(r, "APPLIED_UNVERIFIED", "APPLIED_UNVERIFIED")
    <3>1. receipt'[r].run = "APPLIED_UNVERIFIED" /\ receipt'[r].status = "APPLIED_UNVERIFIED" /\ worker'[r].step = "idle"
      BY <1>1, <2>4 DEF Finishes, StagesOK, Idle
    <3> QED
      BY <3>1, NoOutcome DEF StatusOf, Results
  <2> QED
    BY <1>10, <2>2, <2>3, <2>4 DEF Breaks
<1> QED
  BY <1>3, <1>4, <1>5, <1>6, <1>7, <1>8, <1>9, <1>10

\* A command changes no result of its own receipt, which has none, and the others count it.
LEMMA ResultsSend ==
  ASSUME StagesOK, OneHolder, KnownOK, ResultsOK, NEW r \in Reviews, Send(r)
  PROVE  ResultsOK'
<1>1. ASSUME NEW s \in Reviews PROVE StatusOf(s)' /\ OutcomeOf(s)'
  <2>1. /\ Stage(receipt[s], worker[s], ansible[s]) /\ Shape(s) /\ StatusOf(s) /\ OutcomeOf(s)
        /\ UNCHANGED <<platform, receipt, worker>>
    BY RowShape DEF ResultsOK, Send
  <2>2. ansible'[s].launched = ansible[s].launched /\ StatusOf(s)'
    BY <2>1 DEF Send, StagesOK, Stage, StatusOf
  <2>3. CASE s = r
    <3>1. ansible[r].on
      BY DEF Send
    <3> QED
      BY <2>1, <2>2, <2>3, <3>1, NoOutcome DEF OutcomeOf
  <2>4. CASE s # r
    <3>1. ansible'[s] = ansible[s]
      BY <2>4 DEF Send, StagesOK
    <3>2. CASE At(s, "idle") \/ ~At(r, "ansible")
      <4>1. "result" \in since'[s]
        BY <2>4, <3>2 DEF Send
      <4> QED
        BY <2>1, <2>2, <3>1, <4>1, OutcomeStays
    <3>3. CASE ~At(s, "idle") /\ At(r, "ansible")
      BY <2>4, <3>3 DEF OneHolder, At
    <3> QED
      BY <3>2, <3>3
  <2> QED
    BY <2>3, <2>4
<1> QED
  BY <1>1 DEF ResultsOK

LEMMA ResultsOthers ==
  ASSUME StagesOK, KnownOK, ResultsOK,
         \/ \E u \in Users : ChangeAccount(u)
         \/ ChangeDevice
         \/ \E i \in Idents : EditBox(i)
         \/ \E r \in Reviews : Expire(r)
  PROVE  ResultsOK'
<1>1. UNCHANGED <<platform, worker, ansible>>
  BY DEF ChangeAccount, ChangeDevice, EditBox, Expire, Others
<1>2. ASSUME NEW r \in Reviews PROVE StatusOf(r)' /\ OutcomeOf(r)'
  <2>1. /\ Stage(receipt[r], worker[r], ansible[r]) /\ StatusOf(r) /\ OutcomeOf(r)
        /\ receipt[r].status # "NONE" => {"plan", "base", "status", "run"} \subseteq DOMAIN receipt[r]
    BY RowShape DEF ResultsOK
  <2>2. /\ receipt'[r].status = receipt[r].status /\ receipt'[r].run = receipt[r].run
        /\ receipt[r].status # "NONE" => receipt'[r].plan = receipt[r].plan /\ receipt'[r].base = receipt[r].base
    BY <2>1 DEF ChangeAccount, ChangeDevice, EditBox, Expire, StagesOK, Stage
  <2>3. StatusOf(r)'
    BY <1>1, <2>1, <2>2 DEF StatusOf
  <2>4. CASE receipt[r].run \in {"NONE", "PENDING"}
    <3>1. worker[r].step # "after"
      BY <2>1, <2>4 DEF Stage, After
    <3> QED
      BY <1>1, <2>2, <2>3, <2>4, <3>1, NoOutcome DEF Results
  <2>5. CASE receipt[r].run \notin {"NONE", "PENDING"}
    <3>1. \A what : Disturbs(what) => since'[r] = since[r] \union what
      BY <2>5 DEF Disturbs
    <3>2. /\ "result" \in since[r] => "result" \in since'[r]
          /\ "result" \in since'[r] \/ UNCHANGED box
      BY <3>1 DEF ChangeAccount, ChangeDevice, EditBox, Expire, Others
    <3>3. receipt[r].status # "NONE"
      BY <2>1, <2>5 DEF Stage
    <3> QED
      BY <1>1, <2>1, <2>2, <2>3, <3>2, <3>3, OutcomeStays
  <2> QED
    BY <2>4, <2>5
<1> QED
  BY <1>2 DEF ResultsOK

LEMMA ResultsCrash ==
  ASSUME StagesOK, KnownOK, ResultsOK, Crash
  PROVE  ResultsOK'
<1>1. ASSUME NEW r \in Reviews PROVE StatusOf(r)' /\ OutcomeOf(r)'
  <2>1. /\ Stage(receipt[r], worker[r], ansible[r]) /\ StatusOf(r) /\ OutcomeOf(r)
        /\ receipt[r].status # "NONE" => {"plan", "base", "status", "run"} \subseteq DOMAIN receipt[r]
    BY RowShape DEF ResultsOK
  <2>2. UNCHANGED <<platform, ansible, since, box>> /\ worker'[r].step = "idle"
    BY DEF Crash, At, Idle
  <2>3. CASE receipt[r].run = "RUNNING"
    <3>1. receipt'[r].run = "INTERRUPTED" /\ receipt'[r].status = receipt[r].status
      BY <2>1, <2>3 DEF Crash, Stage
    <3> QED
      BY <2>1, <2>2, <3>1, NoOutcome DEF StatusOf, Results
  <2>4. CASE receipt[r].run # "RUNNING"
    <3>1. receipt'[r] = receipt[r]
      BY <2>4 DEF Crash
    <3> QED
      BY <2>1, <2>2, <3>1, OutcomeStays DEF StatusOf
  <2> QED
    BY <2>3, <2>4
<1> QED
  BY <1>1 DEF ResultsOK

LEMMA ResultsStep == StagesOK /\ OneHolder /\ KnownOK /\ PlansOK /\ ResultsOK /\ [Next]_vars => ResultsOK'
<1> SUFFICES ASSUME StagesOK, OneHolder, KnownOK, PlansOK, ResultsOK, [Next]_vars PROVE ResultsOK'
  OBVIOUS
<1>1. ASSUME NEW r \in Reviews,
             \/ \E u \in Users, changes \in Requests[platform] : Review(r, u, changes)
             \/ ReadRules(r) \/ ReviewEnds(r) \/ Apply(r) \/ Claim(r) \/ Cancel(r) \/ DropCancelled(r)
      PROVE  ResultsOK'
  <2>1. platform' = platform
    BY <1>1 DEF Review, ReadRules, ReviewEnds, Apply, Claim, Cancel, DropCancelled
  <2> QED
    BY <1>1, <2>1, CalmRequests, ResultRequest, ResultsOfOne
<1>2. ASSUME NEW r \in Reviews,
             \/ Start(r) \/ ReadBefore(r) \/ Capture(r) \/ ReadAgain(r) \/ Recheck(r)
             \/ Launch(r) \/ AnsibleEnds(r) \/ Verify(r) \/ Breaks(r) \/ OrphanEnds(r)
      PROVE  ResultsOK'
  <2>1. platform' = platform
    BY <1>2 DEF Start, ReadBefore, Capture, ReadAgain, Recheck, Launch, AnsibleEnds, Verify, Breaks, OrphanEnds
  <2> QED
    BY <1>2, <2>1, CalmExecutions, ResultExecution, ResultsOfOne
<1>3. ASSUME NEW r \in Reviews, Send(r) PROVE ResultsOK'
  BY <1>3, ResultsSend
<1>4. CASE \/ \E u \in Users : ChangeAccount(u)
           \/ ChangeDevice
           \/ \E i \in Idents : EditBox(i)
           \/ \E r \in Reviews : Expire(r)
  BY <1>4, ResultsOthers
<1>5. CASE Crash
  BY <1>5, ResultsCrash
<1>6. CASE UNCHANGED vars
  BY <1>6 DEF vars, ResultsOK, StatusOf, OutcomeOf, Exact, SentTo
<1> QED
  BY <1>1, <1>2, <1>3, <1>4, <1>5, <1>6 DEF Next

\* execute, review_detail and history: whatever is asked for, whatever others do to the device, its record and the
\* accounts, and whenever the process is killed or a reading fails, a receipt that is shown as waiting or expired
\* has sent nothing; once it is shown as CANCELLED, SUCCESS or PARTIAL, the device its commands went to is as
\* reviewed, has exactly the configuration the reviewer was shown, or has not, unless others changed that device
\* after it was verified, or it was edited in the inventory in between, so that another one was verified.
THEOREM ResultsShownAsHappened == Spec => []ShownAsHappened
<1>1. StagesOK /\ RowsTyped /\ ResultsOK => ShownAsHappened
  <2> SUFFICES ASSUME StagesOK, RowsTyped, ResultsOK, NEW r \in Reviews
               PROVE  /\ Shown(r) \in {"REVIEWED", "EXPIRED", "PENDING", "QUEUED"} => ansible[r].launched = 0
                      /\ Shown(r) = "CANCELLED" =>
                            ansible[r].launched = 0 \/ "result" \in since[r] \/ box[SentTo(r)] = receipt[r].base
                      /\ Shown(r) = "SUCCESS" => "result" \in since[r] \/ box[SentTo(r)] = Exact(r)
                      /\ Shown(r) = "PARTIAL" => "result" \in since[r] \/ box[SentTo(r)] # Exact(r)
    BY DEF ShownAsHappened, Exact
  <2>1. Stage(receipt[r], worker[r], ansible[r]) /\ StatusOf(r) /\ OutcomeOf(r) /\ receipt[r].run \in Runs
    BY DEF StagesOK, ResultsOK, RowsTyped
  <2>2. CASE receipt[r].run = "NONE"
    <3>1. Shown(r) \in {"NONE", "REVIEWED", "EXPIRED"} /\ ansible[r].launched = 0
      BY <2>1, <2>2 DEF Shown, StatusOf, Stage
    <3> QED
      BY <3>1
  <2>3. CASE receipt[r].run = "RUNNING"
    <3>1. Shown(r) = receipt[r].status /\ Shown(r) \in {"QUEUED", "APPLYING", "VERIFYING"}
      BY <2>1, <2>3 DEF Shown, StatusOf
    <3> QED
      BY <2>1, <3>1 DEF StatusOf
  <2>4. CASE receipt[r].run \notin {"NONE", "RUNNING"}
    <3>1. Shown(r) = receipt[r].run
      BY <2>4 DEF Shown
    <3>2. Shown(r) \in {"REVIEWED", "EXPIRED", "PENDING", "QUEUED"} => receipt[r].run = "PENDING"
      BY <2>1, <3>1 DEF Runs
    <3> QED
      BY <2>1, <3>1, <3>2 DEF OutcomeOf, Stage
  <2> QED
    BY <2>2, <2>3, <2>4
<1>2. Typed => RowsTyped
  BY DEF Typed
<1> QED
  BY <1>1, StagesInit, StagesStep, HolderInit, HolderStep, KnownInit, KnownStep, PlansInit, PlansStep, ResultsInit, ResultsStep,
     TypedInit, <1>2, RowsStep, PTL DEF Spec

(***************************************************************************)
(* How far the execution of a plan is: unless others changed it, the       *)
(* reviewed device has the reviewed rules with the first items that were   *)
(* sent.                                                                   *)
(***************************************************************************)
\* The rules after the first n items.
FinalOf(r, n) == Final(platform, SubSeq(receipt[r].plan.items, 1, n), receipt[r].base.rules)

Progressed(r) ==
    ansible[r].launched > 0 =>
        /\ "to" \in DOMAIN ansible[r] /\ ansible[r].to \in Idents /\ ansible[r].sent \in 0..Len(receipt[r].plan.items)
        /\ ansible[r].to = receipt[r].plan.target /\ "rules" \notin since[r] =>
            box[ansible[r].to].rules = FinalOf(r, ansible[r].sent)

ProgressOK == \A r \in Reviews : Progressed(r)

\* A process that goes on with the same plan on the same device.
SameProcess(r) ==
    /\ DOMAIN ansible'[r] = DOMAIN ansible[r] /\ ansible'[r].launched = ansible[r].launched
    /\ ansible'[r].to = ansible[r].to /\ ansible'[r].sent = ansible[r].sent

LEMMA ProgressInit == Init => ProgressOK
BY DEF Init, ProgressOK, Progressed, Off

\* Nobody but the commands of a receipt and the edits of others changes a box, and what others do is in `since'.
LEMMA ProgressStays ==
  ASSUME StagesOK, KnownOK, NEW r \in Reviews, Progressed(r), platform' = platform, box' = box,
         "rules" \notin since'[r] => "rules" \notin since[r],
         ansible'[r].launched = ansible[r].launched,
         ansible[r].launched # 0 => SameProcess(r) /\ (RowKept(r) \/ receipt'[r] = receipt[r])
  PROVE  Progressed(r)'
<1>1. ansible[r].launched \in {0, 1}
  BY RowShape DEF Stage
<1> QED
  BY <1>1 DEF Progressed, RowKept, FinalOf, SameProcess

LEMMA ProgressOfOne ==
  ASSUME StagesOK, KnownOK, ProgressOK, NEW r \in Reviews, CalmOf(r), platform' = platform, Progressed(r)'
  PROVE  ProgressOK'
<1>1. ASSUME NEW s \in Reviews \ {r} PROVE Progressed(s)'
  BY <1>1, ProgressStays DEF ProgressOK, CalmOf, OnlyOf, SameProcess
<1> QED
  BY <1>1 DEF ProgressOK

\* After the launch the row keeps what was reviewed.
LEMMA LaunchedRow ==
  ASSUME StagesOK, KnownOK, NEW r \in Reviews,
         \/ \E u \in Users, changes \in Requests[platform] : Review(r, u, changes)
         \/ ReadRules(r) \/ ReviewEnds(r) \/ Apply(r) \/ Claim(r) \/ Cancel(r) \/ DropCancelled(r) \/ Expire(r)
  PROVE  /\ UNCHANGED <<platform, box, ansible>>
         /\ ansible[r].launched # 0 => RowKept(r) \/ receipt'[r] = receipt[r]
<1>1. Stage(receipt[r], worker[r], ansible[r]) /\ Shape(r) /\ {"status", "run"} \subseteq DOMAIN receipt[r]
  BY RowShape
<1>2. UNCHANGED <<platform, box, ansible>>
  BY DEF Review, ReadRules, ReviewEnds, Apply, Claim, Cancel, DropCancelled, Expire, Others
<1>3. ASSUME ansible[r].launched # 0 PROVE RowKept(r) \/ receipt'[r] = receipt[r]
  <2>1. receipt[r].run \notin {"NONE", "PENDING"} /\ receipt[r].status # "NONE" /\ {"plan", "base"} \subseteq DOMAIN receipt[r]
    BY <1>1, <1>3 DEF Stage, Shape
  <2>2. ~ReviewEnds(r) /\ ~DropCancelled(r)
    BY <1>1, <2>1 DEF ReviewEnds, Read, At, Stage, DropCancelled
  <2>3. CASE (\E u \in Users, changes \in Requests[platform] : Review(r, u, changes)) \/ ReadRules(r) \/ Apply(r)
    BY <2>3 DEF Review, ReadRules, Apply
  <2>4. CASE Claim(r) \/ Cancel(r) \/ Expire(r)
    BY <1>1, <2>1, <2>4 DEF Claim, Cancel, Expire, RowKept, StagesOK
  <2> QED
    BY <2>2, <2>3, <2>4
<1> QED
  BY <1>2, <1>3

LEMMA ProgressRequest ==
  ASSUME StagesOK, KnownOK, ProgressOK, NEW r \in Reviews,
         \/ \E u \in Users, changes \in Requests[platform] : Review(r, u, changes)
         \/ ReadRules(r) \/ ReviewEnds(r) \/ Apply(r) \/ Claim(r) \/ Cancel(r) \/ DropCancelled(r)
  PROVE  ProgressOK'
<1>1. /\ UNCHANGED <<platform, box, ansible>>
      /\ ansible[r].launched # 0 => RowKept(r) \/ receipt'[r] = receipt[r]
  BY LaunchedRow
<1>2. CalmOf(r)
  BY CalmRequests
<1>3. ansible[r].launched # 0 /\ "rules" \notin since'[r] => "rules" \notin since[r]
  <2>1. CASE ReadRules(r)
    <3>1. ansible[r].launched # 0 => worker[r].step \notin {"before", "again"}
      BY RowShape DEF Stage, Before
    <3>2. worker[r].step \notin {"before", "again"} => ("rules" \in since[r] => "rules" \in since'[r])
      BY <2>1 DEF ReadRules, LooksAt, At, KnownOK, Surroundings
    <3> QED
      BY <3>1, <3>2
  <2>2. CASE ~ReadRules(r)
    BY <2>2 DEF Review, ReviewEnds, Apply, Claim, Cancel, DropCancelled
  <2> QED
    BY <2>1, <2>2
<1>4. Progressed(r)'
  <2>1. CASE ansible[r].launched = 0
    BY <1>1, <2>1 DEF Progressed
  <2>2. CASE ansible[r].launched # 0
    BY <1>1, <1>3, <2>2, ProgressStays DEF ProgressOK, SameProcess
  <2> QED
    BY <2>1, <2>2
<1> QED
  BY <1>1, <1>2, <1>4, ProgressOfOne

\* At the launch nothing was sent, and the rules are the reviewed ones, unless others changed them.
LEMMA ProgressLaunch ==
  ASSUME StagesOK, KnownOK, PlansOK, ProgressOK, NEW r \in Reviews, Launch(r)
  PROVE  Progressed(r)'
<1>1. /\ worker[r].step = "launch" /\ UNCHANGED <<platform, box, receipt, since>>
      /\ ansible'[r].sent = 0 /\ ansible'[r].to = device.ident /\ "to" \in DOMAIN ansible'[r]
  BY DEF Launch, At, StagesOK
<1>2. receipt[r].status # "NONE"
  BY <1>1, RowShape DEF Before
<1>3. /\ Sound(platform, r, receipt[r].plan.items, receipt[r].base) /\ platform \in {"mikrotik", "cisco"}
      /\ device.ident \in Idents /\ RulesKnown(r)
  BY <1>2 DEF PlansOK, Planned, Boxes, KnownOK, Surroundings, Known
<1>4. FinalOf(r, 0) = receipt[r].base.rules
  BY <1>3, FinalNone DEF FinalOf
<1>5. 0 \in 0..Len(receipt[r].plan.items)
  BY <1>3, CompiledShape DEF Sound
<1>6. FinalOf(r, 0)' = FinalOf(r, 0)
  BY <1>1 DEF FinalOf
<1> QED
  BY <1>1, <1>3, <1>4, <1>5, <1>6 DEF Progressed, RulesKnown

LEMMA ProgressExecution ==
  ASSUME StagesOK, KnownOK, PlansOK, ProgressOK, NEW r \in Reviews,
         \/ Start(r) \/ ReadBefore(r) \/ Capture(r) \/ ReadAgain(r) \/ Recheck(r)
         \/ AnsibleEnds(r) \/ Verify(r) \/ Breaks(r) \/ OrphanEnds(r)
  PROVE  Progressed(r)'
<1>1. /\ Stage(receipt[r], worker[r], ansible[r]) /\ Shape(r)
      /\ receipt[r].status # "NONE" => {"plan", "base", "status", "run"} \subseteq DOMAIN receipt[r]
  BY RowShape
<1>2. UNCHANGED <<platform, box>>
  BY DEF Start, ReadBefore, Capture, ReadAgain, Recheck, AnsibleEnds, Verify, Breaks, OrphanEnds
<1>3. "rules" \notin since'[r] => "rules" \notin since[r]
  BY DEF Start, ReadBefore, Capture, ReadAgain, Recheck, AnsibleEnds, Verify, Breaks, OrphanEnds, KnownOK, Surroundings
<1>4. /\ ansible'[r].launched = ansible[r].launched
      /\ "to" \in DOMAIN ansible[r] => SameProcess(r)
  BY <1>1 DEF Start, ReadBefore, Capture, ReadAgain, Recheck, AnsibleEnds, Verify, Breaks, OrphanEnds, StagesOK,
              Stage, Shape, SameProcess
<1>5. CASE ansible[r].launched = 0
  BY <1>4, <1>5 DEF Progressed
<1>6. CASE ansible[r].launched # 0
  <2>1. receipt[r].status # "NONE" /\ {"plan", "base", "status", "run"} \subseteq DOMAIN receipt[r] /\ ~Start(r)
    BY <1>1, <1>6 DEF Stage, Start
  <2>2. RowKept(r) \/ receipt'[r] = receipt[r]
    <3>1. ASSUME NEW run, NEW status, Finishes(r, run, status), status = receipt[r].status \/ status # "NONE"
          PROVE  RowKept(r)
      BY <2>1, <3>1, RowFinishes
    <3>2. CASE ReadBefore(r) \/ Capture(r) \/ ReadAgain(r) \/ Recheck(r) \/ Breaks(r) \/ OrphanEnds(r)
      BY <2>1, <3>1, <3>2
         DEF ReadBefore, Capture, ReadAgain, Recheck, Breaks, OrphanEnds, Fails, RowKept, StagesOK
    <3>3. CASE AnsibleEnds(r) \/ Verify(r)
      BY <2>1, <3>3 DEF AnsibleEnds, Verify, RowKept, StagesOK
    <3> QED
      BY <2>1, <3>2, <3>3
  <2>3. "to" \in DOMAIN ansible[r]
    <3>1. ansible[r].launched > 0
      BY <1>1, <1>6 DEF Stage
    <3> QED
      BY <3>1 DEF ProgressOK, Progressed
  <2> QED
    BY <1>2, <1>3, <1>4, <2>2, <2>3, ProgressStays DEF ProgressOK
<1> QED
  BY <1>5, <1>6

\* A command moves its receipt one item on, and is a change of the rules to every other one.
LEMMA ProgressSend ==
  ASSUME StagesOK, OneHolder, KnownOK, PlansOK, ProgressOK, NEW r \in Reviews, Send(r)
  PROVE  ProgressOK'
<1> DEFINE items == receipt[r].plan.items
           base == receipt[r].base
           n == ansible[r].sent
           b == box[ansible[r].to]
           sent == Performed(platform, items[n + 1], b.rules)
<1>1. /\ ansible[r].on /\ n < Len(items) /\ box' = [box EXCEPT ![ansible[r].to] = [@ EXCEPT !.rules = sent]]
      /\ UNCHANGED <<platform, receipt, worker>>
  BY DEF Send
<1>2. /\ n \in Nat /\ receipt[r].status # "NONE" /\ worker[r].step \notin Before
      /\ "to" \in DOMAIN ansible[r] /\ ansible[r].to \in Idents /\ Progressed(r) /\ ansible[r].launched = 1
  <2>1. Stage(receipt[r], worker[r], ansible[r]) /\ Shape(r) /\ Progressed(r) /\ ansible[r].launched = 1
    BY <1>1, RowShape DEF ProgressOK, Shape
  <2> QED
    BY <2>1 DEF Shape, Stage, Progressed
<1>3. Sound(platform, r, items, base) /\ platform \in {"mikrotik", "cisco"} /\ IsConfiguration(platform, b)
  BY <1>2 DEF PlansOK, Planned, Boxes
<1>4. Len(items) \in Nat /\ n \in 0..(Len(items) - 1) /\ n + 1 \in 0..Len(items)
  <2>1. Len(items) \in Nat
    BY <1>3, CompiledShape DEF Sound
  <2> QED
    BY <1>1, <1>2, <2>1
<1>5. Performed(platform, items[n + 1], FinalOf(r, n)) = FinalOf(r, n + 1)
  BY <1>3, <1>4, PerformedIsFinal DEF FinalOf
<1>6. /\ ansible'[r].sent = n + 1 /\ ansible'[r].to = ansible[r].to /\ DOMAIN ansible'[r] = DOMAIN ansible[r]
      /\ \A s \in Reviews \ {r} : ansible'[s] = ansible[s]
      /\ since'[r] = since[r] /\ \A s \in Reviews \ {r} : worker[s].step # "idle" \/ "rules" \in since'[s]
  <2>1. "sent" \in DOMAIN ansible[r]
    BY RowShape DEF Shape
  <2>2. ansible'[r].sent = n + 1 /\ ansible'[r].to = ansible[r].to /\ DOMAIN ansible'[r] = DOMAIN ansible[r]
        /\ \A s \in Reviews \ {r} : ansible'[s] = ansible[s]
    BY <2>1 DEF Send, StagesOK
  <2>3. since'[r] = since[r] /\ \A s \in Reviews \ {r} : worker[s].step # "idle" \/ "rules" \in since'[s]
    BY DEF Send, At
  <2> QED
    BY <2>2, <2>3
<1>7. box'[ansible[r].to].rules = sent
  <2>1. DOMAIN box = Idents /\ "rules" \in DOMAIN b
    BY <1>3 DEF KnownOK, Surroundings, IsConfiguration, Configuration
  <2> HIDE DEF sent
  <2> QED
    BY <1>1, <1>2, <2>1
<1>8. Progressed(r)'
  <2>1. "rules" \notin since[r] /\ ansible[r].to = receipt[r].plan.target => b.rules = FinalOf(r, n)
    BY <1>2 DEF Progressed
  <2>2. "rules" \notin since'[r] /\ ansible'[r].to = receipt'[r].plan.target =>
            box'[ansible'[r].to].rules = FinalOf(r, n + 1)
    BY <1>1, <1>5, <1>6, <1>7, <2>1
  <2>3. "to" \in DOMAIN ansible'[r] /\ ansible'[r].to \in Idents /\ ansible'[r].sent \in 0..Len(receipt'[r].plan.items)
    BY <1>1, <1>2, <1>4, <1>6
  <2>4. ansible'[r].sent = n + 1
    BY <1>6
  <2> DEFINE f(m) == FinalOf(r, m)
  <2>5. FinalOf(r, ansible[r].sent)' = f(n + 1)
    BY <1>1, <2>4 DEF FinalOf
  <2> HIDE DEF n, f
  <2> QED
    BY <2>2, <2>3, <2>5 DEF Progressed, f
<1>9. ASSUME NEW s \in Reviews \ {r} PROVE Progressed(s)'
  <2>1. Progressed(s) /\ ansible'[s] = ansible[s] /\ receipt'[s] = receipt[s]
    BY <1>1, <1>6 DEF ProgressOK
  <2>2. "rules" \in since'[s]
    <3>1. CASE At(r, "ansible") /\ ~At(s, "idle")
      BY <3>1 DEF OneHolder, At
    <3>2. CASE ~(At(r, "ansible") /\ ~At(s, "idle"))
      BY <3>2 DEF Send
    <3> QED
      BY <3>1, <3>2
  <2> QED
    BY <2>1, <2>2 DEF Progressed
<1> QED
  BY <1>8, <1>9 DEF ProgressOK

LEMMA ProgressOthers ==
  ASSUME StagesOK, KnownOK, ProgressOK,
         \/ \E u \in Users : ChangeAccount(u)
         \/ ChangeDevice
         \/ \E i \in Idents : EditBox(i)
         \/ \E r \in Reviews : Expire(r)
  PROVE  ProgressOK'
<1>1. UNCHANGED <<platform, ansible>>
  BY DEF ChangeAccount, ChangeDevice, EditBox, Expire, Others
<1>2. ASSUME NEW r \in Reviews PROVE Progressed(r)'
  <2>1. Stage(receipt[r], worker[r], ansible[r]) /\ Progressed(r)
        /\ {"status", "run"} \subseteq DOMAIN receipt[r] /\ Shape(r)
    BY RowShape DEF ProgressOK
  <2>2. CASE ansible[r].launched = 0
    BY <1>1, <2>2 DEF Progressed
  <2>3. CASE ansible[r].launched # 0
    <3>1. /\ receipt[r].run \notin {"NONE", "PENDING"} /\ receipt[r].status # "NONE"
          /\ {"plan", "base"} \subseteq DOMAIN receipt[r]
      BY <2>1, <2>3 DEF Stage, Shape
    <3>2. RowKept(r) \/ receipt'[r] = receipt[r]
      BY <2>1, <3>1 DEF ChangeAccount, ChangeDevice, EditBox, Expire, RowKept, StagesOK
    <3>3. ASSUME NEW what, Disturbs(what) PROVE since'[r] = since[r] \union what
      BY <3>1, <3>3 DEF Disturbs
    <3>4. CASE box' = box
      <4>1. \E what : Disturbs(what)
        <5>1. \E what : Others(what)
          BY DEF ChangeAccount, ChangeDevice, EditBox, Expire
        <5> QED
          BY <5>1 DEF Others
      <4>2. "rules" \notin since'[r] => "rules" \notin since[r]
        BY <3>3, <4>1
      <4> QED
        BY <1>1, <2>1, <3>2, <3>4, <4>2, ProgressStays DEF SameProcess
    <3>5. CASE box' # box
      <4>1. Disturbs({"rules", "backup", "result"})
        BY <3>5 DEF ChangeAccount, ChangeDevice, EditBox, Expire, Others
      <4>2. "rules" \in since'[r]
        BY <3>3, <4>1
      <4>3. receipt'[r].plan.items = receipt[r].plan.items
        BY <3>2 DEF RowKept
      <4> QED
        BY <1>1, <2>1, <4>2, <4>3 DEF Progressed
    <3> QED
      BY <3>4, <3>5
  <2> QED
    BY <2>2, <2>3
<1> QED
  BY <1>2 DEF ProgressOK

LEMMA ProgressCrash ==
  ASSUME StagesOK, KnownOK, ProgressOK, Crash
  PROVE  ProgressOK'
<1>1. ASSUME NEW r \in Reviews PROVE Progressed(r)'
  <2>1. /\ Stage(receipt[r], worker[r], ansible[r]) /\ Progressed(r)
        /\ receipt[r].status # "NONE" => {"plan", "base", "status", "run"} \subseteq DOMAIN receipt[r]
    BY RowShape DEF ProgressOK
  <2>2. UNCHANGED <<platform, box, ansible, since>>
    BY DEF Crash
  <2>3. receipt'[r] = receipt[r] \/ (receipt[r].run = "RUNNING" /\ receipt'[r] = [receipt[r] EXCEPT !.run = "INTERRUPTED"])
    BY DEF Crash
  <2>4. RowKept(r) \/ receipt'[r] = receipt[r]
    BY <2>1, <2>3 DEF RowKept, Stage
  <2> QED
    BY <2>1, <2>2, <2>4, ProgressStays DEF SameProcess
<1> QED
  BY <1>1 DEF ProgressOK

LEMMA ProgressStep == StagesOK /\ OneHolder /\ KnownOK /\ PlansOK /\ ProgressOK /\ [Next]_vars => ProgressOK'
<1> SUFFICES ASSUME StagesOK, OneHolder, KnownOK, PlansOK, ProgressOK, [Next]_vars PROVE ProgressOK'
  OBVIOUS
<1>1. ASSUME NEW r \in Reviews,
             \/ \E u \in Users, changes \in Requests[platform] : Review(r, u, changes)
             \/ ReadRules(r) \/ ReviewEnds(r) \/ Apply(r) \/ Claim(r) \/ Cancel(r) \/ DropCancelled(r)
      PROVE  ProgressOK'
  BY <1>1, ProgressRequest
<1>2. ASSUME NEW r \in Reviews,
             \/ Start(r) \/ ReadBefore(r) \/ Capture(r) \/ ReadAgain(r) \/ Recheck(r)
             \/ AnsibleEnds(r) \/ Verify(r) \/ Breaks(r) \/ OrphanEnds(r)
      PROVE  ProgressOK'
  <2>1. platform' = platform
    BY <1>2 DEF Start, ReadBefore, Capture, ReadAgain, Recheck, AnsibleEnds, Verify, Breaks, OrphanEnds
  <2> QED
    BY <1>2, <2>1, CalmExecutions, ProgressExecution, ProgressOfOne
<1>3. ASSUME NEW r \in Reviews, Launch(r) PROVE ProgressOK'
  <2>1. platform' = platform
    BY <1>3 DEF Launch
  <2> QED
    BY <1>3, <2>1, CalmExecutions, ProgressLaunch, ProgressOfOne
<1>4. ASSUME NEW r \in Reviews, Send(r) PROVE ProgressOK'
  BY <1>4, ProgressSend
<1>5. CASE \/ \E u \in Users : ChangeAccount(u)
           \/ ChangeDevice
           \/ \E i \in Idents : EditBox(i)
           \/ \E r \in Reviews : Expire(r)
  BY <1>5, ProgressOthers
<1>6. CASE Crash
  BY <1>6, ProgressCrash
<1>7. CASE UNCHANGED vars
  BY <1>7 DEF vars, ProgressOK, Progressed, FinalOf
<1> QED
  BY <1>1, <1>2, <1>3, <1>4, <1>5, <1>6, <1>7 DEF Next

\* compile_plan and execute: from wherever an execution stopped, the recovery recipe of its receipt leads back
\* to the reviewed rules, for every change set the compiler lets through, on both platforms, unless others
\* changed the rules of the reviewed device after the worker last read them there.
THEOREM RecoveryRestoresReviewed == Spec => []RecoveryRestores
<1>1. StagesOK /\ KnownOK /\ PlansOK /\ ProgressOK => RecoveryRestores
  <2> SUFFICES ASSUME StagesOK, KnownOK, PlansOK, ProgressOK, NEW r \in Reviews,
                      ansible[r].launched > 0, ansible[r].to = receipt[r].plan.target, "rules" \notin since[r]
               PROVE  Recovered(platform, receipt[r].plan.items, box[ansible[r].to].rules) = receipt[r].base.rules
    BY DEF RecoveryRestores
  <2>1. receipt[r].status # "NONE"
    BY RowShape DEF Stage
  <2>2. Sound(platform, r, receipt[r].plan.items, receipt[r].base) /\ platform \in {"mikrotik", "cisco"}
    BY <2>1 DEF PlansOK, Planned, Boxes
  <2>3. box[ansible[r].to].rules = FinalOf(r, ansible[r].sent) /\ ansible[r].sent \in 0..Len(receipt[r].plan.items)
    BY DEF ProgressOK, Progressed
  <2> QED
    BY <2>2, <2>3, RecoveredFinal DEF FinalOf
<1> QED
  BY <1>1, StagesInit, StagesStep, HolderInit, HolderStep, KnownInit, KnownStep, PlansInit, PlansStep, ProgressInit,
     ProgressStep, PTL DEF Spec
=============================================================================
