--------------------------- MODULE JobQueueProofs ---------------------------
(***************************************************************************)
(* Proofs about JobQueue, for every number of rows, every set of devices,  *)
(* accounts and identities, every pool, semaphore and queue size: typing;  *)
(* one run of a device at a time, in the order of submission, and never    *)
(* twice; the refinement of OperationLifecycle that follows; and who may   *)
(* use a device, when, and whether it is the device the run was queued for.*)
(***************************************************************************)
EXTENDS JobQueue, FiniteSetTheorems, TLAPS

LEMMA RunsFinite == IsFiniteSet(Runs)
<1>1. MaxRuns \in Nat
  BY BoundsAssumption
<1> QED
  BY <1>1, FS_Interval DEF Runs


LEMMA JobType ==
  ASSUME TypeOK, NEW r \in Runs
  PROVE  /\ job[r].device \in Devices \union {NoDevice}
         /\ job[r].kind \in AllKinds \union {"none"}
         /\ job[r].target \in Idents \union {NoIdent}
         /\ job[r].session \in Nat
  BY DEF TypeOK, Jobs

LEMMA RunNumbers == 0 \in 0..MaxRuns /\ \A r \in Runs : r \in 0..MaxRuns
  BY BoundsAssumption DEF Runs

LEMMA RestType ==
  ASSUME Rest
  PROVE  /\ dpc' = "wait" /\ cur' \in 0..MaxRuns /\ capacity' \in Nat
         /\ active' \in SUBSET Devices /\ rows' \in SUBSET Runs
         /\ seen' \in SUBSET Runs /\ fresh' \in BOOLEAN
  BY RunNumbers DEF Rest

LEMMA FreshType ==
  ASSUME Fresh
  PROVE  /\ Rest
         /\ dpc' = "wait" /\ cur' \in 0..MaxRuns /\ capacity' \in Nat
         /\ active' \in SUBSET Devices /\ rows' \in SUBSET Runs
         /\ seen' \in SUBSET Runs /\ fresh' \in BOOLEAN
         /\ futures' \in SUBSET Runs
         /\ phase' \in [Runs -> Phases]
         /\ loaded' \in [Runs -> Idents \union {NoIdent}]
         /\ result' \in [Runs -> Outcomes \union {"NONE"}]
         /\ leaving' \in Nat
         /\ cancelling' \in SUBSET Runs
         /\ mutex' \in [Devices -> BOOLEAN]
         /\ slots' \in Nat
         /\ reader' \in [Devices -> {"none", "slot", "in"}]
  BY RestType, SizesAssumption DEF Fresh, Phases

LEMMA ReleaseType ==
  ASSUME TypeOK, NEW r \in Runs, Release(r)
  PROVE  /\ slots' \in Nat
         /\ mutex' \in [Devices -> BOOLEAN]
         /\ reader' \in [Devices -> {"none", "slot", "in"}]
<1> DEFINE d == job[r].device
<1>1. mutex' = [mutex EXCEPT ![d] = FALSE] /\ slots' = slots + 1 /\ reader' = reader
  BY DEF Release, FreeMutex
<1>2. /\ mutex \in [Devices -> BOOLEAN] /\ slots \in Nat
      /\ reader \in [Devices -> {"none", "slot", "in"}]
  BY DEF TypeOK
<1> HIDE DEF d
<1>3. slots' \in Nat
  BY <1>1, <1>2
<1>4. mutex' \in [Devices -> BOOLEAN]
  BY <1>1, <1>2
<1> QED
  BY <1>1, <1>2, <1>3, <1>4

(***************************************************************************)
(* Type correctness needs to know where an execution may be: one that      *)
(* asks for a device lock has a device, one that is under way has a        *)
(* RUNNING row, and what the dispatcher holds are PENDING rows and one     *)
(* RUNNING row that nobody executes.                                       *)
(***************************************************************************)
Locking == {"ready", "slot"} \union Inside

UnderWay == Phases \ {"none", "returning"}

ExecOK ==
    /\ \A r \in Runs : phase[r] \in UnderWay => status[r] = "RUNNING"
    /\ \A r \in Runs : phase[r] \in Locking => job[r].device \in Devices
    /\ rows \subseteq Pending
    /\ dpc = "submit" => /\ cur \in Runs
                         /\ status[cur] = "RUNNING"
                         /\ phase[cur] \notin UnderWay
                         /\ capacity > 0
    /\ proc = "down" => /\ dpc = "wait"
                        /\ \A r \in Runs : phase[r] = "none"

LEMMA TypeInit == Init => TypeOK /\ ExecOK
<1> SUFFICES ASSUME Init PROVE TypeOK /\ ExecOK
  OBVIOUS
<1> USE DEF Init
<1>1. NoJob \in Jobs
  BY DEF NoJob, Jobs
<1>2. 0 \in 0..MaxRuns
  BY BoundsAssumption
<1>3. TypeOK
  BY <1>1, <1>2, SizesAssumption DEF TypeOK, Statuses, Phases
<1>4. ExecOK
  BY DEF ExecOK, UnderWay, Locking, Inside
<1> QED
  BY <1>3, <1>4

LEMMA TypeStep == TypeOK /\ ExecOK /\ [Next]_vars => TypeOK'
<1> SUFFICES ASSUME TypeOK, ExecOK, [Next]_vars PROVE TypeOK'
  OBVIOUS
<1>1. ASSUME NEW r \in Runs, Enqueue(r) PROVE TypeOK'
  <2>1. PICK k \in Kinds, u \in Users, d \in Devices \union {NoDevice} :
          job' = [job EXCEPT ![r] =
                    [kind |-> k, device |-> d, owner |-> u,
                     target |-> IF d = NoDevice THEN NoIdent ELSE ident[d],
                     session |-> session[u]]]
    BY <1>1 DEF Enqueue
  <2>2. [kind |-> k, device |-> d, owner |-> u,
         target |-> IF d = NoDevice THEN NoIdent ELSE ident[d],
         session |-> session[u]] \in Jobs
    BY NamesAssumption DEF Jobs, TypeOK
  <2>3. job' \in [Runs -> Jobs]
    BY <2>1, <2>2 DEF TypeOK
  <2> QED
    BY <1>1, <2>3
    DEF Enqueue, SetStatus, TypeOK, Statuses, inventory, accounts, elsewhere, disp,
        execs, locks, history
<1>2. ASSUME NEW r \in Runs, RequestCancel(r) PROVE TypeOK'
  BY <1>2
  DEF RequestCancel, Use, persisted, disp, execs, locks, history, inventory,
      accounts, TypeOK, Counters
<1>3. ASSUME NEW r \in Runs, RecordCancel(r) PROVE TypeOK'
  BY <1>3
  DEF RecordCancel, Pending, inventory, accounts, disp, execs, locks, Runs, TypeOK
<1>4. ASSUME NEW r \in Runs, CancelRow(r) PROVE TypeOK'
  BY <1>4
  DEF CancelRow, AtRow, SetStatus, Expire, inventory, accounts, execs, locks,
      history, TypeOK, Statuses, Outcomes
<1>5. ASSUME NEW r \in Runs, SkipRow(r) PROVE TypeOK'
  BY <1>5
  DEF SkipRow, AtRow, MustWait, persisted, execs, locks, history, inventory,
      accounts, TypeOK
<1>6. ASSUME NEW r \in Runs, ClaimRow(r) PROVE TypeOK'
  BY <1>6, RunNumbers
  DEF ClaimRow, AtRow, SetStatus, Expire, TypeOK, Statuses, inventory, accounts, execs,
      locks, history
<1>7. ASSUME NEW r \in Runs, Load(r) PROVE TypeOK'
  BY <1>7
  DEF Load, Cancelled, SetStatus, GoTo, inventory, accounts, elsewhere, locks,
      history, Runs, disp, TypeOK, Phases, Statuses, Outcomes
<1>8. ASSUME NEW r \in Runs, Authorize(r) PROVE TypeOK'
  <2>1. OnDevice(r) => job[r].device \in Devices
    BY JobType DEF OnDevice
  <2> QED
    BY <1>8, <2>1
    DEF Authorize, OnDevice, GoTo, TypeOK, Phases, persisted, inventory, accounts,
        elsewhere, disp, locks, history
<1>9. ASSUME NEW r \in Runs, RefuseRun(r) PROVE TypeOK'
  BY <1>9
  DEF RefuseRun, Fail, persisted, elsewhere, locks, history, OnDevice, GoTo,
      SetResult, inventory, accounts, disp, TypeOK, Phases, Outcomes
<1>10. ASSUME NEW r \in Runs, TryMutex(r) PROVE TypeOK'
  BY <1>10
  DEF TryMutex, Held, GoTo, persisted, elsewhere, history, inventory, accounts,
      disp, TypeOK, Phases
<1>11. ASSUME NEW r \in Runs, TakeSlot(r) PROVE TypeOK'
  BY <1>11
  DEF TakeSlot, GoTo, persisted, elsewhere, history, inventory, accounts, disp,
      TypeOK, Phases
<1>12. ASSUME NEW r \in Runs, SlotTimeout(r) PROVE TypeOK'
  BY <1>12
  DEF SlotTimeout, FreeMutex, GoTo, persisted, elsewhere, history, inventory,
      accounts, disp, TypeOK, Phases
<1>13. ASSUME NEW r \in Runs, Requeue(r) PROVE TypeOK'
  BY <1>13
  DEF Requeue, SetStatus, GoTo, inventory, accounts, elsewhere, locks, history,
      disp, TypeOK, Phases, Statuses, Outcomes
<1>14. ASSUME NEW r \in Runs, Export(r) PROVE TypeOK'
  BY <1>14
  DEF Export, Contact, GoTo, persisted, elsewhere, locks, inventory, accounts, disp,
      TypeOK, Phases
<1>15. ASSUME NEW r \in Runs, BackupSaved(r) PROVE TypeOK'
  BY <1>15
  DEF BackupSaved, GoTo, persisted, elsewhere, locks, history, inventory, accounts,
      disp, TypeOK, Phases
<1>16. ASSUME NEW r \in Runs, Launch(r) PROVE TypeOK'
  <2>1. phase[r] = "saved" => job[r].device \in Devices
    BY DEF ExecOK, Locking, Inside
  <2>2. loaded' \in [Runs -> Idents \union {NoIdent}]
    BY <1>16, <2>1 DEF Launch, TypeOK
  <2>3. loaded'[r] \in Idents \union {NoIdent}
    BY <2>2
  <2>4. /\ contacted' = [contacted EXCEPT ![r] = contacted[r] \union {loaded'[r]}]
        /\ contacted \in [Runs -> SUBSET (Idents \union {NoIdent})]
    BY <1>16 DEF Launch, Contact, TypeOK
  <2>5. contacted' \in [Runs -> SUBSET (Idents \union {NoIdent})]
    BY <2>3, <2>4
  <2> QED
    BY <1>16, <2>2, <2>5
    DEF Launch, Contact, GoTo, TypeOK, Phases, persisted, inventory, accounts,
        elsewhere, disp, locks
<1>17. ASSUME NEW r \in Runs, WorkDone(r) PROVE TypeOK'
  BY <1>17, ReleaseType
  DEF WorkDone, GoTo, TypeOK, Phases, persisted, inventory, accounts, elsewhere, disp,
      history
<1>18. ASSUME NEW r \in Runs, WorkFails(r) PROVE TypeOK'
  BY <1>18, ReleaseType
  DEF WorkFails, Fail, GoTo, SetResult, TypeOK, Phases, Outcomes, persisted, inventory,
      accounts, elsewhere, disp, history
<1>19. ASSUME NEW r \in Runs, Probe(r) PROVE TypeOK'
  BY <1>19
  DEF Probe, Contact, GoTo, persisted, elsewhere, locks, inventory, accounts, disp,
      TypeOK, Phases
<1>20. ASSUME NEW r \in Runs, Settle(r) PROVE TypeOK'
  BY <1>20
  DEF Settle, SetResult, GoTo, persisted, elsewhere, locks, history, inventory,
      accounts, disp, TypeOK, Phases, Outcomes
<1>21. ASSUME NEW r \in Runs, CommitResult(r) PROVE TypeOK'
  BY <1>21
  DEF CommitResult, SetStatus, GoTo, SetResult, inventory, accounts, elsewhere,
      locks, history, disp, TypeOK, Phases, Statuses, Outcomes
<1>22. ASSUME NEW r \in Runs, Return(r) PROVE TypeOK'
  BY <1>22
  DEF Return, GoTo, persisted, elsewhere, locks, history, inventory, accounts, disp,
      TypeOK, Phases
<1>23. ASSUME NEW r \in Runs, InternalError(r) PROVE TypeOK'
  BY <1>23
  DEF InternalError, Fail, Use, persisted, elsewhere, locks, history, GoTo,
      SetResult, inventory, accounts, disp, TypeOK, Phases, Outcomes, Counters
<1>24. ASSUME NEW r \in Runs, CommitFails(r) PROVE TypeOK'
  BY <1>24
  DEF CommitFails, GoTo, SetResult, Use, persisted, elsewhere, locks, history,
      inventory, accounts, disp, TypeOK, Phases, Outcomes, Counters
<1>25. ASSUME NEW d \in Devices, EditDevice(d) PROVE TypeOK'
  BY <1>25
  DEF EditDevice, Use, accounts, elsewhere, execs, locks, history, disp, TypeOK,
      Counters
<1>26. ASSUME NEW d \in Devices, ArchiveOrRestore(d) PROVE TypeOK'
  BY <1>26
  DEF ArchiveOrRestore, Use, accounts, elsewhere, execs, locks, history, disp,
      TypeOK, Counters
<1>27. ASSUME NEW d \in Devices, ReaderTakesMutex(d) PROVE TypeOK'
  BY <1>27
  DEF ReaderTakesMutex, Use, persisted, elsewhere, execs, history, inventory,
      accounts, disp, TypeOK, Counters
<1>28. ASSUME NEW d \in Devices, ReaderTakesSlot(d) PROVE TypeOK'
  BY <1>28
  DEF ReaderTakesSlot, persisted, elsewhere, execs, history, inventory, accounts,
      disp, TypeOK
<1>29. ASSUME NEW d \in Devices, ReaderTimesOut(d) PROVE TypeOK'
  BY <1>29
  DEF ReaderTimesOut, FreeMutex, persisted, elsewhere, execs, history, inventory,
      accounts, disp, TypeOK
<1>30. ASSUME NEW d \in Devices, ReaderLeaves(d) PROVE TypeOK'
  BY <1>30
  DEF ReaderLeaves, FreeMutex, persisted, elsewhere, execs, history, inventory,
      accounts, disp, TypeOK
<1>31. ASSUME NEW u \in Users, ChangeAccess(u) PROVE TypeOK'
  <2>1. session' \in [Users -> Nat]
    BY <1>31 DEF ChangeAccess, TypeOK
  <2>2. allowed' \in [Users -> BOOLEAN]
    BY <1>31 DEF ChangeAccess, TypeOK
  <2>3. barred' \in SUBSET Runs
    BY <1>31 DEF ChangeAccess, Pending, TypeOK
  <2>4. used' \in [Counters -> Nat]
    BY <1>31 DEF ChangeAccess, Use, Counters, TypeOK
  <2> QED
    BY <1>31, <2>1, <2>2, <2>3, <2>4
    DEF ChangeAccess, TypeOK, inventory, elsewhere, disp, execs, locks
<1>32. ASSUME Poll PROVE TypeOK'
  <2>1. Undone \in SUBSET Runs
    BY DEF Undone, TypeOK
  <2>2. Cardinality(Undone) \in Nat
    BY <2>1, RunsFinite, FS_Subset, FS_CardinalityType
  <2>3. capacity' \in Nat
    BY <1>32, <2>2, SizesAssumption DEF Poll
  <2> QED
    BY <1>32, <2>1, <2>3
    DEF Poll, TypeOK, persisted, inventory, accounts, execs, locks, history
<1>33. ASSUME ReadRunning PROVE TypeOK'
  BY <1>33
  DEF ReadRunning, Running, persisted, execs, locks, history, Runs, inventory,
      accounts, TypeOK
<1>34. ASSUME ReadPending PROVE TypeOK'
  BY <1>34
  DEF ReadPending, Pending, persisted, execs, locks, history, Runs, inventory,
      accounts, TypeOK
<1>35. ASSUME SubmitRow PROVE TypeOK'
  <2>1. cur \in Runs /\ capacity > 0
    BY <1>35 DEF SubmitRow, ExecOK
  <2>2. active' \in SUBSET Devices
    BY <1>35, <2>1, JobType DEF SubmitRow, TypeOK
  <2>3. leaving' \in Nat
    BY <1>35 DEF SubmitRow, TypeOK
  <2> QED
    BY <1>35, <2>1, <2>2, <2>3, BoundsAssumption
    DEF SubmitRow, GoTo, TypeOK, Phases, persisted, inventory, accounts, locks, history
<1>36. ASSUME RefuseRow PROVE TypeOK'
  <2>1. status' \in [Runs -> Statuses]
    BY <1>36 DEF RefuseRow, SetStatus, TypeOK, Statuses
  <2> QED
    BY <1>36, <2>1, RestType
    DEF RefuseRow, TypeOK, inventory, accounts, execs, locks, history
<1>37. ASSUME EndPass PROVE TypeOK'
  BY <1>37, RestType
  DEF EndPass, TypeOK, persisted, inventory, accounts, execs, locks, history
<1>38. ASSUME PassFails PROVE TypeOK'
  <2>1. used' \in [Counters -> Nat]
    BY <1>38 DEF PassFails, Use, Counters, TypeOK
  <2> QED
    BY <1>38, <2>1, RestType
    DEF PassFails, TypeOK, persisted, inventory, accounts, execs, locks, history
<1>39. ASSUME ReturnSuperseded PROVE TypeOK'
  BY <1>39
  DEF ReturnSuperseded, persisted, disp, execs, locks, history, inventory, accounts,
      TypeOK
<1>40. ASSUME BeginClose PROVE TypeOK'
  BY <1>40
  DEF BeginClose, Use, persisted, disp, execs, locks, history, inventory, accounts,
      TypeOK, Counters
<1>41. ASSUME ShutPool PROVE TypeOK'
  <2>1. phase' \in [Runs -> Phases]
    BY <1>41 DEF ShutPool, TypeOK, Phases
  <2> QED
    BY <1>41, <2>1
    DEF ShutPool, TypeOK, persisted, inventory, accounts, disp, locks, history
<1>42. ASSUME Exit PROVE TypeOK'
  BY <1>42, FreshType
  DEF Exit, TypeOK, persisted, inventory, accounts, history
<1>43. ASSUME Crash PROVE TypeOK'
  <2>1. used' \in [Counters -> Nat]
    BY <1>43 DEF Crash, Use, Counters, TypeOK
  <2> QED
    BY <1>43, <2>1, FreshType
    DEF Crash, TypeOK, persisted, inventory, accounts, history
<1>44. ASSUME Restart PROVE TypeOK'
  <2>1. status' \in [Runs -> Statuses]
    BY <1>44 DEF Restart, AfterRestart, TypeOK, Statuses, Outcomes
  <2> QED
    BY <1>44, <2>1
    DEF Restart, TypeOK, inventory, accounts, disp, execs, locks, history
<1>45. CASE UNCHANGED vars
  BY <1>45 DEF vars, persisted, disp, execs, locks, history, inventory, accounts, TypeOK
<1> QED
  BY <1>1, <1>2, <1>3, <1>4, <1>5, <1>6, <1>7, <1>8, <1>9, <1>10, <1>11, <1>12,
     <1>13, <1>14, <1>15, <1>16, <1>17, <1>18, <1>19, <1>20, <1>21, <1>22, <1>23,
     <1>24, <1>25, <1>26, <1>27, <1>28, <1>29, <1>30, <1>31, <1>32, <1>33, <1>34,
     <1>35, <1>36, <1>37, <1>38, <1>39, <1>40, <1>41, <1>42, <1>43, <1>44, <1>45
  DEF Next, DispatcherStep, WorkerStep, ReaderStep, ProcessStep

LEMMA ExecStep == TypeOK /\ ExecOK /\ [Next]_vars => ExecOK'
<1> SUFFICES ASSUME TypeOK, ExecOK, [Next]_vars PROVE ExecOK'
  OBVIOUS
<1>1. ASSUME NEW r \in Runs, Enqueue(r) PROVE ExecOK'
  <2>1. /\ status' = [status EXCEPT ![r] = "PENDING"] /\ status[r] = "NONE"
        /\ status \in [Runs -> Statuses]
        /\ \A q \in Runs \ {r} : job'[q] = job[q]
        /\ phase \in [Runs -> Phases]
        /\ UNCHANGED <<phase, rows, dpc, cur, capacity, proc>>
    BY <1>1
    DEF Enqueue, SetStatus, inventory, accounts, elsewhere, execs, locks, history, disp,
        TypeOK
  <2>2. phase[r] \notin UnderWay
    BY <2>1 DEF ExecOK
  <2>3. phase[r] \notin Locking
    BY <2>1, <2>2 DEF UnderWay, Locking, Inside
  <2>4. \A q \in Runs : phase'[q] \in UnderWay => status'[q] = "RUNNING"
    BY <2>1, <2>2 DEF ExecOK
  <2>5. \A q \in Runs : phase'[q] \in Locking => job'[q].device \in Devices
    BY <2>1, <2>3 DEF ExecOK
  <2>6. rows' \subseteq Pending'
    BY <2>1 DEF ExecOK, Pending
  <2>7. dpc' = "submit" => cur' \in Runs /\ status'[cur'] = "RUNNING"
                          /\ phase'[cur'] \notin UnderWay /\ capacity' > 0
    BY <2>1 DEF ExecOK
  <2>8. proc' = "down" => dpc' = "wait" /\ \A q \in Runs : phase'[q] = "none"
    BY <2>1 DEF ExecOK
  <2> QED
    BY <2>4, <2>5, <2>6, <2>7, <2>8 DEF ExecOK
<1>2. ASSUME NEW r \in Runs, RequestCancel(r) PROVE ExecOK'
  BY <1>2, JobType
  DEF RequestCancel, Serving, Use, persisted, disp, execs, locks, history,
      inventory, accounts, ExecOK, UnderWay, Locking, Inside, Pending, TypeOK,
      Phases, Runs
<1>3. ASSUME NEW r \in Runs, RecordCancel(r) PROVE ExecOK'
  BY <1>3, JobType
  DEF RecordCancel, Pending, inventory, accounts, disp, execs, locks, Runs, ExecOK,
      UnderWay, Locking, Inside, TypeOK, Phases
<1>4. ASSUME NEW r \in Runs, CancelRow(r) PROVE ExecOK'
  BY <1>4, JobType
  DEF CancelRow, AtRow, SeenCancelled, SetStatus, Expire, inventory, accounts,
      execs, locks, history, ExecOK, UnderWay, Locking, Inside, Pending, TypeOK,
      Phases, Runs
<1>5. ASSUME NEW r \in Runs, SkipRow(r) PROVE ExecOK'
  BY <1>5, JobType
  DEF SkipRow, AtRow, SeenCancelled, MustWait, persisted, execs, locks, history,
      inventory, accounts, ExecOK, UnderWay, Locking, Inside, Pending, TypeOK,
      Phases, Runs
<1>6. ASSUME NEW r \in Runs, ClaimRow(r) PROVE ExecOK'
  BY <1>6, JobType
  DEF ClaimRow, AtRow, SeenCancelled, MustWait, SetStatus, Expire, inventory,
      accounts, execs, locks, history, ExecOK, UnderWay, Locking, Inside, Pending,
      TypeOK, Phases, Runs
<1>7. ASSUME NEW r \in Runs, Load(r) PROVE ExecOK'
  <2>1. status[r] = "RUNNING"
    BY <1>7 DEF Load, ExecOK, UnderWay, Phases
  <2>2. /\ status \in [Runs -> Statuses] /\ phase \in [Runs -> Phases]
        /\ UNCHANGED <<job, rows, dpc, cur, capacity, proc>>
    BY <1>7 DEF Load, TypeOK, elsewhere, disp
  <2>3. CASE Cancelled(r)
    <3>1. /\ status' = [status EXCEPT ![r] = "CANCELLED"]
          /\ phase' = [phase EXCEPT ![r] = "returning"]
          /\ phase[r] = "pool"
      BY <1>7, <2>3 DEF Load, SetStatus, GoTo
    <3> QED
      BY <2>1, <2>2, <3>1 DEF ExecOK, UnderWay, Locking, Inside, Pending, Phases
  <2>4. CASE ~Cancelled(r)
    <3>1. /\ status' = status /\ phase[r] = "pool"
          /\ phase' = [phase EXCEPT ![r] = "loaded"]
      BY <1>7, <2>4 DEF Load, GoTo
    <3> QED
      BY <2>1, <2>2, <3>1 DEF ExecOK, UnderWay, Locking, Inside, Pending, Phases
  <2> QED
    BY <2>3, <2>4
<1>8. ASSUME NEW r \in Runs, Authorize(r) PROVE ExecOK'
  <2>1. /\ status[r] = "RUNNING" /\ phase[r] = "loaded"
        /\ phase' = [phase EXCEPT ![r] = IF OnDevice(r) THEN "ready" ELSE "probe"]
    BY <1>8 DEF Authorize, GoTo, ExecOK, UnderWay, Phases
  <2>2. OnDevice(r) => job[r].device \in Devices
    BY JobType DEF OnDevice
  <2>3. /\ phase \in [Runs -> Phases]
        /\ UNCHANGED <<status, job, rows, dpc, cur, capacity, proc>>
    BY <1>8 DEF Authorize, TypeOK, persisted, elsewhere, disp
  <2> QED
    BY <2>1, <2>2, <2>3 DEF ExecOK, UnderWay, Locking, Inside, Pending, Phases
<1>9. ASSUME NEW r \in Runs, RefuseRun(r) PROVE ExecOK'
  BY <1>9, JobType
  DEF RefuseRun, Authorized, Fail, persisted, elsewhere, locks, history, OnDevice,
      GoTo, SetResult, inventory, accounts, disp, ExecOK, UnderWay, Locking, Inside,
      Pending, TypeOK, Phases, Runs
<1>10. ASSUME NEW r \in Runs, TryMutex(r) PROVE ExecOK'
  <2>1. /\ status[r] = "RUNNING" /\ phase[r] = "ready" /\ job[r].device \in Devices
        /\ \E p \in {"busy", "slot"} : phase' = [phase EXCEPT ![r] = p]
    BY <1>10 DEF TryMutex, GoTo, ExecOK, UnderWay, Phases, Locking
  <2>2. /\ phase \in [Runs -> Phases]
        /\ UNCHANGED <<status, job, rows, dpc, cur, capacity, proc>>
    BY <1>10 DEF TryMutex, TypeOK, persisted, elsewhere, disp
  <2> QED
    BY <2>1, <2>2 DEF ExecOK, UnderWay, Locking, Inside, Pending, Phases
<1>11. ASSUME NEW r \in Runs, TakeSlot(r) PROVE ExecOK'
  BY <1>11, JobType
  DEF TakeSlot, GoTo, persisted, elsewhere, history, inventory, accounts, disp,
      ExecOK, UnderWay, Locking, Inside, Pending, TypeOK, Phases, Runs
<1>12. ASSUME NEW r \in Runs, SlotTimeout(r) PROVE ExecOK'
  BY <1>12, JobType
  DEF SlotTimeout, FreeMutex, GoTo, persisted, elsewhere, history, inventory,
      accounts, disp, ExecOK, UnderWay, Locking, Inside, Pending, TypeOK, Phases,
      Runs
<1>13. ASSUME NEW r \in Runs, Requeue(r) PROVE ExecOK'
  BY <1>13, JobType
  DEF Requeue, SetStatus, GoTo, inventory, accounts, elsewhere, locks, history,
      disp, ExecOK, UnderWay, Locking, Inside, Pending, TypeOK, Phases, Runs
<1>14. ASSUME NEW r \in Runs, Export(r) PROVE ExecOK'
  BY <1>14, JobType
  DEF Export, Contact, GoTo, persisted, elsewhere, locks, inventory, accounts, disp,
      ExecOK, UnderWay, Locking, Inside, Pending, TypeOK, Phases, Runs
<1>15. ASSUME NEW r \in Runs, BackupSaved(r) PROVE ExecOK'
  BY <1>15, JobType
  DEF BackupSaved, GoTo, persisted, elsewhere, locks, history, inventory, accounts,
      disp, ExecOK, UnderWay, Locking, Inside, Pending, TypeOK, Phases, Runs
<1>16. ASSUME NEW r \in Runs, Launch(r) PROVE ExecOK'
  BY <1>16, JobType
  DEF Launch, Contact, GoTo, persisted, elsewhere, locks, inventory, accounts, disp,
      ExecOK, UnderWay, Locking, Inside, Pending, TypeOK, Phases, Runs
<1>17. ASSUME NEW r \in Runs, WorkDone(r) PROVE ExecOK'
  BY <1>17, JobType
  DEF WorkDone, Release, GoTo, persisted, elsewhere, history, FreeMutex, inventory,
      accounts, disp, ExecOK, UnderWay, Locking, Inside, Pending, TypeOK, Phases,
      Runs
<1>18. ASSUME NEW r \in Runs, WorkFails(r) PROVE ExecOK'
  BY <1>18, JobType
  DEF WorkFails, Inside, Release, Fail, persisted, elsewhere, history, FreeMutex,
      GoTo, SetResult, inventory, accounts, disp, ExecOK, UnderWay, Locking,
      Pending, TypeOK, Phases, Runs
<1>19. ASSUME NEW r \in Runs, Probe(r) PROVE ExecOK'
  BY <1>19, JobType
  DEF Probe, Contact, GoTo, persisted, elsewhere, locks, inventory, accounts, disp,
      ExecOK, UnderWay, Locking, Inside, Pending, TypeOK, Phases, Runs
<1>20. ASSUME NEW r \in Runs, Settle(r) PROVE ExecOK'
  BY <1>20, JobType
  DEF Settle, SetResult, GoTo, persisted, elsewhere, locks, history, inventory,
      accounts, disp, ExecOK, UnderWay, Locking, Inside, Pending, TypeOK, Phases,
      Runs
<1>21. ASSUME NEW r \in Runs, CommitResult(r) PROVE ExecOK'
  BY <1>21, JobType
  DEF CommitResult, SetStatus, GoTo, SetResult, inventory, accounts, elsewhere,
      locks, history, disp, ExecOK, UnderWay, Locking, Inside, Pending, TypeOK,
      Phases, Runs
<1>22. ASSUME NEW r \in Runs, Return(r) PROVE ExecOK'
  BY <1>22, JobType
  DEF Return, GoTo, persisted, elsewhere, locks, history, inventory, accounts, disp,
      ExecOK, UnderWay, Locking, Inside, Pending, TypeOK, Phases, Runs
<1>23. ASSUME NEW r \in Runs, InternalError(r) PROVE ExecOK'
  BY <1>23, JobType
  DEF InternalError, Fail, Use, persisted, elsewhere, locks, history, GoTo,
      SetResult, inventory, accounts, disp, ExecOK, UnderWay, Locking, Inside,
      Pending, TypeOK, Phases, Runs
<1>24. ASSUME NEW r \in Runs, CommitFails(r) PROVE ExecOK'
  BY <1>24, JobType
  DEF CommitFails, GoTo, SetResult, Use, persisted, elsewhere, locks, history,
      inventory, accounts, disp, ExecOK, UnderWay, Locking, Inside, Pending, TypeOK,
      Phases, Runs
<1>25. ASSUME NEW d \in Devices, EditDevice(d) PROVE ExecOK'
  BY <1>25, JobType
  DEF EditDevice, Serving, Use, accounts, elsewhere, execs, locks, history, disp,
      ExecOK, UnderWay, Locking, Inside, Pending, TypeOK, Phases, Runs
<1>26. ASSUME NEW d \in Devices, ArchiveOrRestore(d) PROVE ExecOK'
  BY <1>26, JobType
  DEF ArchiveOrRestore, Serving, Use, accounts, elsewhere, execs, locks, history,
      disp, ExecOK, UnderWay, Locking, Inside, Pending, TypeOK, Phases, Runs
<1>27. ASSUME NEW d \in Devices, ReaderTakesMutex(d) PROVE ExecOK'
  BY <1>27, JobType
  DEF ReaderTakesMutex, Serving, Use, persisted, elsewhere, execs, history,
      inventory, accounts, disp, ExecOK, UnderWay, Locking, Inside, Pending, TypeOK,
      Phases, Runs
<1>28. ASSUME NEW d \in Devices, ReaderTakesSlot(d) PROVE ExecOK'
  BY <1>28, JobType
  DEF ReaderTakesSlot, persisted, elsewhere, execs, history, inventory, accounts,
      disp, ExecOK, UnderWay, Locking, Inside, Pending, TypeOK, Phases, Runs
<1>29. ASSUME NEW d \in Devices, ReaderTimesOut(d) PROVE ExecOK'
  BY <1>29, JobType
  DEF ReaderTimesOut, FreeMutex, persisted, elsewhere, execs, history, inventory,
      accounts, disp, ExecOK, UnderWay, Locking, Inside, Pending, TypeOK, Phases,
      Runs
<1>30. ASSUME NEW d \in Devices, ReaderLeaves(d) PROVE ExecOK'
  BY <1>30, JobType
  DEF ReaderLeaves, FreeMutex, persisted, elsewhere, execs, history, inventory,
      accounts, disp, ExecOK, UnderWay, Locking, Inside, Pending, TypeOK, Phases,
      Runs
<1>31. ASSUME NEW u \in Users, ChangeAccess(u) PROVE ExecOK'
  BY <1>31, JobType
  DEF ChangeAccess, Serving, Pending, Use, inventory, elsewhere, execs, locks, Runs,
      disp, ExecOK, UnderWay, Locking, Inside, TypeOK, Phases
<1>32. ASSUME Poll PROVE ExecOK'
  BY <1>32, JobType
  DEF Poll, Undone, persisted, execs, locks, history, inventory, accounts, ExecOK,
      UnderWay, Locking, Inside, Pending, TypeOK, Phases, Runs
<1>33. ASSUME ReadRunning PROVE ExecOK'
  BY <1>33, JobType
  DEF ReadRunning, Running, persisted, execs, locks, history, Runs, inventory,
      accounts, ExecOK, UnderWay, Locking, Inside, Pending, TypeOK, Phases
<1>34. ASSUME ReadPending PROVE ExecOK'
  BY <1>34, JobType
  DEF ReadPending, Pending, persisted, execs, locks, history, Runs, inventory,
      accounts, ExecOK, UnderWay, Locking, Inside, TypeOK, Phases
<1>35. ASSUME SubmitRow PROVE ExecOK'
  BY <1>35, JobType
  DEF SubmitRow, GoTo, persisted, locks, history, inventory, accounts, ExecOK,
      UnderWay, Locking, Inside, Pending, TypeOK, Phases, Runs
<1>36. ASSUME RefuseRow PROVE ExecOK'
  BY <1>36, JobType
  DEF RefuseRow, SetStatus, Rest, inventory, accounts, execs, locks, history,
      ExecOK, UnderWay, Locking, Inside, Pending, TypeOK, Phases, Runs
<1>37. ASSUME EndPass PROVE ExecOK'
  BY <1>37, JobType
  DEF EndPass, Rest, persisted, execs, locks, history, inventory, accounts, ExecOK,
      UnderWay, Locking, Inside, Pending, TypeOK, Phases, Runs
<1>38. ASSUME PassFails PROVE ExecOK'
  BY <1>38, JobType
  DEF PassFails, Rest, Use, persisted, execs, locks, history, inventory, accounts,
      ExecOK, UnderWay, Locking, Inside, Pending, TypeOK, Phases, Runs
<1>39. ASSUME ReturnSuperseded PROVE ExecOK'
  BY <1>39, JobType
  DEF ReturnSuperseded, persisted, disp, execs, locks, history, inventory, accounts,
      ExecOK, UnderWay, Locking, Inside, Pending, TypeOK, Phases, Runs
<1>40. ASSUME BeginClose PROVE ExecOK'
  BY <1>40, JobType
  DEF BeginClose, Use, persisted, disp, execs, locks, history, inventory, accounts,
      ExecOK, UnderWay, Locking, Inside, Pending, TypeOK, Phases, Runs
<1>41. ASSUME ShutPool PROVE ExecOK'
  BY <1>41, JobType
  DEF ShutPool, Runs, persisted, disp, locks, history, inventory, accounts, ExecOK,
      UnderWay, Locking, Inside, Pending, TypeOK, Phases
<1>42. ASSUME Exit PROVE ExecOK'
  BY <1>42, JobType
  DEF Exit, Fresh, persisted, history, Runs, Rest, inventory, accounts, ExecOK,
      UnderWay, Locking, Inside, Pending, TypeOK, Phases
<1>43. ASSUME Crash PROVE ExecOK'
  BY <1>43, JobType
  DEF Crash, Serving, Fresh, Use, persisted, history, Rest, Runs, inventory,
      accounts, ExecOK, UnderWay, Locking, Inside, Pending, TypeOK, Phases
<1>44. ASSUME Restart PROVE ExecOK'
  BY <1>44, JobType
  DEF Restart, Runs, AfterRestart, inventory, accounts, disp, execs, locks, history,
      ExecOK, UnderWay, Locking, Inside, Pending, TypeOK, Phases
<1>45. CASE UNCHANGED vars
  BY <1>45, JobType DEF vars, persisted, disp, execs, locks, history, inventory, accounts, ExecOK,
      UnderWay, Locking, Inside, Pending, TypeOK, Phases, Runs
<1> QED
  BY <1>1, <1>2, <1>3, <1>4, <1>5, <1>6, <1>7, <1>8, <1>9, <1>10, <1>11, <1>12,
     <1>13, <1>14, <1>15, <1>16, <1>17, <1>18, <1>19, <1>20, <1>21, <1>22, <1>23,
     <1>24, <1>25, <1>26, <1>27, <1>28, <1>29, <1>30, <1>31, <1>32, <1>33, <1>34,
     <1>35, <1>36, <1>37, <1>38, <1>39, <1>40, <1>41, <1>42, <1>43, <1>44, <1>45
  DEF Next, DispatcherStep, WorkerStep, ReaderStep, ProcessStep

LEMMA TypeInvariant == Spec => [](TypeOK /\ ExecOK)
BY TypeInit, TypeStep, ExecStep, PTL DEF Spec

\* Every variable keeps its type: the rows, the dispatcher's locals, the executions
\* and the locks of app/services/jobs.py and network.py.
THEOREM TypeCorrect == Spec => []TypeOK
BY TypeInvariant, PTL

(***************************************************************************)
(* Only some actions touch what the order depends on: the status and the   *)
(* device of each row, and the locals of the dispatcher.                   *)
(***************************************************************************)
ordering == <<status, job, dpc, rows, active, capacity, cur>>

RowStep(r) ==
    \/ Enqueue(r) \/ CancelRow(r) \/ SkipRow(r) \/ ClaimRow(r)
    \/ Load(r) \/ Requeue(r) \/ CommitResult(r)

PassStep ==
    \/ Poll \/ ReadRunning \/ ReadPending \/ SubmitRow \/ RefuseRow
    \/ EndPass \/ PassFails \/ Exit \/ Crash \/ Restart

LEMMA OrderingSteps ==
  ASSUME [Next]_vars
  PROVE  (\E r \in Runs : RowStep(r)) \/ PassStep \/ UNCHANGED ordering
<1> USE DEF ordering, persisted, disp, elsewhere
<1>1. \A r \in Runs : RequestCancel(r) \/ RecordCancel(r) => UNCHANGED ordering
  BY DEF RequestCancel, RecordCancel
<1>2. \A d \in Devices : EditDevice(d) \/ ArchiveOrRestore(d) => UNCHANGED ordering
  BY DEF EditDevice, ArchiveOrRestore
<1>3. \A u \in Users : ChangeAccess(u) => UNCHANGED ordering
  BY DEF ChangeAccess
<1>4. \A d \in Devices : ReaderTakesMutex(d) \/ ReaderStep(d) => UNCHANGED ordering
  BY DEF ReaderTakesMutex, ReaderStep, ReaderTakesSlot, ReaderTimesOut, ReaderLeaves
<1>5. \A r \in Runs : Authorize(r) \/ RefuseRun(r) => UNCHANGED ordering
  BY DEF Authorize, RefuseRun
<1>6. \A r \in Runs : TryMutex(r) \/ TakeSlot(r) \/ SlotTimeout(r)
        => UNCHANGED ordering
  BY DEF TryMutex, TakeSlot, SlotTimeout
<1>7. \A r \in Runs : Export(r) \/ BackupSaved(r) \/ Launch(r) \/ Probe(r)
        => UNCHANGED ordering
  BY DEF Export, BackupSaved, Launch, Probe
<1>8. \A r \in Runs : WorkDone(r) \/ WorkFails(r) \/ Settle(r) \/ Return(r)
        => UNCHANGED ordering
  BY DEF WorkDone, WorkFails, Settle, Return
<1>9. \A r \in Runs : InternalError(r) \/ CommitFails(r) => UNCHANGED ordering
  BY DEF InternalError, CommitFails
<1>10. ReturnSuperseded \/ BeginClose \/ ShutPool => UNCHANGED ordering
  BY DEF ReturnSuperseded, BeginClose, ShutPool
<1>11. UNCHANGED vars => UNCHANGED ordering
  BY DEF vars
<1> QED
  BY <1>1, <1>2, <1>3, <1>4, <1>5, <1>6, <1>7, <1>8, <1>9, <1>10, <1>11
  DEF Next, DispatcherStep, WorkerStep, ProcessStep, RowStep, PassStep

-----------------------------------------------------------------------------
(***************************************************************************)
(* While the dispatcher looks at the PENDING rows, active holds the device *)
(* of every RUNNING row but the one it has just claimed, whose device is   *)
(* not in it.                                                              *)
(***************************************************************************)
ActiveOK ==
    /\ OneRunPerDevice
    /\ dpc \in {"pending", "rows"} =>
        \A r \in Running : OnDevice(r) => job[r].device \in active
    /\ dpc = "submit" =>
        /\ \A r \in Running \ {cur} : OnDevice(r) => job[r].device \in active
        /\ job[cur].device \notin active

\* The RUNNING rows become fewer.
Shrinks ==
    \A r \in Runs : status'[r] = "RUNNING" =>
        status[r] = "RUNNING" /\ job'[r] = job[r]

LEMMA ShrinkingKeepsActive ==
  ASSUME ActiveOK, ExecOK', Shrinks, UNCHANGED <<active, cur>>, UNCHANGED dpc
  PROVE  ActiveOK'
<1>1. dpc' = "submit" => cur' \in Runs /\ job'[cur] = job[cur]
  BY DEF ExecOK, Shrinks
<1> QED
  BY <1>1 DEF ActiveOK, Shrinks, OneRunPerDevice, Running, OnDevice

LEMMA ShrinkingEndsPass ==
  ASSUME ActiveOK, Shrinks, dpc' \in {"wait", "running"}
  PROVE  ActiveOK'
BY DEF ActiveOK, Shrinks, OneRunPerDevice, Running, OnDevice

LEMMA ActiveStep ==
  ASSUME TypeOK, ExecOK, ActiveOK, [Next]_vars
  PROVE  ActiveOK'
<1> USE DEF persisted, disp, elsewhere
<1>0. ExecOK'
  BY ExecStep
<1>1. ASSUME NEW r \in Runs, Enqueue(r) PROVE ActiveOK'
  <2>1. Shrinks
    BY <1>1 DEF Enqueue, SetStatus, TypeOK, Shrinks
  <2> QED
    BY <1>1, <2>1, <1>0, ShrinkingKeepsActive DEF Enqueue
<1>2. ASSUME NEW r \in Runs, CancelRow(r) \/ SkipRow(r) PROVE ActiveOK'
  <2>1. Shrinks
    BY <1>2 DEF CancelRow, SkipRow, SetStatus, TypeOK, Shrinks
  <2> QED
    BY <1>2, <2>1, <1>0, ShrinkingKeepsActive DEF CancelRow, SkipRow
<1>3. ASSUME NEW r \in Runs, Load(r) \/ Requeue(r) \/ CommitResult(r)
      PROVE ActiveOK'
  <2>1. Shrinks
    BY <1>3
    DEF Load, Requeue, CommitResult, SetStatus, TypeOK, Shrinks, Outcomes
  <2> QED
    BY <1>3, <2>1, <1>0, ShrinkingKeepsActive DEF Load, Requeue, CommitResult
<1>4. ASSUME NEW r \in Runs, ClaimRow(r) PROVE ActiveOK'
  <2>1. /\ dpc = "rows" /\ dpc' = "submit" /\ cur' = r /\ UNCHANGED <<job, active>>
        /\ job[r].device \notin active
        /\ status' = [status EXCEPT ![r] = "RUNNING"]
    BY <1>4 DEF ClaimRow, AtRow, MustWait, SetStatus
  <2>2. \A q \in Running : OnDevice(q) => job[q].device \in active
    BY <2>1 DEF ActiveOK
  <2>3. \A q \in Runs \ {r} : status'[q] = status[q]
    BY <2>1 DEF TypeOK
  <2> QED
    BY <2>1, <2>2, <2>3 DEF ActiveOK, OneRunPerDevice, Running, OnDevice
<1>5. ASSUME ReadRunning PROVE ActiveOK'
  <2>1. /\ dpc' = "pending" /\ UNCHANGED <<status, job>>
        /\ active' = {d \in Devices : \E r \in Running : job[r].device = d}
    BY <1>5 DEF ReadRunning
  <2>2. \A r \in Running : OnDevice(r) => job[r].device \in active'
    BY <2>1, JobType DEF Running, OnDevice
  <2> QED
    BY <2>1, <2>2 DEF ActiveOK, OneRunPerDevice, Running, OnDevice
<1>6. ASSUME ReadPending PROVE ActiveOK'
  BY <1>6 DEF ReadPending, ActiveOK, OneRunPerDevice, Running, OnDevice
<1>7. ASSUME SubmitRow PROVE ActiveOK'
  <2>1. /\ dpc = "submit" /\ dpc' = "rows" /\ UNCHANGED <<status, job>>
        /\ active' = active \union ({job[cur].device} \ {NoDevice})
    BY <1>7 DEF SubmitRow
  <2>2. \A r \in Running : OnDevice(r) => job[r].device \in active'
    BY <2>1 DEF ActiveOK, OnDevice
  <2> QED
    BY <2>1, <2>2 DEF ActiveOK, OneRunPerDevice, Running, OnDevice
<1>8. ASSUME Poll \/ EndPass \/ PassFails \/ Exit \/ Crash PROVE ActiveOK'
  <2>1. dpc' \in {"wait", "running"} /\ UNCHANGED <<status, job>>
    BY <1>8 DEF Poll, EndPass, PassFails, Exit, Crash, Fresh, Rest
  <2> QED
    BY <2>1, ShrinkingEndsPass DEF Shrinks
<1>9. ASSUME RefuseRow PROVE ActiveOK'
  <2>1. dpc' = "wait" /\ job' = job /\ status' = [status EXCEPT ![cur] = "PENDING"]
    BY <1>9 DEF RefuseRow, Rest, SetStatus
  <2>2. Shrinks
    BY <2>1 DEF TypeOK, Shrinks
  <2> QED
    BY <2>1, <2>2, ShrinkingEndsPass
<1>10. ASSUME Restart PROVE ActiveOK'
  <2>1. Shrinks /\ dpc' = "wait"
    BY <1>10 DEF Restart, AfterRestart, Shrinks, ExecOK
  <2> QED
    BY <2>1, ShrinkingEndsPass
<1>11. ASSUME UNCHANGED ordering PROVE ActiveOK'
  BY <1>11, <1>0, ShrinkingKeepsActive DEF ordering, Shrinks
<1> QED
  BY <1>1, <1>2, <1>3, <1>4, <1>5, <1>6, <1>7, <1>8, <1>9, <1>10, <1>11, OrderingSteps
  DEF RowStep, PassStep

\* No two runs of one device are RUNNING at once, whatever the dispatcher's snapshot
\* misses (dispatch_pending).
THEOREM OneRunAtATime == Spec => []OneRunPerDevice
<1>1. Init => ActiveOK
  BY DEF Init, ActiveOK, OneRunPerDevice, Running
<1>2. TypeOK /\ ExecOK /\ ActiveOK /\ [Next]_vars => ActiveOK'
  BY ActiveStep
<1>3. ActiveOK => OneRunPerDevice
  BY DEF ActiveOK
<1> QED
  BY <1>1, <1>2, <1>3, TypeInvariant, PTL DEF Spec

-----------------------------------------------------------------------------
\* An execution about to commit knows its result, and it is not INTERRUPTED.
ResultOK == \A r \in Runs : phase[r] = "commit" => result[r] \in Outcomes \ {"INTERRUPTED"}

LEMMA ResultStep ==
  ASSUME TypeOK, ResultOK, [Next]_vars
  PROVE  ResultOK'
<1> USE DEF execs, elsewhere, GoTo, SetResult
<1>1. \A r \in Runs : Enqueue(r) \/ RequestCancel(r) \/ RecordCancel(r) => ResultOK'
  BY DEF Enqueue, RequestCancel, RecordCancel, ResultOK
<1>2. \A d \in Devices : EditDevice(d) \/ ArchiveOrRestore(d) => ResultOK'
  BY DEF EditDevice, ArchiveOrRestore, ResultOK
<1>3. \A u \in Users : ChangeAccess(u) => ResultOK'
  BY DEF ChangeAccess, ResultOK
<1>4. \A d \in Devices : ReaderTakesMutex(d) \/ ReaderStep(d) => ResultOK'
  BY DEF ReaderTakesMutex, ReaderStep, ReaderTakesSlot, ReaderTimesOut, ReaderLeaves,
         ResultOK
<1>5. \A r \in Runs : CancelRow(r) \/ SkipRow(r) \/ ClaimRow(r) => ResultOK'
  BY DEF CancelRow, SkipRow, ClaimRow, ResultOK
<1>6. Poll \/ ReadRunning \/ ReadPending \/ RefuseRow \/ EndPass \/ PassFails => ResultOK'
  BY DEF Poll, ReadRunning, ReadPending, RefuseRow, EndPass, PassFails, ResultOK
<1>7. SubmitRow => ResultOK'
  BY DEF SubmitRow, ResultOK, TypeOK
<1>8. ASSUME NEW r \in Runs,
             RefuseRun(r) \/ InternalError(r) \/ WorkFails(r) \/ Settle(r)
      PROVE  ResultOK'
  <2>1. /\ phase' = [phase EXCEPT ![r] = "commit"]
        /\ \E o \in {"SUCCESS", "FAILED", "CANCELLED"} :
              result' = [result EXCEPT ![r] = o]
    BY <1>8 DEF RefuseRun, InternalError, WorkFails, Settle, Fail
  <2> QED
    BY <2>1 DEF ResultOK, TypeOK, Outcomes
<1>9. ASSUME NEW r \in Runs, CommitResult(r) \/ CommitFails(r) PROVE ResultOK'
  <2>1. /\ phase' = [phase EXCEPT ![r] = "returning"]
        /\ result' = [result EXCEPT ![r] = "NONE"]
    BY <1>9 DEF CommitResult, CommitFails
  <2> QED
    BY <2>1 DEF ResultOK, TypeOK
<1>10. ASSUME NEW r \in Runs,
              \/ Load(r) \/ Authorize(r) \/ TryMutex(r) \/ TakeSlot(r) \/ SlotTimeout(r)
              \/ Requeue(r) \/ Export(r) \/ BackupSaved(r) \/ Launch(r) \/ WorkDone(r)
              \/ Probe(r) \/ Return(r)
       PROVE  ResultOK'
  <2>1. /\ \E p \in Phases \ {"commit"} : phase' = [phase EXCEPT ![r] = p]
        /\ result' = result
    BY <1>10
    DEF Load, Authorize, TryMutex, TakeSlot, SlotTimeout, Requeue, Export, BackupSaved,
        Launch, WorkDone, Probe, Return, Phases
  <2> QED
    BY <2>1 DEF ResultOK, TypeOK
<1>11. ReturnSuperseded \/ BeginClose \/ Restart \/ UNCHANGED vars => ResultOK'
  BY DEF ReturnSuperseded, BeginClose, Restart, vars, ResultOK
<1>12. ShutPool \/ Exit \/ Crash => ResultOK'
  BY DEF ShutPool, Exit, Crash, Fresh, ResultOK, TypeOK
<1> QED
  BY <1>1, <1>2, <1>3, <1>4, <1>5, <1>6, <1>7, <1>8, <1>9, <1>10, <1>11, <1>12
  DEF Next, DispatcherStep, WorkerStep, ProcessStep

-----------------------------------------------------------------------------
(***************************************************************************)
(* What was sent is not sent again: a run with a contact is past the       *)
(* phases that lead to one, and the row the dispatcher has claimed has     *)
(* none.                                                                   *)
(***************************************************************************)
Preparing == {"pool", "loaded", "ready", "slot", "work", "probe", "busy"}

SentOK ==
    /\ \A r \in Runs : contacted[r] # {} =>
        status[r] \notin {"NONE", "PENDING"} /\ phase[r] \notin Preparing
    /\ dpc = "submit" => contacted[cur] = {}

\* A worker's step takes an execution from one phase to another.  It enters a phase
\* of Preparing from a phase of Preparing only, and requeues a row in such a phase only.
WorkerMoves(r) ==
    /\ \E p \in Phases : /\ phase' = [phase EXCEPT ![r] = p]
                         /\ p \in Preparing => phase[r] \in Preparing
    /\ \/ UNCHANGED status
       \/ \E s \in Statuses : /\ status' = [status EXCEPT ![r] = s]
                              /\ s \in {"NONE", "PENDING"} => phase[r] \in Preparing
    /\ UNCHANGED <<contacted, dpc, cur>>

\* A contact takes the execution out of Preparing; its row is RUNNING.
ContactMoves(r) ==
    /\ phase[r] \in UnderWay
    /\ \E p \in Phases \ Preparing : phase' = [phase EXCEPT ![r] = p]
    /\ \E i : contacted' = [contacted EXCEPT ![r] = @ \union {i}]
    /\ UNCHANGED <<status, job, dpc, cur>>

LEMMA WorkerStepMoves ==
  ASSUME TypeOK, ResultOK, NEW r \in Runs, WorkerStep(r) \/ InternalError(r) \/ CommitFails(r)
  PROVE  WorkerMoves(r) \/ ContactMoves(r)
<1> USE DEF persisted, disp, elsewhere, history, GoTo, SetStatus, Preparing
<1>1. CASE Load(r)
  <2>1. CASE Cancelled(r)
    BY <1>1, <2>1 DEF Load, WorkerMoves, Phases, Statuses, Outcomes
  <2>2. CASE ~Cancelled(r)
    BY <1>1, <2>2 DEF Load, WorkerMoves, Phases
  <2> QED
    BY <2>1, <2>2
<1>2. CASE Authorize(r)
  BY <1>2 DEF Authorize, WorkerMoves, Phases
<1>3. CASE RefuseRun(r) \/ InternalError(r)
  BY <1>3 DEF RefuseRun, InternalError, Fail, WorkerMoves, Phases
<1>4. CASE TryMutex(r)
  BY <1>4 DEF TryMutex, WorkerMoves, Phases
<1>5. CASE TakeSlot(r) \/ SlotTimeout(r)
  BY <1>5 DEF TakeSlot, SlotTimeout, WorkerMoves, Phases
<1>6. CASE Requeue(r)
  BY <1>6 DEF Requeue, WorkerMoves, Phases, Statuses
<1>7. CASE Export(r) \/ Launch(r) \/ Probe(r)
  <2>1. \E i : contacted' = [contacted EXCEPT ![r] = @ \union {i}]
    BY <1>7 DEF Export, Launch, Probe, Contact
  <2> QED
    BY <1>7, <2>1 DEF Export, Launch, Probe, ContactMoves, Phases, UnderWay
<1>8. CASE BackupSaved(r)
  BY <1>8 DEF BackupSaved, WorkerMoves, Phases
<1>9. CASE WorkDone(r) \/ WorkFails(r)
  BY <1>9 DEF WorkDone, WorkFails, Fail, WorkerMoves, Phases
<1>10. CASE Settle(r) \/ Return(r) \/ CommitFails(r)
  BY <1>10 DEF Settle, Return, CommitFails, WorkerMoves, Phases
<1>11. CASE CommitResult(r)
  <2>1. result[r] \in Statuses \ {"NONE", "PENDING"}
    BY <1>11 DEF CommitResult, ResultOK, Statuses, Outcomes
  <2> QED
    BY <1>11, <2>1 DEF CommitResult, WorkerMoves, Phases
<1> QED
  BY <1>1, <1>2, <1>3, <1>4, <1>5, <1>6, <1>7, <1>8, <1>9, <1>10, <1>11 DEF WorkerStep

LEMMA WorkerKeepsSent ==
  ASSUME TypeOK, ExecOK, ExecOK', SentOK, NEW r \in Runs,
         WorkerMoves(r) \/ ContactMoves(r)
  PROVE  SentOK'
<1>1. /\ phase \in [Runs -> Phases] /\ status \in [Runs -> Statuses]
      /\ contacted \in [Runs -> SUBSET (Idents \union {NoIdent})]
      /\ dpc' = dpc /\ cur' = cur
  BY DEF TypeOK, WorkerMoves, ContactMoves
<1>2. \A q \in Runs \ {r} : /\ status'[q] = status[q] /\ phase'[q] = phase[q]
                            /\ contacted'[q] = contacted[q]
  BY <1>1 DEF WorkerMoves, ContactMoves
<1>3. contacted'[r] # {} =>
        status'[r] \notin {"NONE", "PENDING"} /\ phase'[r] \notin Preparing
  <2>1. CASE WorkerMoves(r)
    BY <1>1, <2>1 DEF WorkerMoves, SentOK
  <2>2. CASE ContactMoves(r)
    BY <1>1, <2>2 DEF ContactMoves, ExecOK
  <2> QED
    BY <2>1, <2>2
<1>4. dpc = "submit" => contacted'[cur] = {}
  <2>1. CASE WorkerMoves(r)
    BY <2>1 DEF WorkerMoves, SentOK
  <2>2. CASE ContactMoves(r)
    BY <1>2, <2>2 DEF ContactMoves, SentOK, ExecOK
  <2> QED
    BY <2>1, <2>2
<1> QED
  BY <1>1, <1>2, <1>3, <1>4 DEF SentOK

LEMMA SentStep ==
  ASSUME TypeOK, ExecOK, ExecOK', ResultOK, SentOK, [Next]_vars
  PROVE  SentOK'
<1> USE DEF persisted, disp, execs, history, elsewhere
<1>1. \A r \in Runs : RequestCancel(r) \/ RecordCancel(r) => SentOK'
  BY DEF RequestCancel, RecordCancel, SentOK
<1>2. \A d \in Devices : EditDevice(d) \/ ArchiveOrRestore(d) => SentOK'
  BY DEF EditDevice, ArchiveOrRestore, SentOK
<1>3. \A u \in Users : ChangeAccess(u) => SentOK'
  BY DEF ChangeAccess, SentOK
<1>4. \A d \in Devices : ReaderTakesMutex(d) \/ ReaderStep(d) => SentOK'
  BY DEF ReaderTakesMutex, ReaderStep, ReaderTakesSlot, ReaderTimesOut, ReaderLeaves,
         SentOK
<1>5. ASSUME NEW r \in Runs, Enqueue(r) PROVE SentOK'
  BY <1>5 DEF Enqueue, SetStatus, SentOK, ExecOK, TypeOK
<1>6. ASSUME NEW r \in Runs, CancelRow(r) \/ SkipRow(r) PROVE SentOK'
  BY <1>6 DEF CancelRow, SkipRow, AtRow, SetStatus, SentOK, TypeOK
<1>7. ASSUME NEW r \in Runs, ClaimRow(r) PROVE SentOK'
  BY <1>7 DEF ClaimRow, AtRow, SetStatus, SentOK, TypeOK, ExecOK, Pending
<1>8. Poll \/ ReadRunning \/ ReadPending \/ EndPass \/ PassFails => SentOK'
  BY DEF Poll, ReadRunning, ReadPending, EndPass, PassFails, Rest, SentOK
<1>9. ASSUME SubmitRow PROVE SentOK'
  BY <1>9 DEF SubmitRow, GoTo, SentOK, TypeOK
<1>10. ASSUME RefuseRow PROVE SentOK'
  BY <1>10 DEF RefuseRow, Rest, SetStatus, SentOK, TypeOK
<1>11. ASSUME NEW r \in Runs, WorkerStep(r) \/ InternalError(r) \/ CommitFails(r)
       PROVE  SentOK'
  BY <1>11, WorkerStepMoves, WorkerKeepsSent
<1>12. ReturnSuperseded \/ BeginClose \/ UNCHANGED vars => SentOK'
  BY DEF ReturnSuperseded, BeginClose, vars, SentOK
<1>13. ShutPool \/ Exit \/ Crash => SentOK'
  BY DEF ShutPool, Exit, Crash, Fresh, Rest, SentOK, Preparing
<1>14. ASSUME Restart PROVE SentOK'
  BY <1>14 DEF Restart, AfterRestart, SentOK, ExecOK, TypeOK
<1> QED
  BY <1>1, <1>2, <1>3, <1>4, <1>5, <1>6, <1>7, <1>8, <1>9, <1>10, <1>11, <1>12, <1>13,
     <1>14
  DEF Next, DispatcherStep, ProcessStep

LEMMA SentInvariant == Spec => [](ResultOK /\ SentOK)
<1>1. Init => ResultOK /\ SentOK
  BY DEF Init, ResultOK, SentOK
<1>2. TypeOK /\ ExecOK /\ ExecOK' /\ ResultOK /\ SentOK /\ [Next]_vars
        => ResultOK' /\ SentOK'
  BY ResultStep, SentStep
<1> QED
  BY <1>1, <1>2, TypeInvariant, PTL DEF Spec

\* Once anything was sent for a run it neither waits nor begins again (the retry of
\* execute, __init__).
THEOREM NothingReplayed == Spec => []NeverReplayed
<1>1. SentOK => NeverReplayed
  BY DEF SentOK, NeverReplayed, Preparing
<1> QED
  BY <1>1, SentInvariant, PTL

-----------------------------------------------------------------------------
(***************************************************************************)
(* Rows and executions.  While the pool accepts work and no commit was     *)
(* lost, a RUNNING row has its execution or is about to get it.            *)
(***************************************************************************)
Lost(r) ==
    /\ status[r] = "RUNNING"
    /\ phase[r] \notin UnderWay
    /\ ~(dpc = "submit" /\ cur = r)

NoneLost ==
    proc \in {"up", "closing"} /\ used["faults"] = 0 => \A r \in Runs : ~Lost(r)

\* A step that leaves the process and the faults alone and loses no row.
LEMMA LosingNone ==
  ASSUME NoneLost, UNCHANGED proc, used'["faults"] = used["faults"],
         \A r \in Runs : Lost(r)' => Lost(r)
  PROVE  NoneLost'
BY DEF NoneLost

LEMMA CountersApart ==
  ASSUME TypeOK, NEW c \in Counters, Use(c)
  PROVE  /\ c # "faults" => used'["faults"] = used["faults"]
         /\ c = "faults" => used'["faults"] # 0
BY DEF TypeOK, Use, Counters

LEMMA WorkerLosesNone ==
  ASSUME TypeOK, ExecOK, ResultOK, NEW q \in Runs, WorkerStep(q), NEW r \in Runs,
         Lost(r)'
  PROVE  Lost(r)
<1> USE DEF GoTo, SetStatus, elsewhere, disp
<1>1. phase \in [Runs -> Phases] /\ status \in [Runs -> Statuses]
  BY DEF TypeOK
<1>2. dpc' = dpc /\ cur' = cur
  BY DEF WorkerStep, Load, Authorize, RefuseRun, TryMutex, TakeSlot, SlotTimeout, Requeue,
         Export, BackupSaved, Launch, WorkDone, WorkFails, Probe, Settle, CommitResult,
         Return
<1>3. \/ \E p \in UnderWay : phase' = [phase EXCEPT ![q] = p] /\ status' = status
      \/ /\ \E p \in Phases : phase' = [phase EXCEPT ![q] = p]
         /\ \E s \in Statuses \ {"RUNNING"} : status' = [status EXCEPT ![q] = s]
      \/ phase[q] \notin UnderWay /\ phase' = [phase EXCEPT ![q] = "none"] /\ status' = status
  <2> USE DEF UnderWay, Phases, Statuses, Outcomes, persisted
  <2>1. CASE Load(q)
    BY <2>1 DEF Load
  <2>2. CASE Authorize(q) \/ RefuseRun(q)
    BY <2>2 DEF Authorize, RefuseRun, Fail
  <2>3. CASE TryMutex(q) \/ TakeSlot(q) \/ SlotTimeout(q)
    BY <2>3 DEF TryMutex, TakeSlot, SlotTimeout
  <2>4. CASE Requeue(q)
    BY <2>4 DEF Requeue
  <2>5. CASE Export(q) \/ BackupSaved(q) \/ Launch(q)
    BY <2>5 DEF Export, BackupSaved, Launch
  <2>6. CASE WorkDone(q) \/ WorkFails(q)
    BY <2>6 DEF WorkDone, WorkFails, Fail
  <2>7. CASE Probe(q) \/ Settle(q) \/ Return(q)
    BY <2>7 DEF Probe, Settle, Return
  <2>8. CASE CommitResult(q)
    BY <2>8 DEF CommitResult, ResultOK
  <2> QED
    BY <2>1, <2>2, <2>3, <2>4, <2>5, <2>6, <2>7, <2>8 DEF WorkerStep
<1> QED
  BY <1>1, <1>2, <1>3 DEF Lost, UnderWay, Phases

LEMMA NoneLostStep ==
  ASSUME TypeOK, ExecOK, ResultOK, NoneLost, [Next]_vars
  PROVE  NoneLost'
<1> USE DEF persisted, disp, execs, elsewhere
<1>1. ASSUME NEW r \in Runs, Enqueue(r) PROVE NoneLost'
  BY <1>1, LosingNone DEF Enqueue, SetStatus, TypeOK, Lost
<1>2. ASSUME NEW r \in Runs, RequestCancel(r) PROVE NoneLost'
  BY <1>2, LosingNone, CountersApart DEF RequestCancel, Lost, Counters
<1>3. ASSUME NEW r \in Runs, RecordCancel(r) PROVE NoneLost'
  BY <1>3, LosingNone DEF RecordCancel, Lost
<1>4. ASSUME NEW d \in Devices, EditDevice(d) \/ ArchiveOrRestore(d) PROVE NoneLost'
  BY <1>4, LosingNone, CountersApart DEF EditDevice, ArchiveOrRestore, Lost, Counters
<1>5. ASSUME NEW u \in Users, ChangeAccess(u) PROVE NoneLost'
  BY <1>5, LosingNone, CountersApart DEF ChangeAccess, Lost, Counters
<1>6. ASSUME NEW d \in Devices, ReaderTakesMutex(d) \/ ReaderStep(d) PROVE NoneLost'
  BY <1>6, LosingNone, CountersApart
  DEF ReaderTakesMutex, ReaderStep, ReaderTakesSlot, ReaderTimesOut, ReaderLeaves, Lost,
      Counters
<1>7. ASSUME NEW r \in Runs, CancelRow(r) \/ SkipRow(r) PROVE NoneLost'
  BY <1>7, LosingNone DEF CancelRow, SkipRow, SetStatus, TypeOK, Lost
<1>8. ASSUME NEW r \in Runs, ClaimRow(r) PROVE NoneLost'
  BY <1>8, LosingNone DEF ClaimRow, AtRow, SetStatus, TypeOK, Lost
<1>9. Poll \/ ReadRunning \/ ReadPending \/ EndPass => NoneLost'
  BY LosingNone DEF Poll, ReadRunning, ReadPending, EndPass, Rest, Lost
<1>10. ASSUME SubmitRow PROVE NoneLost'
  BY <1>10, LosingNone DEF SubmitRow, GoTo, TypeOK, Lost, UnderWay, Phases
<1>11. RefuseRow => NoneLost'
  BY DEF RefuseRow, NoneLost
<1>12. PassFails => NoneLost'
  BY CountersApart DEF PassFails, NoneLost, Counters
<1>13. ASSUME NEW r \in Runs, WorkerStep(r) PROVE NoneLost'
  <2>1. proc' = proc
    BY <1>13
    DEF WorkerStep, Load, Authorize, RefuseRun, TryMutex, TakeSlot, SlotTimeout, Requeue,
        Export, BackupSaved, Launch, WorkDone, WorkFails, Probe, Settle, CommitResult,
        Return
  <2>2. used' = used
    BY <1>13
    DEF WorkerStep, Load, Authorize, RefuseRun, TryMutex, TakeSlot, SlotTimeout, Requeue,
        Export, BackupSaved, Launch, WorkDone, WorkFails, Probe, Settle, CommitResult,
        Return
  <2> QED
    BY <1>13, <2>1, <2>2, WorkerLosesNone, LosingNone
<1>14. ASSUME NEW r \in Runs, InternalError(r) \/ CommitFails(r) PROVE NoneLost'
  BY <1>14, CountersApart DEF InternalError, CommitFails, NoneLost, Counters
<1>15. ReturnSuperseded \/ UNCHANGED vars => NoneLost'
  BY LosingNone DEF ReturnSuperseded, vars, Lost
<1>16. ASSUME BeginClose PROVE NoneLost'
  BY <1>16, CountersApart DEF BeginClose, NoneLost, Lost, Counters
<1>17. ShutPool \/ Exit \/ Crash => NoneLost'
  BY DEF ShutPool, Exit, Crash, NoneLost
<1>18. Restart => NoneLost'
  BY DEF Restart, AfterRestart, NoneLost, Lost
<1> QED
  BY <1>1, <1>2, <1>3, <1>4, <1>5, <1>6, <1>7, <1>8, <1>9, <1>10, <1>11, <1>12, <1>13,
     <1>14, <1>15, <1>16, <1>17, <1>18
  DEF Next, DispatcherStep, ProcessStep

\* Rows and executions agree (dispatch_pending, execute, __init__): no RUNNING row is
\* without its execution, except for a lost commit or a pool that is shut down.
THEOREM RowsHaveExecutions == Spec => []RowsMatchExecutions
<1>1. Init => NoneLost
  BY DEF Init, NoneLost, Lost
<1>2. TypeOK /\ ExecOK /\ ResultOK /\ NoneLost /\ [Next]_vars => NoneLost'
  BY NoneLostStep
<1>3. TypeOK /\ ExecOK /\ NoneLost => RowsMatchExecutions
  BY DEF TypeOK, ExecOK, NoneLost, Lost, RowsMatchExecutions, UnderWay
<1> QED
  BY <1>1, <1>2, <1>3, TypeInvariant, SentInvariant, PTL DEF Spec

-----------------------------------------------------------------------------
(***************************************************************************)
(* What a step may do to one row: a row that exists keeps its device, a    *)
(* finished one its status; only ClaimRow starts a row, only Enqueue       *)
(* inserts one, and only a retry makes a row wait again.                   *)
(***************************************************************************)
RowEvolves(r) ==
    /\ status[r] # "NONE" => job'[r] = job[r] /\ status'[r] # "NONE"
    /\ status[r] \in Outcomes => status'[r] \in Outcomes
    /\ status'[r] = "RUNNING" => status[r] = "RUNNING" \/ ClaimRow(r)
    /\ status'[r] # "NONE" => status[r] # "NONE" \/ Enqueue(r)
    /\ status'[r] = "PENDING" => \/ status[r] = "PENDING"
                                 \/ Enqueue(r)
                                 \/ Requeue(r)
                                 \/ RefuseRow /\ r = cur

LEMMA EnqueueJob ==
  ASSUME TypeOK, NEW q \in Runs, Enqueue(q)
  PROVE  /\ \E v : job' = [job EXCEPT ![q] = v]
         /\ \A r \in Runs \ {q} : job'[r] = job[r]
BY DEF Enqueue, TypeOK

LEMMA RowHistory ==
  ASSUME TypeOK, ExecOK, ResultOK, [Next]_vars, NEW r \in Runs
  PROVE  RowEvolves(r)
<1> USE DEF SetStatus, Outcomes
<1>1. ASSUME NEW q \in Runs, Enqueue(q) PROVE RowEvolves(r)
  <2>1. status[q] = "NONE" /\ status' = [status EXCEPT ![q] = "PENDING"]
    BY <1>1 DEF Enqueue
  <2>2. \A x \in Runs \ {q} : job'[x] = job[x]
    BY <1>1, EnqueueJob
  <2>3. status \in [Runs -> Statuses]
    BY DEF TypeOK
  <2> QED
    BY <1>1, <2>1, <2>2, <2>3 DEF RowEvolves
<1>2. ASSUME NEW q \in Runs, CancelRow(q) \/ ClaimRow(q) PROVE RowEvolves(r)
  BY <1>2 DEF CancelRow, ClaimRow, AtRow, ExecOK, Pending, TypeOK, RowEvolves
<1>3. ASSUME NEW q \in Runs, Load(q) PROVE RowEvolves(r)
  <2>1. status[q] = "RUNNING"
    BY <1>3 DEF Load, ExecOK, UnderWay, Phases
  <2> QED
    BY <1>3, <2>1 DEF Load, TypeOK, RowEvolves
<1>4. ASSUME NEW q \in Runs, Requeue(q) PROVE RowEvolves(r)
  <2>1. status[q] = "RUNNING"
    BY <1>4 DEF Requeue, ExecOK, UnderWay, Phases
  <2> QED
    BY <1>4, <2>1 DEF Requeue, TypeOK, RowEvolves
<1>5. ASSUME NEW q \in Runs, CommitResult(q) PROVE RowEvolves(r)
  <2>1. status[q] = "RUNNING" /\ result[q] \in Outcomes
    BY <1>5 DEF CommitResult, ExecOK, UnderWay, Phases, ResultOK
  <2> QED
    BY <1>5, <2>1 DEF CommitResult, TypeOK, RowEvolves
<1>6. ASSUME RefuseRow PROVE RowEvolves(r)
  BY <1>6 DEF RefuseRow, ExecOK, TypeOK, RowEvolves
<1>7. ASSUME Restart PROVE RowEvolves(r)
  BY <1>7 DEF Restart, AfterRestart, RowEvolves
<1>8. UNCHANGED <<status, job>> => RowEvolves(r)
  BY DEF RowEvolves
<1>9. \A q \in Runs : SkipRow(q) => RowEvolves(r)
  BY <1>8 DEF SkipRow, persisted
<1>10. Poll \/ ReadRunning \/ ReadPending \/ SubmitRow => RowEvolves(r)
  BY <1>8 DEF Poll, ReadRunning, ReadPending, SubmitRow, persisted
<1>11. EndPass \/ PassFails \/ Exit \/ Crash => RowEvolves(r)
  BY <1>8 DEF EndPass, PassFails, Exit, Crash, persisted
<1>12. UNCHANGED ordering => RowEvolves(r)
  BY <1>8 DEF ordering
<1>13. \A q \in Runs : RowStep(q) => RowEvolves(r)
  BY <1>1, <1>2, <1>3, <1>4, <1>5, <1>9 DEF RowStep
<1>14. PassStep => RowEvolves(r)
  BY <1>6, <1>7, <1>10, <1>11 DEF PassStep
<1> QED
  BY <1>12, <1>13, <1>14, OrderingSteps

\* A contact is made by a worker's step, for a RUNNING row.
LEMMA ContactHistory ==
  ASSUME TypeOK, ExecOK, ResultOK, [Next]_vars
  PROVE  UNCHANGED contacted \/ \E r \in Runs : ContactMoves(r) /\ status[r] = "RUNNING"
<1> DEFINE Same == UNCHANGED contacted
<1> USE DEF history, execs, elsewhere, persisted, disp
<1>1. \A q \in Runs : Enqueue(q) \/ RequestCancel(q) \/ RecordCancel(q)
        => Same
  BY DEF Enqueue, RequestCancel, RecordCancel
<1>2. \A d \in Devices : EditDevice(d) \/ ArchiveOrRestore(d) => Same
  BY DEF EditDevice, ArchiveOrRestore
<1>3. \A u \in Users : ChangeAccess(u) => Same
  BY DEF ChangeAccess
<1>4. \A d \in Devices : ReaderTakesMutex(d) \/ ReaderStep(d) => Same
  BY DEF ReaderTakesMutex, ReaderStep, ReaderTakesSlot, ReaderTimesOut, ReaderLeaves
<1>5. \A q \in Runs : CancelRow(q) \/ SkipRow(q) \/ ClaimRow(q) => Same
  BY DEF CancelRow, SkipRow, ClaimRow
<1>6. Poll \/ ReadRunning \/ ReadPending \/ SubmitRow \/ RefuseRow \/ EndPass => Same
  BY DEF Poll, ReadRunning, ReadPending, SubmitRow, RefuseRow, EndPass
<1>7. PassFails \/ ReturnSuperseded \/ BeginClose \/ ShutPool \/ Exit \/ Crash \/ Restart
        => Same
  BY DEF PassFails, ReturnSuperseded, BeginClose, ShutPool, Exit, Crash, Restart
<1>8. ASSUME NEW r \in Runs, WorkerStep(r) \/ InternalError(r) \/ CommitFails(r)
      PROVE  Same \/ (ContactMoves(r) /\ status[r] = "RUNNING")
  <2>1. WorkerMoves(r) => Same
    BY DEF WorkerMoves
  <2>2. ContactMoves(r) => status[r] = "RUNNING"
    BY DEF ContactMoves, ExecOK
  <2> QED
    BY <1>8, <2>1, <2>2, WorkerStepMoves
<1> HIDE DEF Same
<1>9. CASE UNCHANGED vars
  BY <1>9 DEF vars, Same
<1>10. CASE \E r \in Runs : WorkerStep(r) \/ InternalError(r) \/ CommitFails(r)
  BY <1>8, <1>10 DEF Same
<1>11. CASE Next /\ ~\E r \in Runs : WorkerStep(r) \/ InternalError(r) \/ CommitFails(r)
  BY <1>1, <1>2, <1>3, <1>4, <1>5, <1>6, <1>7, <1>11
  DEF Next, DispatcherStep, ProcessStep, Same
<1> QED
  BY <1>9, <1>10, <1>11

-----------------------------------------------------------------------------
(***************************************************************************)
(* The order of a device's runs.  Rows are inserted in the order of their  *)
(* numbers; and of the PENDING rows, an earlier one of the same device is  *)
(* missing among those the pass still holds only when the pass cannot      *)
(* start the later one either.                                             *)
(***************************************************************************)
Precedes(q, r) == q < r /\ OnDevice(q) /\ job[q].device = job[r].device

Inserted ==
    \A q, r \in Runs : q < r /\ status[r] # "NONE" => status[q] # "NONE"

PassOK ==
    dpc \in {"rows", "submit"} =>
        \A q \in Runs, r \in rows :
            Precedes(q, r) /\ status[q] = "PENDING" =>
                q \in rows \/ job[q].device \in active \/ capacity = 0

FifoOK == Inserted /\ DeviceFifo /\ PassOK

Started(r) == status[r] = "RUNNING" \/ contacted[r] # {}

LEMMA InsertedStep ==
  ASSUME TypeOK, ExecOK, ResultOK, Inserted, [Next]_vars
  PROVE  Inserted'
<1>1. SUFFICES ASSUME NEW q \in Runs, NEW r \in Runs, q < r, status'[r] # "NONE"
               PROVE  status'[q] # "NONE"
  BY DEF Inserted
<1>2. CASE status[r] # "NONE"
  BY <1>1, <1>2, RowHistory DEF RowEvolves, Inserted
<1>3. CASE Enqueue(r)
  <2>1. status[q] # "NONE"
    BY <1>1, <1>3 DEF Enqueue
  <2> QED
    BY <2>1, RowHistory DEF RowEvolves
<1> QED
  BY <1>1, <1>2, <1>3, RowHistory DEF RowEvolves

\* A row that the dispatcher claims has no earlier row of its device left.
LEMMA ClaimInOrder ==
  ASSUME TypeOK, ExecOK, ActiveOK, Inserted, PassOK,
         NEW q \in Runs, NEW r \in Runs, ClaimRow(r), Precedes(q, r)
  PROVE  status[q] \in Outcomes
<1>1. /\ dpc = "rows" /\ r \in rows /\ \A x \in rows : r <= x
      /\ capacity # 0 /\ job[r].device \notin active
  BY DEF ClaimRow, AtRow, MustWait
<1>2. status[r] = "PENDING"
  BY <1>1 DEF ExecOK, Pending
<1>3. status[q] # "NONE"
  BY <1>2 DEF Inserted, Precedes
<1>4. status[q] # "RUNNING"
  BY <1>1 DEF ActiveOK, Precedes, Running
<1>5. status[q] # "PENDING"
  <2>1. q \notin rows
    BY <1>1 DEF Precedes, Runs
  <2> QED
    BY <1>1, <2>1 DEF PassOK, Precedes
<1> QED
  BY <1>3, <1>4, <1>5 DEF TypeOK, Statuses

LEMMA FifoStep ==
  ASSUME TypeOK, ExecOK, ResultOK, ActiveOK, SentOK, FifoOK, [Next]_vars
  PROVE  DeviceFifo'
<1>1. SUFFICES ASSUME NEW q \in Runs, NEW r \in Runs, Precedes(q, r)', Started(r)'
               PROVE  status'[q] \in Outcomes
  BY DEF DeviceFifo, Precedes, Started
<1>2. Started(r) \/ ClaimRow(r)
  <2>1. contacted'[r] # {} => Started(r)
    BY ContactHistory DEF Started, ContactMoves, TypeOK
  <2>2. status'[r] = "RUNNING" => Started(r) \/ ClaimRow(r)
    BY RowHistory DEF RowEvolves, Started
  <2> QED
    BY <1>1, <2>1, <2>2 DEF Started
<1>3. status[r] # "NONE"
  BY <1>2 DEF Started, SentOK, ClaimRow, AtRow, ExecOK, Pending
<1>4. status[q] # "NONE"
  BY <1>1, <1>3 DEF FifoOK, Inserted, Precedes
<1>5. Precedes(q, r)
  <2>1. job'[q] = job[q] /\ job'[r] = job[r]
    BY <1>3, <1>4, RowHistory DEF RowEvolves
  <2> QED
    BY <1>1, <2>1 DEF Precedes, OnDevice
<1>6. status[q] \in Outcomes
  <2>1. CASE Started(r)
    BY <1>5, <2>1 DEF FifoOK, DeviceFifo, Started, Precedes
  <2>2. CASE ClaimRow(r)
    BY <1>5, <2>2, ClaimInOrder DEF FifoOK
  <2> QED
    BY <1>2, <2>1, <2>2
<1> QED
  BY <1>6, RowHistory DEF RowEvolves

LEMMA PassStepKeepsPass ==
  ASSUME TypeOK, ExecOK, ResultOK, ActiveOK, Inserted, PassOK, [Next]_vars
  PROVE  PassOK'
<1>0. status \in [Runs -> Statuses] /\ rows \subseteq Pending
  BY DEF TypeOK, ExecOK
<1>1. ASSUME NEW x \in Runs, Enqueue(x) PROVE PassOK'
  <2>1. /\ status[x] = "NONE" /\ status' = [status EXCEPT ![x] = "PENDING"]
        /\ UNCHANGED <<dpc, rows, active, capacity>>
    BY <1>1 DEF Enqueue, SetStatus, elsewhere, disp
  <2>2. \A y \in Runs \ {x} : job'[y] = job[y] /\ status'[y] = status[y]
    BY <1>0, <1>1, <2>1, EnqueueJob
  <2>3. \A r \in rows : r \in Runs \ {x} /\ ~(x < r)
    BY <1>0, <2>1 DEF Pending, Inserted
  <2> QED
    BY <2>1, <2>2, <2>3 DEF PassOK, Precedes, OnDevice
<1>2. ASSUME NEW x \in Runs, CancelRow(x) \/ ClaimRow(x) PROVE PassOK'
  <2>1. /\ \E s \in {"CANCELLED", "RUNNING"} : status' = [status EXCEPT ![x] = s]
        /\ dpc = "rows" /\ rows' = rows \ {x} /\ UNCHANGED <<job, active, capacity>>
    BY <1>2 DEF CancelRow, ClaimRow, AtRow, SetStatus
  <2> QED
    BY <1>0, <2>1 DEF PassOK, Precedes, OnDevice
<1>3. ASSUME NEW x \in Runs, SkipRow(x) PROVE PassOK'
  BY <1>3 DEF SkipRow, AtRow, MustWait, PassOK, Precedes, OnDevice, persisted
<1>4. ASSUME NEW x \in Runs, Load(x) \/ CommitResult(x) PROVE PassOK'
  <2>1. /\ \/ status' = status
           \/ \E s \in Statuses \ {"PENDING"} : status' = [status EXCEPT ![x] = s]
        /\ UNCHANGED <<job, dpc, rows, active, capacity>>
    BY <1>4, <1>0
    DEF Load, CommitResult, ResultOK, SetStatus, Statuses, Outcomes, elsewhere, disp
  <2> QED
    BY <1>0, <2>1 DEF PassOK, Precedes, OnDevice
<1>5. ASSUME NEW x \in Runs, Requeue(x) PROVE PassOK'
  <2>1. /\ phase[x] = "busy" /\ status' = [status EXCEPT ![x] = "PENDING"]
        /\ UNCHANGED <<job, dpc, rows, active, capacity>>
    BY <1>5 DEF Requeue, SetStatus, elsewhere, disp
  <2>2. status[x] = "RUNNING" /\ (dpc = "submit" => x # cur)
    BY <2>1 DEF ExecOK, UnderWay, Phases
  <2>3. dpc \in {"rows", "submit"} /\ OnDevice(x) => job[x].device \in active
    BY <2>2 DEF ActiveOK, Running
  <2> QED
    BY <1>0, <2>1, <2>3 DEF PassOK, Precedes, OnDevice
<1>6. ASSUME ReadPending PROVE PassOK'
  BY <1>6 DEF ReadPending, Pending, PassOK, persisted
<1>7. ASSUME SubmitRow PROVE PassOK'
  <2>1. /\ UNCHANGED <<status, job, rows>> /\ active \subseteq active'
        /\ dpc = "submit" /\ capacity # 0
    BY <1>7 DEF SubmitRow, persisted, ExecOK
  <2> QED
    BY <2>1 DEF PassOK, Precedes, OnDevice
<1>8. Poll \/ ReadRunning \/ RefuseRow \/ EndPass \/ PassFails => PassOK'
  BY DEF Poll, ReadRunning, RefuseRow, EndPass, PassFails, Rest, PassOK
<1>9. Exit \/ Crash => PassOK'
  BY DEF Exit, Crash, Fresh, Rest, PassOK
<1>10. Restart => PassOK'
  BY DEF Restart, ExecOK, disp, PassOK
<1>11. UNCHANGED ordering => PassOK'
  BY DEF ordering, PassOK, Precedes, OnDevice
<1> QED
  BY <1>1, <1>2, <1>3, <1>4, <1>5, <1>6, <1>7, <1>8, <1>9, <1>10, <1>11, OrderingSteps
  DEF RowStep, PassStep

LEMMA FifoInvariant == Spec => [](ActiveOK /\ FifoOK)
<1>1. Init => ActiveOK /\ FifoOK
  BY DEF Init, ActiveOK, OneRunPerDevice, Running, FifoOK, Inserted, DeviceFifo, PassOK,
         NoJob, OnDevice
<1>2. TypeOK /\ ExecOK /\ ResultOK /\ SentOK /\ ActiveOK /\ FifoOK /\ [Next]_vars
        => ActiveOK' /\ FifoOK'
  BY ActiveStep, InsertedStep, FifoStep, PassStepKeepsPass DEF FifoOK
<1> QED
  BY <1>1, <1>2, TypeInvariant, SentInvariant, PTL DEF Spec

\* The runs of a device start in the order of their submission, also those that went
\* back to the queue (dispatch_pending, the retry of execute).
THEOREM SubmissionOrder == Spec => []DeviceFifo
BY FifoInvariant, PTL DEF FifoOK

-----------------------------------------------------------------------------
(***************************************************************************)
(* The refinement: every step of the queue is a step of OperationLifecycle *)
(* or leaves status, device and "touched" of every row alone.              *)
(***************************************************************************)
QueueOK == TypeOK /\ ExecOK /\ ResultOK /\ SentOK /\ ActiveOK /\ FifoOK

Site == [r \in Runs |-> job[r].device]

Touched == [r \in Runs |-> contacted[r] # {}]

LEMMA RefineInit == Init => Lifecycle!Init
<1> SUFFICES ASSUME Init PROVE Lifecycle!Init
  OBVIOUS
<1>1. status = [r \in Runs |-> "NONE"]
  BY DEF Init
<1>2. Site = [r \in Runs |-> NoDevice]
  BY DEF Init, NoJob, Site
<1>3. Touched = [r \in Runs |-> FALSE]
  BY DEF Init, Touched
<1> QED
  BY <1>1, <1>2, <1>3 DEF Lifecycle!Init, Lifecycle!Runs, Runs, Site, Touched

LEMMA RefineEnqueue ==
  ASSUME QueueOK, NEW r \in Runs, Enqueue(r)
  PROVE  Lifecycle!Submit(r)
<1> USE DEF Runs, Lifecycle!Runs
<1>1. /\ status[r] = "NONE" /\ \A q \in Runs : q < r => status[q] # "NONE"
      /\ Cardinality(Open) < QueueCapacity
      /\ status' = [status EXCEPT ![r] = "PENDING"] /\ contacted' = contacted
  BY DEF Enqueue, SetStatus, history
<1>2. Lifecycle!Open = Open
  BY DEF Open, Lifecycle!Open
<1>3. \E d \in Devices \union {NoDevice} : Site' = [Site EXCEPT ![r] = d]
  <2>1. PICK k \in Kinds, u \in Users, d \in Devices \union {NoDevice} :
          job' = [job EXCEPT ![r] =
                    [kind |-> k, device |-> d, owner |-> u,
                     target |-> IF d = NoDevice THEN NoIdent ELSE ident[d],
                     session |-> session[u]]]
    BY DEF Enqueue
  <2>2. job \in [Runs -> Jobs]
    BY DEF QueueOK, TypeOK
  <2>3. job'[r].device = d /\ \A q \in Runs \ {r} : job'[q] = job[q]
    BY <2>1, <2>2
  <2>4. Site' = [Site EXCEPT ![r] = d]
    BY <2>3 DEF Site
  <2> QED
    BY <2>4
<1>4. Touched' = Touched
  BY <1>1 DEF Touched
<1>5. PICK d \in Devices \union {NoDevice} : Site' = [Site EXCEPT ![r] = d]
  BY <1>3
<1> HIDE DEF Runs, Lifecycle!Runs
<1>6. [q \in Runs |-> job'[q].device] = [[q \in Runs |-> job[q].device] EXCEPT ![r] = d]
  BY <1>5 DEF Site
<1>7. [q \in Runs |-> contacted'[q] # {}] = [q \in Runs |-> contacted[q] # {}]
  BY <1>4 DEF Touched
<1>8. Lifecycle!Runs = Runs
  BY DEF Runs, Lifecycle!Runs
<1>9. Lifecycle!Cardinality(Open) = Cardinality(Open)
  BY DEF Lifecycle!Cardinality, Cardinality
<1> QED
  BY <1>1, <1>2, <1>6, <1>7, <1>8, <1>9 DEF Lifecycle!Submit

LEMMA RefineClaim ==
  ASSUME QueueOK, NEW r \in Runs, ClaimRow(r)
  PROVE  Lifecycle!Start(r)
<1>1. /\ status[r] = "PENDING" /\ status' = [status EXCEPT ![r] = "RUNNING"]
      /\ UNCHANGED <<job, contacted>>
  BY DEF ClaimRow, AtRow, SetStatus, history, QueueOK, ExecOK, Pending
<1>2. \A q \in Lifecycle!Earlier(r) : status[q] \in Outcomes
  <2>1. \A q \in Lifecycle!Earlier(r) : q \in Runs /\ Precedes(q, r)
    BY DEF Lifecycle!Earlier, Lifecycle!Runs, Runs, Precedes, OnDevice
  <2> QED
    BY <2>1, ClaimInOrder DEF QueueOK, FifoOK
<1> QED
  BY <1>1, <1>2 DEF Lifecycle!Start, Lifecycle!Outcomes, Outcomes

LEMMA RefineRetry ==
  ASSUME QueueOK, NEW r \in Runs, Requeue(r) \/ (RefuseRow /\ r = cur)
  PROVE  Lifecycle!Requeue(r)
<1>1. /\ status[r] = "RUNNING" /\ status' = [status EXCEPT ![r] = "PENDING"]
      /\ UNCHANGED <<job, contacted>>
  BY DEF Requeue, RefuseRow, SetStatus, history, QueueOK, ExecOK, UnderWay, Phases
<1>2. contacted[r] = {}
  BY DEF Requeue, RefuseRow, QueueOK, SentOK, Preparing
<1> QED
  BY <1>1, <1>2 DEF Lifecycle!Requeue, Runs

LEMMA RefineFinish ==
  ASSUME QueueOK, NEW r \in Runs, Load(r) \/ CommitResult(r)
  PROVE  Lifecycle!Finish(r) \/ UNCHANGED <<status, job, contacted>>
<1>1. status[r] = "RUNNING" /\ UNCHANGED <<job, contacted>>
  BY DEF Load, CommitResult, history, QueueOK, ExecOK, UnderWay, Phases
<1>2. \/ status' = status
      \/ \E o \in Outcomes \ {"INTERRUPTED"} : status' = [status EXCEPT ![r] = o]
  <2>1. CASE Load(r)
    BY <2>1 DEF Load, SetStatus, Outcomes
  <2>2. CASE CommitResult(r)
    BY <2>2 DEF CommitResult, SetStatus, QueueOK, ResultOK
  <2> QED
    BY <2>1, <2>2
<1> QED
  BY <1>1, <1>2 DEF Lifecycle!Finish, Lifecycle!Outcomes, Outcomes

LEMMA RefineContact ==
  ASSUME QueueOK, NEW r \in Runs, ContactMoves(r), status[r] = "RUNNING"
  PROVE  Lifecycle!Touch(r)
<1>1. PICK i : contacted' = [contacted EXCEPT ![r] = @ \union {i}]
  BY DEF ContactMoves
<1>2. contacted \in [Runs -> SUBSET (Idents \union {NoIdent})] /\ UNCHANGED <<status, job>>
  BY DEF QueueOK, TypeOK, ContactMoves
<1>3. contacted'[r] # {} /\ \A q \in Runs \ {r} : contacted'[q] = contacted[q]
  BY <1>1, <1>2
<1>4. Touched' = [Touched EXCEPT ![r] = TRUE]
  BY <1>3 DEF Touched
<1> QED
  BY <1>2, <1>4 DEF Lifecycle!Touch, Touched

LEMMA RefineRestart ==
  ASSUME QueueOK, Restart
  PROVE  Lifecycle!Interrupt \/ UNCHANGED <<status, job, contacted>>
<1>1. /\ status' = [r \in Runs |-> AfterRestart(status[r])]
      /\ UNCHANGED <<job, contacted>>
  BY DEF Restart, history
<1>2. CASE \E r \in Runs : status[r] = "RUNNING"
  BY <1>1, <1>2 DEF Lifecycle!Interrupt, Lifecycle!Runs, Runs, AfterRestart
<1>3. CASE ~\E r \in Runs : status[r] = "RUNNING"
  <2>1. status' = status
    BY <1>1, <1>3 DEF QueueOK, TypeOK, AfterRestart
  <2> QED
    BY <1>1, <2>1
<1> QED
  BY <1>2, <1>3

LEMMA RefineStep ==
  ASSUME QueueOK, [Next]_vars
  PROVE  [Lifecycle!Next]_(Lifecycle!vars)
<1> DEFINE Stutters == UNCHANGED <<status, job, contacted>>
<1> USE DEF Runs, Lifecycle!Runs
<1>0. Stutters => UNCHANGED Lifecycle!vars
  BY DEF Lifecycle!vars
<1>1. ASSUME NEW r \in Runs, RowStep(r) PROVE Lifecycle!Next \/ Stutters
  <2>1. CASE CancelRow(r)
    <3>1. /\ status[r] = "PENDING" /\ status' = [status EXCEPT ![r] = "CANCELLED"]
          /\ UNCHANGED <<job, contacted>>
      BY <2>1 DEF CancelRow, AtRow, SetStatus, QueueOK, ExecOK, Pending, history
    <3> QED
      BY <3>1 DEF Lifecycle!Withdraw, Lifecycle!Next
  <2>2. CASE SkipRow(r)
    BY <2>2 DEF SkipRow, persisted, history
  <2> QED
    BY <1>1, <2>1, <2>2, RefineEnqueue, RefineClaim, RefineRetry, RefineFinish
    DEF RowStep, Lifecycle!Next
<1>2. ASSUME PassStep PROVE Lifecycle!Next \/ Stutters
  <2>1. CASE RefuseRow
    BY <2>1, RefineRetry DEF QueueOK, ExecOK, RefuseRow, Lifecycle!Next
  <2>2. CASE Restart
    BY <2>2, RefineRestart DEF Lifecycle!Next
  <2>3. Poll \/ ReadRunning \/ ReadPending \/ SubmitRow => Stutters
    BY DEF Poll, ReadRunning, ReadPending, SubmitRow, persisted, history
  <2>4. EndPass \/ PassFails \/ Exit \/ Crash => Stutters
    BY DEF EndPass, PassFails, Exit, Crash, persisted, history
  <2> QED
    BY <1>2, <2>1, <2>2, <2>3, <2>4 DEF PassStep
<1>3. ASSUME UNCHANGED ordering PROVE Lifecycle!Next \/ Stutters
  <2>1. UNCHANGED contacted => Stutters
    BY <1>3 DEF ordering
  <2>2. ASSUME NEW r \in Runs, ContactMoves(r), status[r] = "RUNNING"
        PROVE  Lifecycle!Next
    BY <2>2, RefineContact DEF Lifecycle!Next
  <2> QED
    BY <2>1, <2>2, ContactHistory DEF QueueOK
<1> QED
  BY <1>0, <1>1, <1>2, <1>3, OrderingSteps

\* What app/services/jobs.py does with rows, threads, locks and restarts is what
\* OperationLifecycle promises.
THEOREM QueueImplementsLifecycle == Spec => ImplementsLifecycle
<1>1. Spec => []QueueOK
  BY TypeInvariant, SentInvariant, FifoInvariant, PTL DEF QueueOK
<1>2. QueueOK /\ [Next]_vars => [Lifecycle!Next]_(Lifecycle!vars)
  BY RefineStep
<1> QED
  BY <1>1, <1>2, RefineInit, PTL DEF Spec, ImplementsLifecycle, Lifecycle!Spec

-----------------------------------------------------------------------------
(***************************************************************************)
(* The locks.  Every holder of a device's mutex is known, and there is one *)
(* at most.                                                                *)
(***************************************************************************)
Holders == {r \in Runs : phase[r] \in Inside \union {"slot"}}

Insiders == {r \in Runs : phase[r] \in Inside}

ReadersIn == {d \in Devices : reader[d] = "in"}

MutexOK ==
    /\ \A r \in Holders : /\ mutex[job[r].device]
                          /\ reader[job[r].device] = "none"
    /\ \A q, r \in Holders : q # r => job[q].device # job[r].device
    /\ \A d \in Devices : reader[d] # "none" => mutex[d]
    /\ \A d \in Devices :
        mutex[d] => reader[d] # "none" \/ \E r \in Holders : job[r].device = d

SlotsOK == slots = Slots - Cardinality(Insiders) - Cardinality(ReadersIn)

\* A step that neither takes nor releases anything.
Quiet ==
    /\ UNCHANGED locks
    /\ Holders' = Holders
    /\ Insiders' = Insiders
    /\ \A r \in Holders : job'[r] = job[r]

LEMMA QuietKeeps == MutexOK /\ SlotsOK /\ Quiet => MutexOK' /\ SlotsOK'
<1> SUFFICES ASSUME MutexOK, SlotsOK, Quiet PROVE MutexOK' /\ SlotsOK'
  OBVIOUS
<1>1. MutexOK'
  BY DEF Quiet, MutexOK, locks
<1>2. SlotsOK'
  BY DEF Quiet, SlotsOK, ReadersIn, locks
<1> QED
  BY <1>1, <1>2

\* A step of one execution between two phases outside the lock, or between two inside
\* it, is quiet.
LEMMA QuietMove ==
  ASSUME TypeOK, NEW r \in Runs, NEW p \in Phases, GoTo(r, p), UNCHANGED locks,
         job' = job,
         (phase[r] \in Inside) <=> (p \in Inside),
         (phase[r] = "slot") <=> (p = "slot")
  PROVE  Quiet
<1>1. phase \in [Runs -> Phases] /\ phase' = [phase EXCEPT ![r] = p]
  BY DEF TypeOK, GoTo
<1>2. \A q \in Runs : /\ (phase'[q] \in Inside) <=> (phase[q] \in Inside)
                      /\ (phase'[q] = "slot") <=> (phase[q] = "slot")
  BY <1>1
<1>3. Holders' = Holders
  BY <1>2 DEF Holders
<1>4. Insiders' = Insiders
  BY <1>2 DEF Insiders
<1> QED
  BY <1>3, <1>4 DEF Quiet

LEMMA QuietStay ==
  ASSUME UNCHANGED <<phase, locks, job>>
  PROVE  Quiet
BY DEF Quiet, Holders, Insiders

LEMMA QuietEnqueue ==
  ASSUME TypeOK, ExecOK, NEW r \in Runs, Enqueue(r)
  PROVE  Quiet
<1>1. phase' = phase /\ UNCHANGED locks
  BY DEF Enqueue, execs
<1>2. r \notin Holders
  <2>1. status[r] = "NONE"
    BY DEF Enqueue
  <2>2. phase[r] \notin UnderWay
    BY <2>1 DEF ExecOK
  <2> QED
    BY <2>2 DEF Holders, UnderWay, Inside, Phases
<1>3. \A q \in Holders : job'[q] = job[q]
  <2>1. Holders \subseteq Runs
    BY DEF Holders
  <2> QED
    BY <1>2, <2>1 DEF Enqueue, TypeOK
<1> QED
  BY <1>1, <1>3 DEF Quiet, Holders, Insiders

LEMMA QuietRequests ==
  ASSUME TypeOK, ExecOK,
         \/ \E r \in Runs : RequestCancel(r) \/ RecordCancel(r)
         \/ \E d \in Devices : EditDevice(d) \/ ArchiveOrRestore(d)
         \/ \E u \in Users : ChangeAccess(u)
         \/ ReturnSuperseded \/ BeginClose \/ Restart
  PROVE  Quiet
<1>1. UNCHANGED <<phase, locks, job>>
  BY DEF RequestCancel, RecordCancel, EditDevice, ArchiveOrRestore, ChangeAccess,
         ReturnSuperseded, BeginClose, Restart, persisted, execs, locks
<1> QED
  BY <1>1, QuietStay

LEMMA QuietDispatcher ==
  ASSUME TypeOK, ExecOK, DispatcherStep \/ PassFails
  PROVE  Quiet
<1>1. CASE SubmitRow
  <2>1. cur \in Runs /\ phase[cur] \notin UnderWay
    BY <1>1 DEF SubmitRow, ExecOK
  <2>2. GoTo(cur, "pool") /\ UNCHANGED locks /\ job' = job
    BY <1>1 DEF SubmitRow, persisted, locks
  <2>3. phase[cur] \notin Inside /\ phase[cur] # "slot"
    BY <2>1 DEF UnderWay, Inside, Phases
  <2> QED
    BY <2>1, <2>2, <2>3, QuietMove DEF Phases, Inside
<1>2. CASE ~SubmitRow
  <2>1. UNCHANGED <<phase, locks, job>>
    BY <1>2 DEF DispatcherStep, PassFails, Poll, ReadRunning, ReadPending, CancelRow,
                SkipRow, ClaimRow, RefuseRow, EndPass, persisted, execs, locks
  <2> QED
    BY <2>1, QuietStay
<1> QED
  BY <1>1, <1>2

LEMMA QuietWorker ==
  ASSUME TypeOK, ExecOK, NEW r \in Runs,
         \/ Load(r) \/ Authorize(r) \/ RefuseRun(r) \/ Requeue(r) \/ Export(r)
         \/ BackupSaved(r) \/ Launch(r) \/ Probe(r) \/ Settle(r) \/ CommitResult(r)
         \/ Return(r) \/ InternalError(r) \/ CommitFails(r)
  PROVE  Quiet
<1> USE DEF Inside, Phases
<1>1. UNCHANGED locks /\ job' = job
  BY DEF Load, Authorize, RefuseRun, Requeue, Export, BackupSaved, Launch, Probe,
         Settle, CommitResult, Return, InternalError, CommitFails, persisted, locks
<1>2. \E p \in Phases : /\ GoTo(r, p)
                        /\ (phase[r] \in Inside) <=> (p \in Inside)
                        /\ (phase[r] = "slot") <=> (p = "slot")
  <2>1. CASE Load(r)
    BY <2>1 DEF Load
  <2>2. CASE Authorize(r) \/ RefuseRun(r) \/ InternalError(r)
    BY <2>2 DEF Authorize, RefuseRun, InternalError, Fail
  <2>3. CASE Export(r) \/ BackupSaved(r) \/ Launch(r)
    BY <2>3 DEF Export, BackupSaved, Launch
  <2>4. CASE Probe(r) \/ Settle(r) \/ Return(r)
    BY <2>4 DEF Probe, Settle, Return
  <2>5. CASE Requeue(r) \/ CommitResult(r) \/ CommitFails(r)
    BY <2>5 DEF Requeue, CommitResult, CommitFails
  <2> QED
    BY <2>1, <2>2, <2>3, <2>4, <2>5
<1> QED
  BY <1>1, <1>2, QuietMove

LEMMA QuietShutPool ==
  ASSUME TypeOK, ShutPool
  PROVE  Quiet
<1>1. \A r \in Runs : phase'[r] = IF phase[r] = "pool" THEN "none" ELSE phase[r]
  BY DEF ShutPool
<1>2. Holders' = Holders /\ Insiders' = Insiders
  BY <1>1 DEF Holders, Insiders, Inside
<1> QED
  BY <1>2 DEF ShutPool, Quiet, persisted, locks

\* Holders and what is counted are subsets of Runs.
LEMMA HoldersType ==
  ASSUME TypeOK, ExecOK
  PROVE  /\ Holders \subseteq Runs
         /\ Insiders \subseteq Holders
         /\ IsFiniteSet(Insiders) /\ Cardinality(Insiders) \in Nat
         /\ \A r \in Holders : job[r].device \in Devices
<1>1. Holders \subseteq Runs /\ Insiders \subseteq Holders
  BY DEF Holders, Insiders
<1>2. IsFiniteSet(Insiders) /\ Cardinality(Insiders) \in Nat
  BY <1>1, RunsFinite, FS_Subset, FS_CardinalityType
<1>3. \A r \in Holders : job[r].device \in Devices
  BY DEF ExecOK, Holders, Locking
<1> QED
  BY <1>1, <1>2, <1>3

LockOK == MutexOK /\ SlotsOK /\ IsFiniteSet(ReadersIn)

\* An execution takes the mutex of a device.
LEMMA TryMutexKeeps ==
  ASSUME TypeOK, ExecOK, LockOK, NEW r \in Runs, TryMutex(r)
  PROVE  LockOK'
<1> DEFINE d == job[r].device
<1>0. d \in Devices /\ phase[r] = "ready" /\ job' = job /\ slots' = slots
      /\ reader' = reader
  BY DEF TryMutex, ExecOK, Locking, persisted
<1>1. CASE mutex[d]
  <2>1. GoTo(r, "busy") /\ UNCHANGED locks
    BY <1>0, <1>1 DEF TryMutex, Held, locks
  <2>2. Quiet
    BY <2>1, <1>0, QuietMove DEF Inside, Phases
  <2> QED
    BY <2>2, QuietKeeps DEF LockOK, Quiet, ReadersIn, locks
<1>2. CASE ~mutex[d]
  <2>1. /\ phase' = [phase EXCEPT ![r] = "slot"]
        /\ mutex' = [mutex EXCEPT ![d] = TRUE]
    BY <1>2 DEF TryMutex, Held, GoTo
  <2>2. phase \in [Runs -> Phases] /\ mutex \in [Devices -> BOOLEAN]
    BY DEF TypeOK
  <2>3. Holders' = Holders \union {r} /\ Insiders' = Insiders
    BY <1>0, <2>1, <2>2 DEF Holders, Insiders, Inside
  <2>4. \A q \in Holders : q # r /\ job[q].device \in Devices /\ job[q].device # d
    BY <1>0, <1>2, HoldersType DEF Holders, Inside, LockOK, MutexOK
  <2>5. reader[d] = "none"
    BY <1>0, <1>2 DEF LockOK, MutexOK
  <2> HIDE DEF d
  <2>6. /\ mutex'[d] /\ \A e \in Devices \ {d} : mutex'[e] = mutex[e]
    BY <1>0, <2>1, <2>2
  <2>7. MutexOK'
    <3>1. \A q \in Holders' : mutex'[job'[q].device] /\ reader'[job'[q].device] = "none"
      BY <1>0, <2>3, <2>4, <2>5, <2>6 DEF d, LockOK, MutexOK
    <3>2. \A p, q \in Holders' : p # q => job'[p].device # job'[q].device
      BY <1>0, <2>3, <2>4 DEF d, LockOK, MutexOK
    <3>3. \A e \in Devices : reader'[e] # "none" => mutex'[e]
      BY <1>0, <2>6 DEF LockOK, MutexOK
    <3>4. \A e \in Devices :
            mutex'[e] => reader'[e] # "none" \/ \E q \in Holders' : job'[q].device = e
      BY <1>0, <2>3, <2>6 DEF d, LockOK, MutexOK
    <3> QED
      BY <3>1, <3>2, <3>3, <3>4 DEF MutexOK
  <2> QED
    BY <1>0, <2>3, <2>7 DEF LockOK, SlotsOK, ReadersIn
<1> QED
  BY <1>1, <1>2

LEMMA TakeSlotKeeps ==
  ASSUME TypeOK, ExecOK, LockOK, NEW r \in Runs, TakeSlot(r)
  PROVE  LockOK'
<1>1. /\ phase[r] = "slot" /\ phase' = [phase EXCEPT ![r] = "work"]
      /\ slots' = slots - 1 /\ UNCHANGED <<mutex, reader, job>>
  BY DEF TakeSlot, GoTo, persisted
<1>2. phase \in [Runs -> Phases]
  BY DEF TypeOK
<1>3. Holders' = Holders
  BY <1>1, <1>2 DEF Holders, Inside
<1>4. Insiders' = Insiders \union {r} /\ r \notin Insiders
  BY <1>1, <1>2 DEF Insiders, Inside
<1>5. Cardinality(Insiders') = Cardinality(Insiders) + 1
  BY <1>4, HoldersType, FS_AddElement
<1>6. ReadersIn' = ReadersIn
  BY <1>1 DEF ReadersIn
<1>7. Cardinality(ReadersIn) \in Nat
  BY FS_CardinalityType DEF LockOK
<1>8. SlotsOK'
  BY <1>1, <1>5, <1>6, <1>7, HoldersType, SizesAssumption DEF LockOK, SlotsOK
<1>9. MutexOK'
  BY <1>1, <1>3 DEF LockOK, MutexOK
<1> QED
  BY <1>6, <1>8, <1>9 DEF LockOK

\* An execution gives up the mutex of its device, with or without a slot.
LEMMA GiveUpMutex ==
  ASSUME TypeOK, ExecOK, LockOK, NEW r \in Holders, FreeMutex(job[r].device),
         Holders' = Holders \ {r}, UNCHANGED <<reader, job>>
  PROVE  MutexOK'
<1> DEFINE d == job[r].device
<1>1. d \in Devices /\ mutex \in [Devices -> BOOLEAN]
      /\ mutex' = [mutex EXCEPT ![d] = FALSE]
  BY HoldersType DEF FreeMutex, TypeOK
<1>2. reader[d] = "none" /\ \A q \in Holders \ {r} : job[q].device # d
  BY DEF LockOK, MutexOK
<1>3. \A q \in Holders : job[q].device \in Devices
  BY HoldersType
<1> HIDE DEF d
<1>4. ~mutex'[d] /\ \A e \in Devices \ {d} : mutex'[e] = mutex[e]
  BY <1>1
<1>5. \A q \in Holders' : mutex'[job'[q].device] /\ reader'[job'[q].device] = "none"
  BY <1>2, <1>3, <1>4 DEF LockOK, MutexOK
<1>6. \A p, q \in Holders' : p # q => job'[p].device # job'[q].device
  BY DEF LockOK, MutexOK
<1>7. \A e \in Devices : reader'[e] # "none" => mutex'[e]
  BY <1>2, <1>4 DEF LockOK, MutexOK
<1>8. \A e \in Devices :
        mutex'[e] => reader'[e] # "none" \/ \E q \in Holders' : job'[q].device = e
  BY <1>4 DEF d, LockOK, MutexOK
<1> QED
  BY <1>5, <1>6, <1>7, <1>8 DEF MutexOK

LEMMA SlotTimeoutKeeps ==
  ASSUME TypeOK, ExecOK, LockOK, NEW r \in Runs, SlotTimeout(r)
  PROVE  LockOK'
<1>1. /\ phase[r] = "slot" /\ phase' = [phase EXCEPT ![r] = "busy"]
      /\ FreeMutex(job[r].device) /\ UNCHANGED <<slots, reader, job>>
  BY DEF SlotTimeout, GoTo, persisted
<1>2. phase \in [Runs -> Phases]
  BY DEF TypeOK
<1>3. r \in Holders /\ Holders' = Holders \ {r} /\ Insiders' = Insiders
  BY <1>1, <1>2 DEF Holders, Insiders, Inside
<1>4. MutexOK'
  BY <1>1, <1>3, GiveUpMutex
<1> QED
  BY <1>1, <1>3, <1>4 DEF LockOK, SlotsOK, ReadersIn

LEMMA LeaveKeeps ==
  ASSUME TypeOK, ExecOK, LockOK, NEW r \in Runs, WorkDone(r) \/ WorkFails(r)
  PROVE  LockOK'
<1>1. /\ phase[r] \in Inside /\ Release(r) /\ job' = job
      /\ phase' = [phase EXCEPT ![r] = "finish"] \/ phase' = [phase EXCEPT ![r] = "commit"]
  BY DEF WorkDone, WorkFails, Fail, GoTo, persisted, Inside
<1>2. phase \in [Runs -> Phases]
  BY DEF TypeOK
<1>3. r \in Holders /\ Holders' = Holders \ {r}
  BY <1>1, <1>2 DEF Holders, Inside
<1>4. r \in Insiders /\ Insiders' = Insiders \ {r}
  BY <1>1, <1>2 DEF Insiders, Inside
<1>5. FreeMutex(job[r].device) /\ slots' = slots + 1 /\ reader' = reader
  BY <1>1 DEF Release
<1>6. MutexOK'
  BY <1>1, <1>3, <1>5, GiveUpMutex
<1>7. Cardinality(Insiders') = Cardinality(Insiders) - 1
  BY <1>4, HoldersType, FS_RemoveElement
<1>8. ReadersIn' = ReadersIn /\ Cardinality(ReadersIn) \in Nat
  BY <1>5, FS_CardinalityType DEF ReadersIn, LockOK
<1>9. SlotsOK'
  BY <1>5, <1>7, <1>8, HoldersType, SizesAssumption DEF LockOK, SlotsOK
<1> QED
  BY <1>6, <1>8, <1>9 DEF LockOK

LEMMA ReaderTakesMutexKeeps ==
  ASSUME TypeOK, ExecOK, LockOK, NEW d \in Devices, ReaderTakesMutex(d)
  PROVE  LockOK'
<1>1. /\ ~mutex[d] /\ mutex' = [mutex EXCEPT ![d] = TRUE]
      /\ reader' = [reader EXCEPT ![d] = "slot"]
      /\ UNCHANGED <<slots, phase, job>>
  BY DEF ReaderTakesMutex, persisted, execs
<1>2. /\ mutex \in [Devices -> BOOLEAN]
      /\ reader \in [Devices -> {"none", "slot", "in"}]
  BY DEF TypeOK
<1>3. Holders' = Holders /\ Insiders' = Insiders
  BY <1>1 DEF Holders, Insiders
<1>4. ReadersIn' = ReadersIn
  <2>1. reader[d] = "none"
    BY <1>1 DEF LockOK, MutexOK
  <2> QED
    BY <1>1, <1>2, <2>1 DEF ReadersIn
<1>5. \A q \in Holders : job[q].device \in Devices \ {d}
  BY <1>1, HoldersType DEF LockOK, MutexOK
<1>6. MutexOK'
  BY <1>1, <1>2, <1>3, <1>5 DEF LockOK, MutexOK
<1> QED
  BY <1>1, <1>3, <1>4, <1>6 DEF LockOK, SlotsOK

LEMMA ReaderTakesSlotKeeps ==
  ASSUME TypeOK, ExecOK, LockOK, NEW d \in Devices, ReaderTakesSlot(d)
  PROVE  LockOK'
<1>1. /\ reader[d] = "slot" /\ reader' = [reader EXCEPT ![d] = "in"]
      /\ slots' = slots - 1 /\ UNCHANGED <<mutex, phase, job>>
  BY DEF ReaderTakesSlot, persisted, execs
<1>2. reader \in [Devices -> {"none", "slot", "in"}]
  BY DEF TypeOK
<1>3. Holders' = Holders /\ Insiders' = Insiders
  BY <1>1 DEF Holders, Insiders
<1>4. ReadersIn' = ReadersIn \union {d} /\ d \notin ReadersIn
  BY <1>1, <1>2 DEF ReadersIn
<1>5. /\ Cardinality(ReadersIn') = Cardinality(ReadersIn) + 1
      /\ IsFiniteSet(ReadersIn') /\ Cardinality(ReadersIn) \in Nat
  BY <1>4, FS_AddElement, FS_CardinalityType DEF LockOK
<1>6. SlotsOK'
  BY <1>1, <1>3, <1>5, HoldersType, SizesAssumption DEF LockOK, SlotsOK
<1>7. MutexOK'
  BY <1>1, <1>2, <1>3, HoldersType DEF LockOK, MutexOK
<1> QED
  BY <1>5, <1>6, <1>7 DEF LockOK

\* A reader gives the mutex back.
LEMMA ReaderFreesMutex ==
  ASSUME TypeOK, ExecOK, LockOK, NEW d \in Devices, reader[d] # "none", FreeMutex(d),
         reader' = [reader EXCEPT ![d] = "none"], UNCHANGED <<phase, job>>
  PROVE  MutexOK'
<1>1. /\ mutex \in [Devices -> BOOLEAN] /\ mutex' = [mutex EXCEPT ![d] = FALSE]
      /\ reader \in [Devices -> {"none", "slot", "in"}]
  BY DEF TypeOK, FreeMutex
<1>2. Holders' = Holders
  BY DEF Holders
<1>3. \A q \in Holders : job[q].device \in Devices \ {d}
  BY HoldersType DEF LockOK, MutexOK
<1> QED
  BY <1>1, <1>2, <1>3 DEF LockOK, MutexOK

LEMMA ReaderTimesOutKeeps ==
  ASSUME TypeOK, ExecOK, LockOK, NEW d \in Devices, ReaderTimesOut(d)
  PROVE  LockOK'
<1>1. /\ reader[d] = "slot" /\ reader' = [reader EXCEPT ![d] = "none"] /\ FreeMutex(d)
      /\ UNCHANGED <<slots, phase, job>>
  BY DEF ReaderTimesOut, persisted, execs
<1>2. MutexOK'
  BY <1>1, ReaderFreesMutex
<1>3. ReadersIn' = ReadersIn
  BY <1>1 DEF ReadersIn, TypeOK
<1> QED
  BY <1>1, <1>2, <1>3 DEF LockOK, SlotsOK, Insiders

LEMMA ReaderLeavesKeeps ==
  ASSUME TypeOK, ExecOK, LockOK, NEW d \in Devices, ReaderLeaves(d)
  PROVE  LockOK'
<1>1. /\ reader[d] = "in" /\ reader' = [reader EXCEPT ![d] = "none"] /\ FreeMutex(d)
      /\ slots' = slots + 1 /\ UNCHANGED <<phase, job>>
  BY DEF ReaderLeaves, persisted, execs
<1>2. MutexOK'
  BY <1>1, ReaderFreesMutex
<1>3. ReadersIn' = ReadersIn \ {d} /\ d \in ReadersIn
  BY <1>1 DEF ReadersIn, TypeOK
<1>4. /\ Cardinality(ReadersIn') = Cardinality(ReadersIn) - 1
      /\ IsFiniteSet(ReadersIn') /\ Cardinality(ReadersIn) \in Nat
  BY <1>3, FS_RemoveElement, FS_CardinalityType DEF LockOK
<1>5. Insiders' = Insiders
  BY <1>1 DEF Insiders
<1>6. SlotsOK'
  BY <1>1, <1>4, <1>5, HoldersType, SizesAssumption DEF LockOK, SlotsOK
<1> QED
  BY <1>2, <1>4, <1>6 DEF LockOK

\* A new process holds nothing.
LEMMA NothingHeld ==
  ASSUME phase = [r \in Runs |-> "none"], mutex = [d \in Devices |-> FALSE],
         slots = Slots, reader = [d \in Devices |-> "none"]
  PROVE  LockOK
<1>1. Holders = {} /\ Insiders = {} /\ ReadersIn = {}
  BY DEF Holders, Insiders, ReadersIn, Inside
<1>2. MutexOK
  BY <1>1 DEF MutexOK
<1>3. IsFiniteSet({}) /\ Cardinality({}) = 0
  BY FS_EmptySet
<1>4. SlotsOK
  BY <1>1, <1>3, SizesAssumption DEF SlotsOK
<1> QED
  BY <1>1, <1>2, <1>3, <1>4 DEF LockOK

LEMMA FreshHoldsNothing ==
  ASSUME Fresh
  PROVE  LockOK'
<1>1. /\ phase' = [r \in Runs |-> "none"] /\ mutex' = [d \in Devices |-> FALSE]
      /\ slots' = Slots /\ reader' = [d \in Devices |-> "none"]
  BY DEF Fresh
<1>2. Holders' = {} /\ Insiders' = {} /\ ReadersIn' = {}
  BY <1>1 DEF Holders, Insiders, ReadersIn, Inside
<1>3. MutexOK'
  BY <1>2, <1>1 DEF MutexOK
<1>4. IsFiniteSet({}) /\ Cardinality({}) = 0
  BY FS_EmptySet
<1>5. SlotsOK'
  BY <1>1, <1>2, <1>4, SizesAssumption DEF SlotsOK
<1> QED
  BY <1>2, <1>3, <1>4, <1>5 DEF LockOK

LEMMA LockStep == TypeOK /\ ExecOK /\ LockOK /\ [Next]_vars => LockOK'
<1> SUFFICES ASSUME TypeOK, ExecOK, LockOK, [Next]_vars PROVE LockOK'
  OBVIOUS
<1>1. Quiet => LockOK'
  BY QuietKeeps DEF LockOK, Quiet, ReadersIn, locks
<1>2. ASSUME NEW r \in Runs, Enqueue(r) \/ RequestCancel(r) \/ RecordCancel(r)
      PROVE  LockOK'
  BY <1>1, <1>2, QuietEnqueue, QuietRequests
<1>3. ASSUME NEW d \in Devices, EditDevice(d) \/ ArchiveOrRestore(d) PROVE LockOK'
  BY <1>1, <1>3, QuietRequests
<1>4. ASSUME NEW u \in Users, ChangeAccess(u) PROVE LockOK'
  BY <1>1, <1>4, QuietRequests
<1>5. ASSUME NEW d \in Devices, ReaderTakesMutex(d) \/ ReaderStep(d) PROVE LockOK'
  BY <1>5, ReaderTakesMutexKeeps, ReaderTakesSlotKeeps, ReaderTimesOutKeeps,
     ReaderLeavesKeeps DEF ReaderStep
<1>6. DispatcherStep \/ PassFails => LockOK'
  BY <1>1, QuietDispatcher
<1>7. ASSUME NEW r \in Runs, WorkerStep(r) \/ InternalError(r) \/ CommitFails(r)
      PROVE  LockOK'
  BY <1>1, <1>7, QuietWorker, TryMutexKeeps, TakeSlotKeeps, SlotTimeoutKeeps, LeaveKeeps
  DEF WorkerStep
<1>8. ReturnSuperseded \/ BeginClose \/ Restart => LockOK'
  BY <1>1, QuietRequests
<1>9. ShutPool => LockOK'
  BY <1>1, QuietShutPool
<1>10. Exit \/ Crash => LockOK'
  BY FreshHoldsNothing DEF Exit, Crash
<1>11. UNCHANGED vars => LockOK'
  BY <1>1, QuietStay DEF vars, persisted, execs, locks
<1> QED
  BY <1>2, <1>3, <1>4, <1>5, <1>6, <1>7, <1>8, <1>9, <1>10, <1>11
  DEF Next, ProcessStep

LEMMA LockInvariant == Spec => []LockOK
<1>1. Init => LockOK
  BY NothingHeld DEF Init
<1> QED
  BY <1>1, LockStep, TypeInvariant, PTL DEF Spec

\* Two executions, or an execution and an HTTP reader, are never inside device_lock of
\* one device together (network.device_lock), whatever waits, times out or fails.
THEOREM DevicesNotShared == Spec => []DeviceExclusive
<1>1. LockOK => DeviceExclusive
  BY DEF LockOK, MutexOK, DeviceExclusive, Holders
<1> QED
  BY <1>1, LockInvariant, PTL

\* No path through device_lock leaks a mutex or a slot, or frees one twice.
THEOREM LocksAccounted == Spec => []LocksBalanced
<1>1. TypeOK /\ LockOK => LocksBalanced
  <2> SUFFICES ASSUME TypeOK, LockOK PROVE LocksBalanced
    OBVIOUS
  <2>1. \A d \in Devices :
          mutex[d] <=> reader[d] # "none" \/ \E r \in Holders : job[r].device = d
    BY DEF LockOK, MutexOK
  <2>2. slots = Slots - Cardinality(Insiders) - Cardinality(ReadersIn)
    BY DEF LockOK, SlotsOK
  <2> QED
    BY <2>1, <2>2 DEF LocksBalanced, Holders, Insiders, ReadersIn
<1> QED
  BY <1>1, LockInvariant, TypeInvariant, PTL

-----------------------------------------------------------------------------
(***************************************************************************)
(* The target.  Between Authorize and its first contact an execution holds *)
(* the identity the run was queued for; only after the pre-change backup   *)
(* of a "vlan" run may it hold another one.                                *)
(***************************************************************************)
TargetOK(r) ==
    /\ phase[r] \in {"ready", "slot", "work", "export"} => loaded[r] = job[r].target
    /\ phase[r] = "saved" => job[r].kind = "vlan"
    /\ phase[r] = "probe" => ~OnDevice(r)
    /\ status[r] # "NONE" /\ ~OnDevice(r) => job[r].kind = "discovery"
    /\ job[r].kind \in {"backup", "playbook"} => contacted[r] \subseteq {job[r].target}

\* Nothing that TargetOK looks at changes.
SameRow(r) ==
    /\ phase'[r] = phase[r] /\ loaded'[r] = loaded[r]
    /\ job'[r] = job[r] /\ contacted'[r] = contacted[r]
    /\ status'[r] # "NONE" => status[r] # "NONE"

LEMMA SameRowKeepsTarget ==
  ASSUME NEW r \in Runs, TargetOK(r), SameRow(r)
  PROVE  TargetOK(r)'
BY DEF TargetOK, SameRow, OnDevice

\* The row's execution is in a phase that TargetOK says nothing about.
LEMMA LeavingKeepsTarget ==
  ASSUME NEW r \in Runs, TargetOK(r), job'[r] = job[r], contacted'[r] = contacted[r],
         phase'[r] \notin {"ready", "slot", "work", "export", "saved", "probe"},
         status'[r] # "NONE" => status[r] # "NONE"
  PROVE  TargetOK(r)'
BY DEF TargetOK, OnDevice

LEMMA EnqueueKeepsTarget ==
  ASSUME TypeOK, ExecOK, SentOK, NEW q \in Runs, Enqueue(q), NEW r \in Runs, TargetOK(r)
  PROVE  TargetOK(r)'
<1>1. /\ status[q] = "NONE" /\ status' = [status EXCEPT ![q] = "PENDING"]
      /\ phase' = phase /\ loaded' = loaded /\ contacted' = contacted
  BY DEF Enqueue, SetStatus, execs, history
<1>2. CASE r # q
  <2>1. job'[r] = job[r] /\ status'[r] = status[r]
    BY <1>1, <1>2, EnqueueJob DEF TypeOK
  <2> QED
    BY <1>1, <2>1, SameRowKeepsTarget DEF SameRow
<1>3. CASE r = q
  <2>1. PICK k \in Kinds, u \in Users, d \in Devices \union {NoDevice} :
          /\ (k = "discovery") <=> (d = NoDevice)
          /\ job' = [job EXCEPT ![r] =
                       [kind |-> k, device |-> d, owner |-> u,
                        target |-> IF d = NoDevice THEN NoIdent ELSE ident[d],
                        session |-> session[u]]]
    BY <1>3 DEF Enqueue
  <2>2. job'[r].kind = k /\ job'[r].device = d
    BY <2>1 DEF TypeOK
  <2>3. contacted[r] = {}
    BY <1>1, <1>3 DEF SentOK
  <2>4. phase[r] \notin UnderWay
    BY <1>1, <1>3 DEF ExecOK
  <2> QED
    BY <1>1, <2>1, <2>2, <2>3, <2>4 DEF TargetOK, OnDevice, UnderWay, Phases
<1> QED
  BY <1>2, <1>3

\* Steps that leave the executions and their contacts alone.
LEMMA AwayKeepsTarget ==
  ASSUME TypeOK, ExecOK, NEW r \in Runs, TargetOK(r),
         UNCHANGED <<phase, loaded, job, contacted>>,
         \/ UNCHANGED status
         \/ \E q \in Runs : CancelRow(q) \/ ClaimRow(q)
         \/ RefuseRow \/ Restart
  PROVE  TargetOK(r)'
<1>1. status'[r] # "NONE" => status[r] # "NONE"
  BY DEF CancelRow, ClaimRow, AtRow, RefuseRow, Restart, AfterRestart, SetStatus, ExecOK,
         Pending, TypeOK
<1> QED
  BY <1>1, SameRowKeepsTarget DEF SameRow

LEMMA WorkerKeepsTarget ==
  ASSUME TypeOK, ExecOK, ResultOK, NEW q \in Runs,
         WorkerStep(q) \/ InternalError(q) \/ CommitFails(q),
         NEW r \in Runs, TargetOK(r)
  PROVE  TargetOK(r)'
<1> USE DEF GoTo, SetStatus
<1>0. /\ phase \in [Runs -> Phases] /\ status \in [Runs -> Statuses]
      /\ loaded \in [Runs -> Idents \union {NoIdent}]
      /\ contacted \in [Runs -> SUBSET (Idents \union {NoIdent})]
  BY DEF TypeOK
<1>1. /\ job' = job
      /\ \E p : phase' = [phase EXCEPT ![q] = p]
      /\ loaded' = loaded \/ \E i : loaded' = [loaded EXCEPT ![q] = i]
      /\ contacted' = contacted \/ \E i : contacted' = [contacted EXCEPT ![q] = i]
      /\ status' = status \/ \E s : status' = [status EXCEPT ![q] = s]
  <2>1. CASE Load(q)
    BY <2>1 DEF Load, history, elsewhere
  <2>2. CASE Authorize(q) \/ RefuseRun(q) \/ InternalError(q)
    BY <2>2 DEF Authorize, RefuseRun, InternalError, Fail, persisted, history
  <2>3. CASE TryMutex(q) \/ TakeSlot(q) \/ SlotTimeout(q) \/ Requeue(q)
    BY <2>3 DEF TryMutex, TakeSlot, SlotTimeout, Requeue, persisted, history
  <2>4. CASE Export(q) \/ Launch(q) \/ Probe(q)
    BY <2>4 DEF Export, Launch, Probe, Contact, persisted
  <2>5. CASE BackupSaved(q) \/ WorkDone(q) \/ WorkFails(q)
    BY <2>5 DEF BackupSaved, WorkDone, WorkFails, Fail, persisted, history
  <2>6. CASE Settle(q) \/ CommitResult(q) \/ CommitFails(q) \/ Return(q)
    BY <2>6 DEF Settle, CommitResult, CommitFails, Return, persisted, history
  <2> QED
    BY <2>1, <2>2, <2>3, <2>4, <2>5, <2>6 DEF WorkerStep
<1>2. CASE r # q
  BY <1>0, <1>1, <1>2, SameRowKeepsTarget DEF SameRow
<1>3. CASE r = q
  <2>1. status'[r] # "NONE" => status[r] # "NONE"
    <3>1. phase[r] \in UnderWay \/ UNCHANGED status
      BY <1>3 DEF WorkerStep, InternalError, CommitFails, persisted, Load, Authorize,
         RefuseRun, TryMutex, TakeSlot, SlotTimeout, Requeue, Export, BackupSaved,
         Launch, WorkDone, WorkFails, Probe, Settle, CommitResult, Return,
         UnderWay, Phases
    <3> QED
      BY <3>1 DEF ExecOK
  <2>2. CASE Load(r)
    BY <2>1, <2>2, <1>0, <1>1, LeavingKeepsTarget DEF Load, history
  <2>3. CASE Authorize(r)
    <3>1. /\ OnDevice(r) => /\ phase'[r] = "ready"
                            /\ loaded'[r] = job[r].target
          /\ ~OnDevice(r) => phase'[r] = "probe"
      BY <1>0, <2>3 DEF Authorize, Authorized
    <3> QED
      BY <1>1, <2>1, <2>3, <3>1 DEF Authorize, TargetOK, OnDevice, history
  <2>4. CASE RefuseRun(r) \/ InternalError(r)
    BY <2>1, <2>4, <1>0, <1>1, LeavingKeepsTarget DEF RefuseRun, InternalError, Fail, history
  <2>5. CASE TryMutex(r) \/ TakeSlot(r) \/ SlotTimeout(r)
    <3>1. /\ phase[r] \in {"ready", "slot"} /\ phase'[r] \in {"busy", "slot", "work"}
          /\ UNCHANGED <<loaded, contacted>>
      BY <1>0, <2>5 DEF TryMutex, TakeSlot, SlotTimeout, history
    <3> QED
      BY <1>1, <2>1, <3>1 DEF TargetOK, OnDevice
  <2>6. CASE Requeue(r) \/ CommitResult(r) \/ CommitFails(r) \/ Return(r)
    BY <2>1, <2>6, <1>0, <1>1, LeavingKeepsTarget
    DEF Requeue, CommitResult, CommitFails, Return, history
  <2>7. CASE Export(r)
    <3>1. /\ phase[r] = "work" /\ phase'[r] = "export" /\ loaded' = loaded
          /\ contacted'[r] = contacted[r] \union {loaded[r]}
      BY <1>0, <2>7 DEF Export, Contact
    <3> QED
      BY <1>1, <2>1, <3>1 DEF TargetOK, OnDevice
  <2>8. CASE BackupSaved(r)
    <3>1. phase'[r] = "saved" /\ job[r].kind = "vlan" /\ contacted' = contacted
      BY <1>0, <2>8 DEF BackupSaved, history
    <3> QED
      BY <1>1, <2>1, <3>1 DEF TargetOK, OnDevice
  <2>9. CASE Launch(r)
    <3>1. /\ phase'[r] = "change" /\ contacted'[r] = contacted[r] \union {loaded'[r]}
          /\ \/ phase[r] = "work" /\ loaded' = loaded
             \/ phase[r] = "saved"
      BY <1>0, <2>9 DEF Launch, Contact
    <3> QED
      BY <1>1, <2>1, <3>1 DEF TargetOK, OnDevice
  <2>10. CASE WorkDone(r) \/ WorkFails(r)
    BY <2>1, <2>10, <1>0, <1>1, LeavingKeepsTarget DEF WorkDone, WorkFails, Fail, history
  <2>11. CASE Probe(r)
    <3>1. phase[r] = "probe" /\ phase'[r] = "scan"
      BY <1>0, <2>11 DEF Probe
    <3>2. job[r].kind = "discovery"
      BY <3>1 DEF TargetOK, ExecOK, UnderWay, Phases
    <3> QED
      BY <1>1, <2>1, <3>1, <3>2 DEF TargetOK, OnDevice
  <2>12. CASE Settle(r)
    BY <2>1, <2>12, <1>0, <1>1, LeavingKeepsTarget DEF Settle, history
  <2> QED
    BY <1>3, <2>2, <2>3, <2>4, <2>5, <2>6, <2>7, <2>8, <2>9, <2>10, <2>11, <2>12
    DEF WorkerStep
<1> QED
  BY <1>2, <1>3

LEMMA TargetStep ==
  ASSUME TypeOK, ExecOK, ResultOK, SentOK, [Next]_vars, NEW r \in Runs, TargetOK(r)
  PROVE  TargetOK(r)'
<1> USE DEF persisted, execs, history
<1>1. (\E q \in Runs : Enqueue(q)) => TargetOK(r)'
  BY EnqueueKeepsTarget
<1>2. (\E q \in Runs : RequestCancel(q) \/ RecordCancel(q)) => TargetOK(r)'
  BY AwayKeepsTarget DEF RequestCancel, RecordCancel
<1>3. (\E d \in Devices : EditDevice(d) \/ ArchiveOrRestore(d)) => TargetOK(r)'
  BY AwayKeepsTarget DEF EditDevice, ArchiveOrRestore
<1>4. (\E u \in Users : ChangeAccess(u)) => TargetOK(r)'
  BY AwayKeepsTarget DEF ChangeAccess
<1>5. (\E d \in Devices : ReaderTakesMutex(d) \/ ReaderStep(d)) => TargetOK(r)'
  BY AwayKeepsTarget
  DEF ReaderTakesMutex, ReaderStep, ReaderTakesSlot, ReaderTimesOut, ReaderLeaves
<1>6. (\E q \in Runs : CancelRow(q) \/ SkipRow(q) \/ ClaimRow(q)) => TargetOK(r)'
  BY AwayKeepsTarget DEF CancelRow, SkipRow, ClaimRow
<1>7. Poll \/ ReadRunning \/ ReadPending \/ RefuseRow \/ EndPass \/ PassFails
        => TargetOK(r)'
  BY AwayKeepsTarget DEF Poll, ReadRunning, ReadPending, RefuseRow, EndPass, PassFails
<1>8. ASSUME SubmitRow PROVE TargetOK(r)'
  <2>1. /\ phase' = [phase EXCEPT ![cur] = "pool"]
        /\ UNCHANGED <<status, loaded, job, contacted>>
    BY <1>8 DEF SubmitRow, GoTo
  <2>2. phase'[r] = phase[r] \/ phase'[r] = "pool"
    BY <2>1 DEF TypeOK
  <2> QED
    BY <2>1, <2>2, SameRowKeepsTarget, LeavingKeepsTarget DEF SameRow
<1>9. (\E q \in Runs : WorkerStep(q) \/ InternalError(q) \/ CommitFails(q))
        => TargetOK(r)'
  BY WorkerKeepsTarget
<1>10. ReturnSuperseded \/ BeginClose \/ Restart \/ UNCHANGED vars => TargetOK(r)'
  BY AwayKeepsTarget DEF ReturnSuperseded, BeginClose, Restart, vars
<1>11. ASSUME ShutPool PROVE TargetOK(r)'
  <2>1. /\ phase'[r] = phase[r] \/ phase'[r] = "none"
        /\ UNCHANGED <<status, loaded, job, contacted>>
    BY <1>11 DEF ShutPool
  <2> QED
    BY <2>1, SameRowKeepsTarget, LeavingKeepsTarget DEF SameRow
<1>12. ASSUME Exit \/ Crash PROVE TargetOK(r)'
  <2>1. phase'[r] = "none" /\ UNCHANGED <<status, job, contacted>>
    BY <1>12 DEF Exit, Crash, Fresh
  <2> QED
    BY <2>1, LeavingKeepsTarget
<1> QED
  BY <1>1, <1>2, <1>3, <1>4, <1>5, <1>6, <1>7, <1>8, <1>9, <1>10, <1>11, <1>12
  DEF Next, DispatcherStep, ProcessStep

\* A backup or plain playbook run talks to no identity but the one it was queued for,
\* whatever is edited while it waits or executes (execute, capture, run_ansible).
THEOREM TargetHonoured == Spec => []QueuedTargetHonoured
<1> DEFINE AllOK == \A r \in Runs : TargetOK(r)
<1>1. Init => AllOK
  BY DEF Init, NoJob, TargetOK, OnDevice
<1>2. TypeOK /\ ExecOK /\ ResultOK /\ SentOK /\ AllOK /\ [Next]_vars => AllOK'
  BY TargetStep
<1>3. AllOK => QueuedTargetHonoured
  BY DEF TargetOK, QueuedTargetHonoured
<1> HIDE DEF AllOK
<1> QED
  BY <1>1, <1>2, <1>3, TypeInvariant, SentInvariant, PTL DEF Spec

-----------------------------------------------------------------------------
(***************************************************************************)
(* The bar.  A run that was cancelled, or whose owner changed, while it    *)
(* waited never gets past the checks at the start of execute: what bars it *)
(* stays true, because flags are never reset and session versions only     *)
(* grow.                                                                   *)
(***************************************************************************)
Stale(r) == job[r].session < session[job[r].owner]

BarOK(r) ==
    /\ status[r] # "NONE" => /\ job[r].owner \in Users
                             /\ job[r].session <= session[job[r].owner]
    /\ r \in barred =>
        /\ status[r] # "NONE"
        /\ contacted[r] = {}
        /\ phase[r] \in {"none", "pool", "loaded", "commit", "returning"}
        /\ cancel[r] \/ Stale(r)
        /\ phase[r] = "loaded" => Stale(r)

\* What bars a run stays, and its execution does not move.
LEMMA StandingKeepsBar ==
  ASSUME TypeOK, NEW r \in Runs, BarOK(r),
         job'[r] = job[r], session' = session, contacted'[r] = contacted[r],
         r \in barred' => r \in barred,
         cancel[r] => cancel'[r],
         (status'[r] # "NONE") <=> (status[r] # "NONE"),
         phase'[r] = phase[r] \/ phase'[r] \in {"none", "pool", "commit", "returning"}
  PROVE  BarOK(r)'
BY DEF BarOK, Stale

LEMMA RequestsKeepBar ==
  ASSUME TypeOK, ExecOK, SentOK, NEW r \in Runs, BarOK(r),
         \/ \E q \in Runs : Enqueue(q) \/ RequestCancel(q) \/ RecordCancel(q)
         \/ \E u \in Users : ChangeAccess(u)
  PROVE  BarOK(r)'
<1>0. /\ session \in [Users -> Nat] /\ cancel \in [Runs -> BOOLEAN]
      /\ status \in [Runs -> Statuses]
  BY DEF TypeOK
<1>1. r \in Pending => /\ contacted[r] = {}
                       /\ phase[r] \in {"none", "returning"}
  BY DEF Pending, SentOK, ExecOK, UnderWay, Phases, TypeOK
<1>2. ASSUME NEW q \in Runs, Enqueue(q) PROVE BarOK(r)'
  <2>1. /\ status[q] = "NONE" /\ status' = [status EXCEPT ![q] = "PENDING"]
        /\ UNCHANGED <<cancel, session, phase, contacted, barred>>
    BY <1>2 DEF Enqueue, SetStatus, accounts, execs, history
  <2>2. CASE r # q
    <3>1. job'[r] = job[r] /\ status'[r] = status[r]
      BY <1>0, <1>2, <2>1, <2>2, EnqueueJob
    <3> QED
      BY <2>1, <3>1, StandingKeepsBar
  <2>3. CASE r = q
    <3>1. r \notin barred
      BY <2>1, <2>3 DEF BarOK
    <3>2. PICK k \in Kinds, u \in Users, d \in Devices \union {NoDevice} :
            job' = [job EXCEPT ![r] =
                      [kind |-> k, device |-> d, owner |-> u,
                       target |-> IF d = NoDevice THEN NoIdent ELSE ident[d],
                       session |-> session[u]]]
      BY <1>2, <2>3 DEF Enqueue
    <3>3. job'[r].owner = u /\ job'[r].session = session[u]
      BY <3>2 DEF TypeOK
    <3>4. session[u] \in Nat
      BY <1>0
    <3> QED
      BY <2>1, <3>1, <3>3, <3>4 DEF BarOK
  <2> QED
    BY <2>2, <2>3
<1>3. ASSUME NEW q \in Runs, RequestCancel(q) PROVE BarOK(r)'
  BY <1>3, StandingKeepsBar
  DEF RequestCancel, persisted, accounts, execs, history
<1>4. ASSUME NEW q \in Runs, RecordCancel(q) PROVE BarOK(r)'
  <2>1. /\ UNCHANGED <<status, job, session, phase, contacted>>
        /\ cancel' = [cancel EXCEPT ![q] = TRUE]
        /\ barred' = barred \union (Pending \intersect {q})
    BY <1>4 DEF RecordCancel, accounts, execs
  <2>2. cancel[r] => cancel'[r]
    BY <1>0, <2>1
  <2>3. CASE r \in barred' => r \in barred
    BY <2>1, <2>2, <2>3, StandingKeepsBar
  <2>4. CASE r \in barred' \ barred
    <3>1. r \in Pending /\ cancel'[r] /\ status[r] # "NONE"
      BY <1>0, <2>1, <2>4 DEF Pending
    <3> QED
      BY <1>1, <2>1, <3>1 DEF BarOK
  <2> QED
    BY <2>3, <2>4
<1>5. ASSUME NEW u \in Users, ChangeAccess(u) PROVE BarOK(r)'
  <2>1. /\ UNCHANGED <<status, cancel, job, phase, contacted>>
        /\ session' = [session EXCEPT ![u] = @ + 1]
        /\ barred' = barred \union {q \in Pending : job[q].owner = u}
    BY <1>5 DEF ChangeAccess, execs
  <2>2. job[r].session \in Nat
    BY JobType
  <2>3. status[r] # "NONE" =>
          /\ job[r].owner \in Users
          /\ session[job[r].owner] \in Nat /\ session'[job[r].owner] \in Nat
          /\ session[job[r].owner] <= session'[job[r].owner]
          /\ job[r].owner = u => session[job[r].owner] < session'[job[r].owner]
    BY <1>0, <2>1 DEF BarOK
  <2>4. CASE r \in barred \/ r \notin barred'
    BY <2>1, <2>2, <2>3, <2>4 DEF BarOK, Stale
  <2>5. CASE r \in Pending /\ job[r].owner = u
    <3>1. status[r] # "NONE"
      BY <2>5 DEF Pending
    <3>2. job[r].session < session'[job[r].owner] /\ job[r].session <= session'[job[r].owner]
      BY <2>2, <2>3, <2>5, <3>1 DEF BarOK
    <3> QED
      BY <1>1, <2>1, <2>3, <2>5, <3>1, <3>2 DEF BarOK, Stale
  <2> QED
    BY <2>1, <2>4, <2>5
<1> QED
  BY <1>2, <1>3, <1>4, <1>5

\* Load does not pass a cancelled run, Authorize not one of an older session.
LEMMA WorkerKeepsBar ==
  ASSUME TypeOK, ExecOK, ResultOK, NEW q \in Runs,
         WorkerStep(q) \/ InternalError(q) \/ CommitFails(q),
         NEW r \in Runs, BarOK(r)
  PROVE  BarOK(r)'
<1> USE DEF GoTo, SetStatus
<1>0. phase \in [Runs -> Phases] /\ status \in [Runs -> Statuses]
      /\ contacted \in [Runs -> SUBSET (Idents \union {NoIdent})]
  BY DEF TypeOK
<1>1. /\ UNCHANGED <<job, session, cancel, barred>>
      /\ \E p : phase' = [phase EXCEPT ![q] = p]
      /\ contacted' = contacted \/ \E i : contacted' = [contacted EXCEPT ![q] = i]
  <2>1. CASE Load(q) \/ Requeue(q) \/ CommitResult(q)
    BY <2>1 DEF Load, Requeue, CommitResult, accounts, history
  <2>2. CASE Authorize(q) \/ RefuseRun(q) \/ InternalError(q)
    BY <2>2 DEF Authorize, RefuseRun, InternalError, Fail, persisted, accounts, history
  <2>3. CASE TryMutex(q) \/ TakeSlot(q) \/ SlotTimeout(q)
    BY <2>3 DEF TryMutex, TakeSlot, SlotTimeout, persisted, accounts, history
  <2>4. CASE Export(q) \/ Launch(q) \/ Probe(q)
    BY <2>4 DEF Export, Launch, Probe, Contact, persisted, accounts
  <2>5. CASE BackupSaved(q) \/ WorkDone(q) \/ WorkFails(q)
    BY <2>5 DEF BackupSaved, WorkDone, WorkFails, Fail, persisted, accounts, history
  <2>6. CASE Settle(q) \/ CommitFails(q) \/ Return(q)
    BY <2>6 DEF Settle, CommitFails, Return, persisted, accounts, history
  <2> QED
    BY <2>1, <2>2, <2>3, <2>4, <2>5, <2>6 DEF WorkerStep
<1>2. (status'[r] # "NONE") <=> (status[r] # "NONE")
  <2>1. status' = status \/ \E s \in Statuses \ {"NONE"} : status' = [status EXCEPT ![q] = s]
    <3>1. CASE Load(q)
      BY <3>1 DEF Load, Statuses, Outcomes
    <3>2. CASE Requeue(q)
      BY <3>2 DEF Requeue, Statuses
    <3>3. CASE CommitResult(q)
      BY <3>3 DEF CommitResult, ResultOK, Statuses, Outcomes
    <3>4. CASE ~(Load(q) \/ Requeue(q) \/ CommitResult(q))
      BY <3>4 DEF WorkerStep, InternalError, CommitFails, Authorize, RefuseRun, TryMutex,
         TakeSlot, SlotTimeout, Export, BackupSaved, Launch, WorkDone, WorkFails, Probe,
         Settle, Return, persisted
    <3> QED
      BY <3>1, <3>2, <3>3, <3>4
  <2>2. status[q] # "NONE" \/ status' = status
    <3>1. phase[q] \in UnderWay \/ status' = status
      BY DEF WorkerStep, InternalError, CommitFails, persisted, Load, Authorize,
         RefuseRun, TryMutex, TakeSlot, SlotTimeout, Requeue, Export, BackupSaved,
         Launch, WorkDone, WorkFails, Probe, Settle, CommitResult, Return,
         UnderWay, Phases
    <3> QED
      BY <3>1 DEF ExecOK
  <2> QED
    BY <1>0, <2>1, <2>2
<1>3. CASE r # q
  BY <1>0, <1>1, <1>2, <1>3, StandingKeepsBar
<1>4. CASE r = q /\ r \notin barred
  BY <1>1, <1>2, <1>4 DEF BarOK
<1>5. CASE r = q /\ r \in barred
  <2>0. /\ phase[r] \in {"none", "pool", "loaded", "commit", "returning"}
        /\ cancel[r] \/ Stale(r)
        /\ phase[r] = "loaded" => Stale(r)
    BY <1>5 DEF BarOK
  <2>1. CASE Load(r)
    <3>1. contacted' = contacted
      BY <2>1 DEF Load, history
    <3>2. CASE cancel[r]
      <4>1. phase'[r] = "returning"
        BY <1>0, <2>1, <3>2 DEF Load, Cancelled
      <4> QED
        BY <1>1, <1>2, <3>1, <4>1, StandingKeepsBar
    <3>3. CASE ~cancel[r]
      <4>1. phase'[r] = "loaded"
        BY <1>0, <2>1, <3>3 DEF Load, Cancelled
      <4> QED
        BY <1>1, <1>2, <1>5, <2>0, <3>1, <3>3, <4>1 DEF BarOK, Stale
    <3> QED
      BY <3>2, <3>3
  <2>2. ~Authorize(r)
    <3>1. CASE phase[r] = "loaded"
      <4>1. job[r].session < session[job[r].owner] /\ job[r].session \in Nat
        BY <2>0, <3>1, JobType DEF Stale
      <4> QED
        BY <4>1 DEF Authorize, Authorized
    <3> QED
      BY <3>1 DEF Authorize
  <2>3. CASE RefuseRun(r) \/ InternalError(r) \/ CommitResult(r) \/ CommitFails(r)
             \/ Return(r)
    <3>1. phase'[r] \in {"commit", "returning", "none"} /\ contacted' = contacted
      BY <1>0, <2>3
      DEF RefuseRun, InternalError, CommitResult, CommitFails, Return, Fail, history
    <3> QED
      BY <1>1, <1>2, <3>1, StandingKeepsBar
  <2>4. ~( TryMutex(r) \/ TakeSlot(r) \/ SlotTimeout(r) \/ Requeue(r) \/ Export(r)
           \/ BackupSaved(r) \/ Launch(r) \/ WorkDone(r) \/ WorkFails(r) \/ Probe(r)
           \/ Settle(r) )
    BY <2>0 DEF TryMutex, TakeSlot, SlotTimeout, Requeue, Export, BackupSaved, Launch,
                WorkDone, WorkFails, Probe, Settle, Inside
  <2> QED
    BY <1>5, <2>1, <2>2, <2>3, <2>4 DEF WorkerStep
<1> QED
  BY <1>3, <1>4, <1>5

LEMMA BarStep ==
  ASSUME TypeOK, ExecOK, ResultOK, SentOK, [Next]_vars, NEW r \in Runs, BarOK(r)
  PROVE  BarOK(r)'
<1> USE DEF persisted, accounts, execs, history
<1>1. (\E q \in Runs : Enqueue(q) \/ RequestCancel(q) \/ RecordCancel(q)) => BarOK(r)'
  BY RequestsKeepBar
<1>12. (\E u \in Users : ChangeAccess(u)) => BarOK(r)'
  BY RequestsKeepBar
<1>2. (\E d \in Devices : EditDevice(d) \/ ArchiveOrRestore(d)) => BarOK(r)'
  BY StandingKeepsBar DEF EditDevice, ArchiveOrRestore
<1>3. (\E d \in Devices : ReaderTakesMutex(d) \/ ReaderStep(d)) => BarOK(r)'
  BY StandingKeepsBar
  DEF ReaderTakesMutex, ReaderStep, ReaderTakesSlot, ReaderTimesOut, ReaderLeaves
<1>4. (\E q \in Runs : CancelRow(q) \/ SkipRow(q) \/ ClaimRow(q)) => BarOK(r)'
  <2> SUFFICES ASSUME NEW q \in Runs, CancelRow(q) \/ SkipRow(q) \/ ClaimRow(q)
               PROVE  BarOK(r)'
    OBVIOUS
  <2>1. (status'[r] # "NONE") <=> (status[r] # "NONE")
    BY DEF CancelRow, SkipRow, ClaimRow, AtRow, SetStatus, ExecOK, Pending, TypeOK
  <2> QED
    BY <2>1, StandingKeepsBar DEF CancelRow, SkipRow, ClaimRow
<1>5. Poll \/ ReadRunning \/ ReadPending \/ EndPass \/ PassFails => BarOK(r)'
  BY StandingKeepsBar DEF Poll, ReadRunning, ReadPending, EndPass, PassFails
<1>6. RefuseRow => BarOK(r)'
  <2> SUFFICES ASSUME RefuseRow PROVE BarOK(r)'
    OBVIOUS
  <2>1. (status'[r] # "NONE") <=> (status[r] # "NONE")
    BY DEF RefuseRow, SetStatus, ExecOK, TypeOK
  <2> QED
    BY <2>1, StandingKeepsBar DEF RefuseRow
<1>7. SubmitRow => BarOK(r)'
  <2> SUFFICES ASSUME SubmitRow PROVE BarOK(r)'
    OBVIOUS
  <2>1. phase'[r] = phase[r] \/ phase'[r] = "pool"
    BY DEF SubmitRow, GoTo, TypeOK
  <2> QED
    BY <2>1, StandingKeepsBar DEF SubmitRow
<1>8. (\E q \in Runs : WorkerStep(q) \/ InternalError(q) \/ CommitFails(q)) => BarOK(r)'
  BY WorkerKeepsBar
<1>9. ReturnSuperseded \/ BeginClose \/ UNCHANGED vars => BarOK(r)'
  BY StandingKeepsBar DEF ReturnSuperseded, BeginClose, vars
<1>10. Restart => BarOK(r)'
  <2> SUFFICES ASSUME Restart PROVE BarOK(r)'
    OBVIOUS
  <2>1. (status'[r] # "NONE") <=> (status[r] # "NONE")
    BY DEF Restart, AfterRestart
  <2> QED
    BY <2>1, StandingKeepsBar DEF Restart
<1>11. ShutPool \/ Exit \/ Crash => BarOK(r)'
  <2> SUFFICES ASSUME ShutPool \/ Exit \/ Crash PROVE BarOK(r)'
    OBVIOUS
  <2>1. phase'[r] = phase[r] \/ phase'[r] = "none"
    BY DEF ShutPool, Exit, Crash, Fresh
  <2> QED
    BY <2>1, StandingKeepsBar DEF ShutPool, Exit, Crash
<1> QED
  BY <1>1, <1>2, <1>3, <1>4, <1>5, <1>6, <1>7, <1>8, <1>9, <1>10, <1>11, <1>12
  DEF Next, DispatcherStep, ProcessStep

\* A run cancelled while it waited, or whose owner's access changed while it waited,
\* contacts nothing (the checks at the start of execute).
THEOREM BarredRunsSendNothing == Spec => []BarredSendsNothing
<1> DEFINE AllOK == \A r \in Runs : BarOK(r)
<1>1. Init => AllOK
  BY DEF Init, BarOK
<1>2. TypeOK /\ ExecOK /\ ResultOK /\ SentOK /\ AllOK /\ [Next]_vars => AllOK'
  BY BarStep
<1>3. TypeOK /\ AllOK => BarredSendsNothing
  BY DEF BarOK, BarredSendsNothing, TypeOK
<1> HIDE DEF AllOK
<1> QED
  BY <1>1, <1>2, <1>3, TypeInvariant, SentInvariant, PTL DEF Spec

=============================================================================
