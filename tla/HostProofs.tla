----------------------------- MODULE HostProofs -----------------------------
(***************************************************************************)
(* Proofs about Host and the Database it composes: type correctness, the   *)
(* three invariants and the action property of its run, for every set of   *)
(* keys and items and every bound on installations, commands and kills.    *)
(***************************************************************************)
EXTENDS Host, WellFoundedInduction, TLAPS

-----------------------------------------------------------------------------
(* The inductive invariant *)

\* The places of a process in create_app, and of the installer.
Steps ==
    {"before-v2", "before-schedules", "alter", "create", "schedules", "move", "index", "before-v1", "unlink", "clear",
     "version", "key", "account"}
Places ==
    Deploying \union {"download", "verify", "undo", "undo config", "undo unit", "undo link", "undo start"}

Configurations == [key : Keys \union {NoKey, Torn}, release : Nat]
Processes ==
    [at : Steps \union {"guard", "open", "serving", "done"}, key : Keys \union {NoKey, Torn}, release : Nat,
     upgrading : BOOLEAN, writing : BOOLEAN]
Copies == [of : Databases \union {Nothing}, key : Keys]
Maintenances == [at : {"archive", "purge", "unlink"}, items : SUBSET Items]
Archivers == [at : {"lock", "copy", "start"}, active : BOOLEAN, rows : SUBSET Items]
Installs ==
    [at : Places, attempt : Nat, active : BOOLEAN, enabled : BOOLEAN, previous : Nat, config : Configurations,
     unit : Nat, switched : BOOLEAN, alone : BOOLEAN]

DataTypes ==
    /\ config \in Configurations
    /\ db \in Databases /\ oldCopy \in BOOLEAN
    /\ snapshot \in [Snapshots -> Copies \union {Nothing}]
    /\ partial \subseteq Snapshots
    /\ lock \in Holders \union {Nothing}
    /\ boot \in [Starters -> Processes \union {Nothing}]
    /\ files \subseteq Items /\ rows \subseteq Items /\ archives \subseteq Items /\ stored \subseteq Items
    /\ maintenance \in Maintenances \union {Nothing}

HostTypes ==
    /\ archiver \in Archivers \union {Nothing}
    /\ tars \subseteq [rows : SUBSET Items, files : SUBSET Items]
    /\ enabled \in BOOLEAN /\ wanted \in BOOLEAN
    /\ installs \in Nat /\ kills \in Nat /\ chores \in Nat
    /\ install \in Installs \union {Nothing}

TypesOK == DataTypes /\ HostTypes

\* Who migrates, serves, deletes or copies holds worker.lock.
LockOK ==
    /\ \A p \in Starters : At(p, Steps \union {"serving"}) => lock = p
    /\ maintenance # Nothing => lock = "maintenance"
    /\ Archiver("copy") => lock = "archiver" /\ archiver.rows \subseteq files

\* What the retention tool deletes is in its archive.
ItemsOK ==
    /\ NothingLost
    /\ maintenance # Nothing /\ maintenance.at # "archive" => maintenance.items \subseteq archives

\* A valid key is never replaced.
KeyOK ==
    /\ \A p \in Starters : boot[p] # Nothing =>
        /\ boot[p].key \in Keys => config.key = boot[p].key
        /\ boot[p].at # "guard" => boot[p].key \in Keys
    /\ Installer("generate") => config.key = Torn /\ install.config.key = NoKey
    /\ install # Nothing /\ install.config.key # NoKey => config.key = install.config.key
    /\ original.columns # "none" => config.key \in Keys
    /\ db.key \in {NoKey, config.key}

\* The snapshot of the database as it was, under the key in the configuration.
Original == [of |-> original, key |-> config.key]
Early == {"before-v2", "before-schedules"}
Kept == \E n \in Early : snapshot[n] = Original

\* The steps that precede the i-th are done, or had nothing to do.
UpgradeSaved == original.columns # "none" => snapshot["before-v2"] # Nothing \/ ~Upgrading
SchedulesSaved == original.columns # "none" => snapshot["before-schedules"] # Nothing \/ db.schedules
Settled ==
    /\ original.columns # "none" => Kept
    /\ UpgradeSaved /\ SchedulesSaved

Passed(i) ==
    /\ i > 1 => UpgradeSaved
    /\ i > 2 => SchedulesSaved
    /\ i > 6 => ~db.plain
    /\ i > 7 => db.index
    /\ i > 9 => ~oldCopy
    /\ i > 10 => ~db.residue

\* Process p is at the i-th step.
StepOK(p, i) ==
    /\ Passed(i)
    /\ db.residue => boot[p].upgrading
    /\ i <= 2 => boot[p].upgrading = Upgrading /\ Due(Order[i], Upgrading)
    /\ i > 2 => Settled

OriginalOK ==
    /\ \/ original \in {Empty, Legacy}
       \/ ~oldCopy /\ \E k \in Keys : original \in {Earlier(k), Recent(k)}
    /\ original.columns # "none" => db.columns # "none"
    /\ original.columns # "none" => \A n \in Early : snapshot[n] \in {Original, Nothing}
    /\ db # original => Settled

CleanOK ==
    /\ NoPlaintextLeft
    /\ db.residue => db.columns # "none"

PlacesOK == \A p \in Starters : \A i \in 1..13 : At(p, {Order[i]}) => StepOK(p, i)

MigrationOK == OriginalOK /\ CleanOK /\ PlacesOK

\* Link, unit and processes are of whole releases; the next one has no files yet.
ReleaseOK ==
    /\ whole \subseteq 1..(installs + 1)
    /\ current \in whole \union {0} /\ unit \in whole \union {0}
    /\ \A p \in Starters : boot[p] # Nothing => boot[p].release \in whole
    /\ installs <= MaxInstalls /\ kills <= MaxKills /\ installs + chores <= MaxCommands

\* What the installer remembers, and how much of it is restored at each of its places.
Undoing == {"undo config", "undo unit", "undo link", "undo start"}
DeployedOK == install # Nothing =>
    /\ install.previous \in whole \union {0} /\ install.unit \in whole \union {0}
    /\ install.previous <= installs
    /\ install.at \in Deploying => Release \in whole
    /\ install.at \in {"unit", "enable", "health"} => install.switched
    /\ install.at \in {"download", "verify"} \union (Deploying \ {"unit", "enable", "health"}) => ~install.switched
    /\ ~install.switched =>
        current = install.previous /\ unit = install.unit /\ enabled = install.enabled
    /\ install.at = "unit" => enabled = install.enabled /\ unit = install.unit
    /\ install.enabled => enabled
    /\ install.at \in Undoing => enabled = install.enabled
    /\ install.at \in Undoing \ {"undo config"} => (install.config.key # NoKey => config = install.config)
    /\ install.at \in {"undo link", "undo start"} => unit = install.unit
    /\ install.at = "undo start" => current = install.previous

\* The failed release does not run unless an offline backup starts it again.
RunningOK == install # Nothing =>
    /\ ~install.switched /\ Alive => boot["service"].release # Release
    /\ install.alone => archiver = Nothing
    /\ install.alone /\ install.switched /\ install.at \in Undoing => ~wanted /\ ~Alive

InstallOK == DeployedOK /\ RunningOK

IInv == TypesOK /\ LockOK /\ ItemsOK /\ KeyOK /\ MigrationOK /\ ReleaseOK /\ InstallOK

-----------------------------------------------------------------------------
(* The order of the steps *)

\* A set of numbers that is not empty has a least one.
LEMMA NatMin ==
    ASSUME NEW S, S \subseteq Nat, S # {}
    PROVE  \E m \in S : \A n \in S : m <= n
<1> DEFINE R == OpToRel(<, Nat)
<1>1. IsWellFoundedOn(R, Nat)
  BY NatLessThanWellFounded
<1>2. \A x, y \in Nat : x < y => <<x, y>> \in R
  BY DEF OpToRel
<1> HIDE DEF R
<1>3. PICK m \in S : \A n \in S : ~ (<<n, m>> \in R)
  BY <1>1, WFMin
<1>4. ASSUME NEW n \in S
      PROVE  m <= n
  <2>1. m \in Nat /\ n \in Nat
    OBVIOUS
  <2>2. n < m => <<n, m>> \in R
    BY <1>2, <2>1
  <2>3. ~ (<<n, m>> \in R)
    BY <1>3
  <2> QED
    BY <2>1, <2>2, <2>3
<1> QED
  BY <1>4

\* The steps, by their places.
LEMMA OrderIs ==
    /\ Len(Order) = 13 /\ DOMAIN Order = 1..13
    /\ Order[1] = "before-v2" /\ Order[2] = "before-schedules" /\ Order[3] = "alter" /\ Order[4] = "create"
    /\ Order[5] = "schedules" /\ Order[6] = "move" /\ Order[7] = "index" /\ Order[8] = "before-v1"
    /\ Order[9] = "unlink" /\ Order[10] = "clear" /\ Order[11] = "version" /\ Order[12] = "key"
    /\ Order[13] = "account"
BY DEF Order

\* The places of Order, one by one.
LEMMA PlaceOf ==
    \A i \in 1..13 : \/ i = 1 \/ i = 2 \/ i = 3 \/ i = 4 \/ i = 5 \/ i = 6 \/ i = 7 \/ i = 8 \/ i = 9
                     \/ i = 10 \/ i = 11 \/ i = 12 \/ i = 13
OBVIOUS

LEMMA StepOfOrder ==
    ASSUME NEW i \in 1..13
    PROVE  Order[i] \in Steps
BY OrderIs, PlaceOf DEF Steps

LEMMA OrderOfStep ==
    ASSUME NEW step \in Steps
    PROVE  \E i \in 1..13 : Order[i] = step
BY OrderIs DEF Steps

LEMMA RangeOfOrder == Range(Order) = Steps
<1>1. ASSUME NEW step \in Range(Order)
      PROVE  step \in Steps
  BY <1>1, OrderIs, StepOfOrder DEF Range
<1>2. ASSUME NEW step \in Steps
      PROVE  step \in Range(Order)
  BY <1>2, OrderIs, OrderOfStep DEF Range
<1> QED
  BY <1>1, <1>2

\* No step occurs twice, so Position finds the place of each.
LEMMA OrderDistinct ==
    ASSUME NEW i \in 1..13, NEW j \in 1..13, Order[i] = Order[j]
    PROVE  i = j
BY OrderIs, PlaceOf

LEMMA PositionOf ==
    ASSUME NEW i \in 1..13
    PROVE  Position(Order[i]) = i
BY OrderIs, OrderDistinct DEF Position

\* The place after the i-th step: the first step after it that has something to do.
LEMMA AfterFacts ==
    ASSUME NEW i \in 0..13, NEW u
    PROVE  \/ After(i, u) = "open" /\ \A j \in (i + 1)..13 : ~Due(Order[j], u)
           \/ \E m \in (i + 1)..13 : /\ After(i, u) = Order[m] /\ Due(Order[m], u)
                                     /\ \A j \in (i + 1)..(m - 1) : ~Due(Order[j], u)
<1> DEFINE due == {j \in (i + 1)..13 : Due(Order[j], u)}
<1>1. After(i, u) = IF due = {} THEN "open" ELSE Order[Min(due)]
  BY OrderIs DEF After
<1>2. CASE due = {}
  BY <1>1, <1>2
<1>3. CASE due # {}
  <2>1. due \subseteq Nat
    OBVIOUS
  <2> HIDE DEF due
  <2>2. \E m \in due : \A n \in due : m <= n
    BY <2>1, <1>3, NatMin
  <2>3. Min(due) \in due /\ \A n \in due : Min(due) <= n
    BY <2>2 DEF Min
  <2>4. \A j \in (i + 1)..(Min(due) - 1) : j \notin due
    <3>1. Min(due) \in Nat
      BY <2>1, <2>3
    <3>2. \A j \in (i + 1)..(Min(due) - 1) : ~(Min(due) <= j)
      BY <3>1
    <3> QED
      BY <2>3, <3>2
  <2>5. Min(due) \in (i + 1)..13 /\ Due(Order[Min(due)], u)
    BY <2>3 DEF due
  <2>6. \A j \in (i + 1)..(Min(due) - 1) : ~Due(Order[j], u)
    BY <2>4, <2>5 DEF due
  <2>7. After(i, u) = Order[Min(due)]
    BY <1>1, <1>3
  <2> QED
    BY <2>5, <2>6, <2>7
<1> QED
  BY <1>2, <1>3

-----------------------------------------------------------------------------
(* The initial states *)

\* The databases a start may find, and what each of them needs.
LEMMA FirstDatabases ==
    ASSUME NEW k \in Keys
    PROVE  /\ Empty \in Databases /\ Legacy \in Databases /\ Earlier(k) \in Databases /\ Recent(k) \in Databases
           /\ Empty.columns = "none" /\ Empty.version = 0 /\ Empty.key = NoKey /\ ~Empty.residue
           /\ Legacy.columns = "old" /\ Legacy.version = 0 /\ Legacy.key = NoKey /\ ~Legacy.schedules
           /\ Earlier(k).columns = "new" /\ Earlier(k).version = 2 /\ Earlier(k).key = k /\ ~Earlier(k).schedules
           /\ ~Earlier(k).plain /\ ~Earlier(k).residue /\ Earlier(k).index
           /\ Recent(k).columns = "new" /\ Recent(k).version = 2 /\ Recent(k).key = k /\ Recent(k).schedules
           /\ ~Recent(k).plain /\ ~Recent(k).residue /\ Recent(k).index /\ Recent(k).users
<1>1. Empty \in Databases /\ Empty.columns = "none" /\ Empty.version = 0 /\ Empty.key = NoKey /\ ~Empty.residue
  BY DEF Empty, Databases
<1>2. Legacy \in Databases
  BY <1>1 DEF Legacy, Databases
<1>3. Earlier(k) \in Databases
  BY DEF Earlier, Databases
<1>4. Recent(k) \in Databases
  BY <1>3 DEF Recent, Databases
<1>5. Legacy.columns = "old" /\ Legacy.version = 0 /\ Legacy.key = NoKey /\ ~Legacy.schedules
  BY DEF Empty, Legacy
<1>6. /\ Earlier(k).columns = "new" /\ Earlier(k).version = 2 /\ Earlier(k).key = k /\ ~Earlier(k).schedules
      /\ ~Earlier(k).plain /\ ~Earlier(k).residue /\ Earlier(k).index /\ Earlier(k).users
  BY DEF Earlier
<1>7. /\ Recent(k).columns = "new" /\ Recent(k).version = 2 /\ Recent(k).key = k /\ Recent(k).schedules
      /\ ~Recent(k).plain /\ ~Recent(k).residue /\ Recent(k).index /\ Recent(k).users
  BY <1>3, <1>6 DEF Recent, Databases
<1> QED
  BY <1>1, <1>2, <1>3, <1>4, <1>5, <1>6, <1>7

\* The invariant holds of every age of database the program may find.
LEMMA InitIInv ==
    ASSUME Init
    PROVE  IInv
<1> USE DEF Init, DatabaseInit
<1>1. PICK k \in Keys :
        \/ db = Empty /\ oldCopy = FALSE /\ config = [key |-> NoKey, release |-> 0]
        \/ db = Legacy /\ oldCopy \in BOOLEAN /\ config = [key |-> k, release |-> 0]
        \/ db \in {Earlier(k), Recent(k)} /\ oldCopy = FALSE /\ config = [key |-> k, release |-> 1]
  OBVIOUS
<1>2. config.key \in Keys \union {NoKey} /\ config.release \in 0..1 /\ config \in Configurations
  BY <1>1 DEF Configurations
<1>3. DataTypes
  BY <1>1, <1>2, FirstDatabases, ZenonT(60) DEF DataTypes
<1>4. HostTypes
  BY <1>2 DEF HostTypes
<1>5. LockOK /\ ItemsOK /\ InstallOK
  BY DEF LockOK, ItemsOK, NothingLost, RowsKept, InstallOK, DeployedOK, RunningOK, At, Archiver
<1>6. KeyOK
  BY <1>1, FirstDatabases, DatabaseAssumption DEF KeyOK, Installer
<1>7. OriginalOK /\ CleanOK
  BY <1>1, FirstDatabases DEF OriginalOK, CleanOK, NoPlaintextLeft, Early, Snapshots
<1>8. PlacesOK
  BY DEF PlacesOK, At
<1>9. ReleaseOK
  BY <1>2, HostAssumption DEF ReleaseOK
<1> QED
  BY <1>3, <1>4, <1>5, <1>6, <1>7, <1>8, <1>9 DEF IInv, TypesOK, MigrationOK

-----------------------------------------------------------------------------
(* What a step does to the database *)

\* A step keeps the type of the database and only takes it further: what is cleaned, indexed
\* or created stays so, and what was due because of it is done.
LEMMA DoneFacts ==
    ASSUME NEW step \in Steps \ Snapshots, NEW key \in Keys, db \in Databases,
           NEW d, d = Done(step, key)
    PROVE  /\ d \in Databases
           /\ d.plain => db.plain /\ step # "move"
           /\ db.index \/ step = "index" => d.index
           /\ d.residue => db.residue /\ step # "clear"
           /\ db.schedules \/ step = "schedules" => d.schedules
           /\ db.columns # "none" => d.columns \in {"new", db.columns} /\ d.columns # "none"
           /\ d.version = IF step = "version" THEN 2 ELSE db.version
           /\ d.key = IF step = "key" THEN key ELSE db.key
<1> USE DEF Steps, Snapshots, Databases
<1>1. CASE step \in {"alter", "create"}
  BY <1>1 DEF Done
<1>2. CASE step = "schedules"
  BY <1>2 DEF Done
<1>3. CASE step = "move"
  BY <1>3 DEF Done
<1>4. CASE step = "index"
  BY <1>4 DEF Done
<1>5. CASE step = "unlink"
  BY <1>5 DEF Done
<1>6. CASE step = "clear"
  BY <1>6 DEF Done
<1>7. CASE step = "version"
  BY <1>7 DEF Done
<1>8. CASE step = "key"
  BY <1>8 DEF Done
<1>9. CASE step = "account"
  BY <1>9 DEF Done
<1> QED
  BY <1>1, <1>2, <1>3, <1>4, <1>5, <1>6, <1>7, <1>8, <1>9

-----------------------------------------------------------------------------
(* Processes and the lock *)

\* A process that goes on keeps its key and release; if it is not open it has the lock.
LEMMA GoesFacts ==
    ASSUME DataTypes, NEW p \in Starters, boot[p] # Nothing, NEW i \in 0..13, NEW u \in BOOLEAN, Goes(p, i, u)
    PROVE  /\ boot' \in [Starters -> Processes \union {Nothing}]
           /\ boot'[p] \in Processes /\ \A q \in Starters \ {p} : boot'[q] = boot[q]
           /\ boot'[p].at = After(i, u) /\ boot'[p].upgrading = u /\ boot'[p].at \in Steps \union {"open"}
           /\ boot'[p].key = boot[p].key /\ boot'[p].release = boot[p].release
           /\ lock' = IF boot'[p].at = "open" THEN Nothing ELSE p
<1>1. After(i, u) \in Steps \union {"open"}
  BY AfterFacts, StepOfOrder
<1>2. boot \in [Starters -> Processes \union {Nothing}] /\ boot[p] \in Processes
  BY DEF DataTypes
<1> DEFINE to == [boot[p] EXCEPT !.at = After(i, u), !.upgrading = u, !.writing = FALSE]
<1>3. /\ to \in Processes /\ to.at = After(i, u) /\ to.upgrading = u
      /\ to.key = boot[p].key /\ to.release = boot[p].release
  <2> DEFINE place == After(i, u)
  <2> HIDE DEF place
  <2>1. place \in Steps \union {"open"}
    BY <1>1 DEF place
  <2>2. \A r \in Processes :
            LET s == [r EXCEPT !.at = place, !.upgrading = u, !.writing = FALSE]
            IN  s \in Processes /\ s.at = place /\ s.upgrading = u /\ s.key = r.key /\ s.release = r.release
    BY <2>1 DEF Processes
  <2> QED
    BY <1>2, <2>2 DEF place
<1>4. boot' = [boot EXCEPT ![p] = to] /\ lock' = IF After(i, u) = "open" THEN Nothing ELSE p
  BY DEF Goes
<1> HIDE DEF to
<1> QED
  BY <1>1, <1>2, <1>3, <1>4

\* What a step may do to a process: it goes on, ends, or is started with the configured key.
Advanced(p) ==
    /\ boot[p] # Nothing /\ boot[p].at \in Steps \union {"guard", "open"}
    /\ boot'[p] \in Processes /\ boot'[p].at # "guard" /\ boot'[p].key \in Keys
    /\ boot'[p].key = boot[p].key /\ boot'[p].release = boot[p].release
Fresh(p, release) ==
    /\ boot[p] = Nothing /\ boot'[p] \in Processes /\ boot'[p].at = "guard"
    /\ boot'[p].key = config.key /\ boot'[p].release = release
Ended(p) == boot'[p] \in {boot[p], Nothing}

\* The places at which a process has the lock.
LockedOK == \A p \in Starters : At(p, Steps \union {"serving"}) => lock = p

BootTypes == boot \in [Starters -> Processes \union {Nothing}] /\ lock \in Holders \union {Nothing}

\* A step of create_app.
LEMMA StarterStep ==
    ASSUME IInv, NEW p \in Starters, Guards(p) \/ SnapshotStarts(p) \/ SnapshotEnds(p) \/ Commits(p)
    PROVE  /\ BootTypes' /\ LockedOK'
           /\ Advanced(p) /\ \A q \in Starters \ {p} : boot'[q] = boot[q]
           /\ lock' \in {p, Nothing} /\ lock \in {p, Nothing}
<1> USE DEF IInv, TypesOK
<1>1. ASSUME boot[p] # Nothing, boot[p].key \in Keys, boot[p].at \in Steps \union {"guard", "open"},
             lock \in {p, Nothing}, NEW i \in 0..13, NEW u \in BOOLEAN, Goes(p, i, u)
      PROVE  /\ BootTypes' /\ LockedOK'
             /\ Advanced(p) /\ \A q \in Starters \ {p} : boot'[q] = boot[q]
             /\ lock' \in {p, Nothing} /\ lock \in {p, Nothing}
  <2>1. /\ boot' \in [Starters -> Processes \union {Nothing}]
        /\ boot'[p] \in Processes /\ \A q \in Starters \ {p} : boot'[q] = boot[q]
        /\ boot'[p].at \in Steps \union {"open"}
        /\ boot'[p].key = boot[p].key /\ boot'[p].release = boot[p].release
        /\ lock' = IF boot'[p].at = "open" THEN Nothing ELSE p
    BY <1>1, GoesFacts
  <2>2. BootTypes'
    BY <2>1 DEF BootTypes, Holders
  <2>3. LockedOK'
    <3> SUFFICES ASSUME NEW q \in Starters, At(q, Steps \union {"serving"})'
                 PROVE  lock' = q
      BY DEF LockedOK
    <3>1. CASE q = p
      BY <2>1, <3>1 DEF At, Steps
    <3>2. CASE q # p
      BY <1>1, <2>1, <3>2, DatabaseAssumption DEF At, LockOK, Holders
    <3> QED
      BY <3>1, <3>2
  <2>4. Advanced(p)
    BY <1>1, <2>1 DEF Advanced, Steps
  <2> QED
    BY <1>1, <2>1, <2>2, <2>3, <2>4
<1>2. CASE Guards(p)
  <2>1. boot[p] # Nothing /\ boot[p].at = "guard" /\ lock = Nothing /\ boot[p].key \in Keys /\ Goes(p, 0, Upgrading)
    BY <1>2 DEF Guards, At, KeyFits
  <2>2. Upgrading \in BOOLEAN /\ 0 \in 0..13
    BY DEF Upgrading
  <2> QED
    BY <2>1, <2>2, <1>1
<1>3. CASE SnapshotEnds(p)
  <2>1. boot[p] # Nothing /\ boot[p].at \in Steps /\ Goes(p, Position(boot[p].at), boot[p].upgrading)
    BY <1>3 DEF SnapshotEnds, At, Snapshots, Steps
  <2>2. Position(boot[p].at) \in 0..13
    BY <2>1, OrderOfStep, PositionOf
  <2>3. lock = p /\ boot[p].key \in Keys /\ boot[p].upgrading \in BOOLEAN
    BY <2>1 DEF LockOK, At, KeyOK, DataTypes, Processes, Steps
  <2> QED
    BY <2>1, <2>2, <2>3, <1>1
<1>4. CASE Commits(p)
  <2>1. boot[p] # Nothing /\ boot[p].at \in Steps /\ Goes(p, Position(boot[p].at), boot[p].upgrading)
    BY <1>4, RangeOfOrder DEF Commits
  <2>2. Position(boot[p].at) \in 0..13
    BY <2>1, OrderOfStep, PositionOf
  <2>3. lock = p /\ boot[p].key \in Keys /\ boot[p].upgrading \in BOOLEAN
    BY <2>1 DEF LockOK, At, KeyOK, DataTypes, Processes, Steps
  <2> QED
    BY <2>1, <2>2, <2>3, <1>1
<1>5. CASE SnapshotStarts(p)
  <2>1. /\ boot[p] \in Processes /\ boot[p] # Nothing /\ boot[p].at \in Steps
        /\ boot' = [boot EXCEPT ![p].writing = TRUE] /\ lock' = lock
    BY <1>5 DEF SnapshotStarts, At, Snapshots, Steps, DataTypes
  <2>2. lock = p /\ boot[p].key \in Keys
    BY <2>1 DEF LockOK, At, KeyOK, Steps
  <2>3. \A r \in Processes : LET s == [r EXCEPT !.writing = TRUE]
                             IN  s \in Processes /\ s.at = r.at /\ s.key = r.key /\ s.release = r.release
    BY DEF Processes
  <2>4. /\ boot' \in [Starters -> Processes \union {Nothing}] /\ \A q \in Starters \ {p} : boot'[q] = boot[q]
        /\ boot'[p] \in Processes /\ boot'[p].at = boot[p].at /\ boot'[p].key = boot[p].key
        /\ boot'[p].release = boot[p].release
    BY <2>1, <2>3 DEF DataTypes
  <2>5. BootTypes'
    BY <2>1, <2>2, <2>4 DEF BootTypes, Holders
  <2>6. LockedOK'
    BY <2>1, <2>2, <2>4 DEF LockedOK, LockOK, At
  <2>7. Advanced(p)
    BY <2>1, <2>2, <2>4 DEF Advanced, Steps
  <2> QED
    BY <2>1, <2>2, <2>4, <2>5, <2>6, <2>7
<1> QED
  BY <1>2, <1>3, <1>4, <1>5

\* Steps that end processes, or change who else holds the lock.
LEMMA QuietLock ==
    ASSUME IInv, \A p \in Starters : Ended(p), lock' \in Holders \union {Nothing},
           boot' \in [Starters -> Processes \union {Nothing}],
           \A p \in Starters : lock = p => lock' = p \/ boot'[p] = Nothing
    PROVE  BootTypes' /\ LockedOK'
BY DEF IInv, LockOK, LockedOK, BootTypes, Ended, At

\* A process that ends frees the lock if it had it, and leaves the other alone.
LEMMA DeadFacts ==
    ASSUME IInv, NEW p \in Starters, boot' = Dead(p), lock' = Freed(p)
    PROVE  /\ BootTypes' /\ LockedOK' /\ boot'[p] = Nothing
           /\ \A q \in Starters : Ended(q)
           /\ \A q \in Starters \ {p} : boot'[q] = boot[q]
<1>1. boot \in [Starters -> Processes \union {Nothing}] /\ lock \in Holders \union {Nothing}
  BY DEF IInv, TypesOK, DataTypes
<1>2. /\ boot' \in [Starters -> Processes \union {Nothing}] /\ boot'[p] = Nothing
      /\ \A q \in Starters \ {p} : boot'[q] = boot[q]
  BY <1>1 DEF Dead
<1>3. \A q \in Starters : Ended(q)
  BY <1>2 DEF Ended
<1>4. lock' \in Holders \union {Nothing} /\ \A q \in Starters : lock = q => lock' = q \/ boot'[q] = Nothing
  BY <1>1, <1>2 DEF Freed
<1> QED
  BY <1>2, <1>3, <1>4, QuietLock

\* A process that is started has the configured key and does not hold the lock.
LEMMA StartedFacts ==
    ASSUME IInv, NEW p \in Starters, boot[p] = Nothing, NEW release \in Nat, boot' = Started(p, release), lock' = lock
    PROVE  /\ BootTypes' /\ LockedOK' /\ Fresh(p, release)
           /\ \A q \in Starters \ {p} : boot'[q] = boot[q]
<1> DEFINE new == [at |-> "guard", key |-> config.key, release |-> release, upgrading |-> FALSE, writing |-> FALSE]
<1>1. boot \in [Starters -> Processes \union {Nothing}] /\ lock \in Holders \union {Nothing}
  BY DEF IInv, TypesOK, DataTypes
<1>2. new \in Processes /\ new.at = "guard" /\ new.key = config.key /\ new.release = release
  BY DEF IInv, TypesOK, DataTypes, Configurations, Processes
<1>3. boot' = [boot EXCEPT ![p] = new]
  BY DEF Started
<1> HIDE DEF new
<1>4. /\ boot' \in [Starters -> Processes \union {Nothing}] /\ boot'[p] = new
      /\ \A q \in Starters \ {p} : boot'[q] = boot[q]
  BY <1>1, <1>2, <1>3
<1>5. LockedOK'
  <2> SUFFICES ASSUME NEW q \in Starters, At(q, Steps \union {"serving"})'
               PROVE  lock' = q
    BY DEF LockedOK
  <2>1. q # p
    BY <1>2, <1>4 DEF At, Steps
  <2> QED
    BY <2>1, <1>4 DEF IInv, LockOK, At
<1> QED
  BY <1>1, <1>2, <1>4, <1>5 DEF BootTypes, Fresh

\* One that opens takes the lock again, or ends its work.
LEMMA OpenedFacts ==
    ASSUME IInv, Serves \/ Provisions
    PROVE  /\ BootTypes' /\ LockedOK'
           /\ \A p \in Starters : Ended(p) \/ (Advanced(p) /\ boot'[p].at \notin Steps)
           /\ lock = Nothing /\ lock' \in {"service", Nothing}
<1>1. boot \in [Starters -> Processes \union {Nothing}]
  BY DEF IInv, TypesOK, DataTypes
<1>2. ASSUME NEW p \in Starters, NEW place \in {"serving", "done"}, boot[p] # Nothing, boot[p].at = "open",
             boot' = [boot EXCEPT ![p].at = place]
      PROVE  /\ boot' \in [Starters -> Processes \union {Nothing}] /\ boot'[p].at = place
             /\ \A q \in Starters \ {p} : boot'[q] = boot[q]
             /\ Advanced(p)
  <2>1. \A r \in Processes : LET s == [r EXCEPT !.at = place]
                             IN  s \in Processes /\ s.at = place /\ s.key = r.key /\ s.release = r.release
    BY DEF Processes
  <2>2. boot[p] \in Processes /\ boot[p].key \in Keys
    BY <1>1, <1>2 DEF IInv, KeyOK
  <2>3. /\ boot' \in [Starters -> Processes \union {Nothing}] /\ boot'[p] \in Processes /\ boot'[p].at = place
        /\ boot'[p].key = boot[p].key /\ boot'[p].release = boot[p].release
        /\ \A q \in Starters \ {p} : boot'[q] = boot[q]
    BY <1>1, <1>2, <2>1, <2>2
  <2> QED
    BY <1>2, <2>2, <2>3 DEF Advanced
<1>3. CASE Serves
  <2>1. /\ boot["service"] # Nothing /\ boot["service"].at = "open" /\ lock = Nothing /\ lock' = "service"
        /\ boot' = [boot EXCEPT !["service"].at = "serving"]
    BY <1>3 DEF Serves, At
  <2>2. /\ boot' \in [Starters -> Processes \union {Nothing}] /\ boot'["service"].at = "serving"
        /\ \A q \in Starters \ {"service"} : boot'[q] = boot[q]
        /\ Advanced("service")
    BY <1>2, <2>1 DEF Starters
  <2>3. LockedOK'
    BY <2>1, <2>2, DatabaseAssumption DEF LockedOK, IInv, LockOK, At, Holders
  <2> QED
    BY <2>1, <2>2, <2>3 DEF BootTypes, Holders, Starters, Ended, Steps
<1>4. CASE Provisions
  <2>1. /\ boot["bootstrap"] # Nothing /\ boot["bootstrap"].at = "open" /\ lock = Nothing /\ lock' = lock
        /\ boot' = [boot EXCEPT !["bootstrap"].at = "done"]
    BY <1>4 DEF Provisions, At
  <2>2. /\ boot' \in [Starters -> Processes \union {Nothing}] /\ boot'["bootstrap"].at = "done"
        /\ \A q \in Starters \ {"bootstrap"} : boot'[q] = boot[q]
        /\ Advanced("bootstrap")
    BY <1>2, <2>1 DEF Starters
  <2>3. LockedOK'
    BY <2>1, <2>2, DatabaseAssumption DEF LockedOK, IInv, LockOK, At, Holders, Steps
  <2> QED
    BY <2>1, <2>2, <2>3 DEF BootTypes, Holders, Starters, Ended, Steps
<1> QED
  BY <1>3, <1>4

Migrating(p) == Guards(p) \/ SnapshotStarts(p) \/ SnapshotEnds(p) \/ Commits(p)
Moved(p) ==
    \/ Ended(p)
    \/ Advanced(p) /\ (boot'[p].at \in Steps => Migrating(p))
    \/ p = "service" /\ wanted /\ current # 0 /\ Fresh(p, current) /\ UNCHANGED <<config, hostVars>>
    \/ p = "bootstrap" /\ Installer("check") /\ Fresh(p, Release) /\ UNCHANGED <<config, whole>>

\* Every step of the host moves processes like this, and keeps the lock with its holder.
LEMMA BootStep ==
    ASSUME IInv, Next
    PROVE  BootTypes' /\ LockedOK' /\ \A p \in Starters : Moved(p)
<1> USE DEF Moved
<1>1. ASSUME UNCHANGED boot, lock' \in Holders \union {Nothing}, \A p \in Starters : lock = p => lock' = p
      PROVE  BootTypes' /\ LockedOK' /\ \A p \in Starters : Moved(p)
  <2>1. boot' \in [Starters -> Processes \union {Nothing}] /\ \A p \in Starters : Ended(p)
    BY <1>1 DEF IInv, TypesOK, DataTypes, Ended
  <2> QED
    BY <1>1, <2>1, QuietLock
<1>2. lock \in Holders \union {Nothing} /\ \A p \in Starters : p \notin {"maintenance", "archiver", Nothing}
  BY DatabaseAssumption DEF IInv, TypesOK, DataTypes, Holders, Starters
<1>3. CASE UNCHANGED <<boot, lock>>
  BY <1>1, <1>2, <1>3
<1>4. ASSUME NEW p \in Starters, Guards(p) \/ SnapshotStarts(p) \/ SnapshotEnds(p) \/ Commits(p)
      PROVE  BootTypes' /\ LockedOK' /\ \A q \in Starters : Moved(q)
  BY <1>4, StarterStep DEF Ended, Migrating
<1>5. CASE Serves \/ Provisions
  BY <1>5, OpenedFacts
<1>6. ASSUME NEW p \in Starters, boot' = Dead(p), lock' = Freed(p)
      PROVE  BootTypes' /\ LockedOK' /\ \A q \in Starters : Moved(q)
  BY <1>6, DeadFacts
<1>7. ASSUME NEW p \in Starters, StartFails(p) \/ KillStart(p)
      PROVE  BootTypes' /\ LockedOK' /\ \A q \in Starters : Moved(q)
  BY <1>6, <1>7 DEF StartFails, KillStart
<1>8. CASE ArchiverStarts \/ KillInstall \/ Stopped
  BY <1>6, <1>8 DEF ArchiverStarts, KillInstall, Stopped, Starters
<1>9. CASE Launches
  <2>1. boot["service"] = Nothing /\ wanted /\ current # 0 /\ boot' = Started("service", current)
        /\ UNCHANGED <<config, hostVars>> /\ lock' = lock
    BY <1>9 DEF Launches, Alive, hostVars
  <2>2. current \in Nat /\ "service" \in Starters
    BY DEF IInv, ReleaseOK, Starters, TypesOK, HostTypes
  <2> QED
    BY <2>1, <2>2, StartedFacts DEF Starters, Ended
<1>10. CASE Bootstraps /\ ~db.users
  <2>1. /\ boot["bootstrap"] = Nothing /\ boot' = Started("bootstrap", Release) /\ lock' = lock
        /\ Installer("check") /\ UNCHANGED <<config, whole>>
    BY <1>10 DEF Bootstraps, Deploys
  <2>2. Release \in Nat /\ "bootstrap" \in Starters
    BY DEF IInv, TypesOK, HostTypes, Release, Starters
  <2> QED
    BY <2>1, <2>2, StartedFacts DEF Starters, Ended
<1>11. CASE Bootstrapped
  <2>1. boot' = Dead("bootstrap") /\ lock' = lock /\ boot["bootstrap"] # Nothing /\ boot["bootstrap"].at = "done"
    BY <1>11 DEF Bootstrapped, At
  <2>2. /\ boot' \in [Starters -> Processes \union {Nothing}]
        /\ \A p \in Starters : Ended(p)
    BY <2>1 DEF IInv, TypesOK, DataTypes, Dead, Ended
  <2> QED
    BY <1>2, <2>1, <2>2, QuietLock
<1>12. CASE Reboot
  <2>1. boot' = [p \in Starters |-> Nothing] /\ lock' = Nothing
    BY <1>12 DEF Reboot
  <2>2. boot' \in [Starters -> Processes \union {Nothing}] /\ \A p \in Starters : Ended(p) /\ boot'[p] = Nothing
    BY <2>1 DEF Ended
  <2> QED
    BY <2>1, <2>2, QuietLock
<1>13. CASE \E candidates \in SUBSET Items : RetentionStarts(candidates)
  BY <1>1, <1>2, <1>13 DEF RetentionStarts, Exclusive, schema, Holders
<1>14. CASE RetentionEnds \/ KillChore
  BY <1>1, <1>2, <1>14 DEF RetentionEnds, KillChore, Freed, schema, Holders
<1>15. CASE ArchiverLocks \/ ArchiverCopies
  BY <1>1, <1>2, <1>15 DEF ArchiverLocks, ArchiverCopies, Exclusive, Freed, schema, Holders
<1>16. ASSUME NEW i \in Items, Saves(i) \/ Records(i) \/ Unlinks(i)
       PROVE  UNCHANGED <<boot, lock>>
  BY <1>16 DEF Saves, Records, Unlinks, Maintains, schema
<1>17. CASE Archives \/ Purges
  BY <1>3, <1>17 DEF Archives, Purges, Maintains, schema
<1>18. CASE ArchiverEnds \/ InstallStarts \/ Downloads \/ Stages \/ Switches \/ Healthy \/ Raises \/ UndoEnds
  BY <1>3, <1>18 DEF ArchiverEnds, InstallStarts, Downloads, Stages, Switches, Healthy, Raises, UndoEnds, dataVars
<1>19. CASE Configures \/ Writes \/ Units \/ Enables \/ UndoesConfig \/ UndoesUnit \/ UndoesLink
  BY <1>3, <1>19 DEF Configures, Writes, Units, Enables, UndoesConfig, UndoesUnit, UndoesLink, Untouched
<1>20. CASE Stops \/ UndoesService
  BY <1>3, <1>8, <1>20 DEF Stops, UndoesService, Untouched
<1>21. CASE Bootstraps /\ db.users
  BY <1>3, <1>21 DEF Bootstraps, Untouched
<1>22. CASE DatabaseNext
  BY <1>22, <1>3, <1>4, <1>5, <1>7, <1>14, <1>16, <1>17 DEF DatabaseNext
<1>23. CASE Retention
  BY <1>13, <1>23 DEF Retention
<1> QED
  BY <1>3, <1>7, <1>8, <1>9, <1>10, <1>11, <1>12, <1>14, <1>15, <1>18, <1>19, <1>20, <1>21, <1>22, <1>23 DEF Next

-----------------------------------------------------------------------------
(* Items, their retention and their backups *)

\* The steps that leave items and tars alone, and the lock with the tools that have it.
Aside ==
    /\ lock \in {"maintenance", "archiver"} => lock' = lock
    /\ archiver' \in {archiver, Nothing}
    /\ UNCHANGED <<maintenance, files, rows, archives, stored, tars>>

\* The others.
ItemsNext ==
    \/ /\ (\E i \in Items : Saves(i) \/ Records(i) \/ Unlinks(i)) \/ Archives \/ Purges \/ RetentionEnds
       /\ UNCHANGED hostVars
    \/ Retention \/ ArchiverStarts \/ ArchiverLocks \/ ArchiverCopies \/ KillChore \/ Reboot

\* Every step is of one of the two kinds.
LEMMA ItemsCases ==
    ASSUME IInv, Next
    PROVE  Aside \/ ItemsNext
<1> USE DEF Aside, ItemsNext, retained
<1>1. ASSUME NEW p \in Starters, lock' = Freed(p), UNCHANGED <<retained, archiver, tars>>
      PROVE  Aside
  BY <1>1 DEF Freed, Starters
<1>2. ASSUME NEW p \in Starters, Guards(p) \/ SnapshotStarts(p) \/ SnapshotEnds(p) \/ Commits(p), UNCHANGED hostVars
      PROVE  Aside
  <2>1. lock \in {p, Nothing}
    BY <1>2, StarterStep
  <2>2. lock \notin {"maintenance", "archiver"}
    BY <2>1, DatabaseAssumption DEF Starters, Holders
  <2>3. UNCHANGED retained
    BY <1>2 DEF Guards, SnapshotStarts, SnapshotEnds, Commits
  <2> QED
    BY <1>2, <2>2, <2>3 DEF hostVars
<1>3. ASSUME NEW p \in Starters, StartFails(p), UNCHANGED hostVars
      PROVE  Aside
  BY <1>1, <1>3 DEF StartFails, hostVars
<1>4. CASE (Serves \/ Provisions) /\ UNCHANGED hostVars
  <2>1. lock = Nothing
    BY <1>4 DEF Serves, Provisions
  <2>2. lock \notin {"maintenance", "archiver"}
    BY <2>1, DatabaseAssumption DEF Holders
  <2> QED
    BY <1>4, <2>2 DEF Serves, Provisions, hostVars
<1>5. CASE DatabaseNext /\ UNCHANGED hostVars
  BY <1>2, <1>3, <1>4, <1>5 DEF DatabaseNext
<1>6. CASE Launches
  BY <1>6 DEF Launches, hostVars
<1>7. CASE ArchiverEnds \/ InstallStarts \/ Downloads \/ Stages \/ Switches \/ Healthy \/ Raises \/ UndoEnds
  BY <1>7 DEF ArchiverEnds, InstallStarts, Downloads, Stages, Switches, Healthy, Raises, UndoEnds, dataVars
<1>8. CASE Configures \/ Writes \/ Units \/ Enables \/ UndoesConfig \/ UndoesUnit \/ UndoesLink
  BY <1>8 DEF Configures, Writes, Units, Enables, UndoesConfig, UndoesUnit, UndoesLink, Deploys, Untouched
<1>9. CASE Stops \/ UndoesService
  BY <1>1, <1>9 DEF Stops, UndoesService, Deploys, Stopped, Untouched, Starters
<1>10. CASE Bootstraps \/ Bootstrapped
  BY <1>10 DEF Bootstraps, Bootstrapped, Deploys, Untouched
<1>11. CASE (\E p \in Starters : KillStart(p)) \/ KillInstall
  BY <1>1, <1>11 DEF KillStart, KillInstall, Starters
<1> QED
  BY <1>5, <1>6, <1>7, <1>8, <1>9, <1>10, <1>11 DEF Next

\* Rows, files and archives change only in the hands of who holds worker.lock.
LEMMA LockItemsStep ==
    ASSUME IInv, Next
    PROVE  LockOK' /\ ItemsOK'
<1> DEFINE Tools == /\ maintenance # Nothing => lock = "maintenance"
                    /\ Archiver("copy") => lock = "archiver" /\ archiver.rows \subseteq files
<1> SUFFICES Tools' /\ ItemsOK'
  BY BootStep DEF LockOK, LockedOK
<1>1. /\ Tools /\ ItemsOK
      /\ tars \subseteq [rows : SUBSET Items, files : SUBSET Items]
      /\ maintenance \in Maintenances \union {Nothing}
      /\ archiver \in Archivers \union {Nothing}
  BY DEF IInv, LockOK, TypesOK, DataTypes, HostTypes
<1>2. Nothing # "maintenance" /\ Nothing # "archiver"
  BY DatabaseAssumption DEF Holders
<1> USE DEF ItemsOK, NothingLost, RowsKept
<1>3. CASE Aside
  BY <1>1, <1>3 DEF Aside, Archiver
<1>4. ASSUME NEW i \in Items, Saves(i) \/ Records(i), UNCHANGED hostVars
      PROVE  Tools' /\ ItemsOK'
  BY <1>1, <1>4 DEF Saves, Records, hostVars, Archiver
<1>5. ASSUME NEW i \in Items, Unlinks(i), UNCHANGED hostVars
      PROVE  Tools' /\ ItemsOK'
  <2>1. /\ maintenance # Nothing /\ maintenance.at = "unlink" /\ lock = "maintenance"
        /\ maintenance' = [maintenance EXCEPT !.at = "unlink"] /\ lock' = lock
        /\ i \notin rows /\ files' = files \ {i} /\ UNCHANGED <<rows, archives, stored, archiver, tars>>
    BY <1>1, <1>5 DEF Unlinks, Maintains, hostVars
  <2>2. maintenance'.items = maintenance.items
    BY <1>1, <2>1 DEF Maintenances
  <2>3. Tools'
    BY <1>1, <2>1 DEF Archiver
  <2> QED
    BY <1>1, <2>1, <2>2, <2>3
<1>6. CASE (Archives \/ Purges) /\ UNCHANGED hostVars
  <2>1. PICK next \in {"purge", "unlink"} :
            maintenance' = [maintenance EXCEPT !.at = next] /\ maintenance # Nothing
    BY <1>6 DEF Archives, Purges, Maintains
  <2>2. maintenance'.items = maintenance.items /\ UNCHANGED <<lock, archiver, files, tars, stored>>
    BY <1>1, <1>6, <2>1 DEF Archives, Purges, Maintains, Maintenances, hostVars
  <2>3. Tools'
    BY <1>1, <2>1, <2>2 DEF Archiver
  <2>4. CASE Archives
    BY <1>1, <2>2, <2>3, <2>4 DEF Archives
  <2>5. CASE Purges
    BY <1>1, <2>2, <2>3, <2>5 DEF Purges, Maintains
  <2> QED
    BY <1>6, <2>4, <2>5
<1>7. CASE RetentionEnds /\ UNCHANGED hostVars
  BY <1>1, <1>2, <1>7 DEF RetentionEnds, Freed, hostVars, Archiver
<1>8. CASE Retention
  <2>1. PICK candidates \in SUBSET Items : RetentionStarts(candidates)
    BY <1>8 DEF Retention
  <2> QED
    BY <1>1, <1>2, <1>8, <2>1 DEF Retention, RetentionStarts, Exclusive, Archiver
<1>9. CASE ArchiverStarts
  <2>1. /\ lock' = Freed("service") /\ archiver'.at = "lock" /\ UNCHANGED <<retained, tars>>
    BY <1>9 DEF ArchiverStarts, Stopped
  <2> QED
    BY <1>1, <2>1 DEF Freed, Archiver, retained
<1>10. CASE ArchiverLocks
  <2>1. CASE lock' = lock /\ archiver' = [archiver EXCEPT !.at = "start"]
    <3>1. archiver'.at = "start"
      BY <1>1, <1>10, <2>1 DEF ArchiverLocks, Archiver, Archivers
    <3> QED
      BY <1>1, <1>10, <2>1, <3>1 DEF ArchiverLocks, Archiver, retained
  <2>2. CASE lock = Nothing /\ lock' = "archiver" /\ archiver' = [archiver EXCEPT !.at = "copy", !.rows = rows]
    <3>1. archiver'.rows = rows
      BY <1>1, <1>10, <2>2 DEF ArchiverLocks, Archiver, Archivers
    <3> QED
      BY <1>1, <1>2, <1>10, <2>2, <3>1 DEF ArchiverLocks, Archiver, retained
  <2> QED
    BY <1>10, <2>1, <2>2 DEF ArchiverLocks, Exclusive
<1>11. CASE ArchiverCopies
  <2>1. /\ archiver'.at = "start" /\ lock' = Freed("archiver") /\ UNCHANGED retained
        /\ tars' = tars \union {[rows |-> archiver.rows, files |-> files]} /\ archiver.rows \subseteq files
    BY <1>1, <1>11 DEF ArchiverCopies, Archiver, Archivers
  <2> QED
    BY <1>1, <2>1 DEF Freed, Archiver, retained
<1>12. CASE KillChore
  BY <1>1, <1>2, <1>12 DEF KillChore, Freed, Archiver
<1>13. CASE Reboot
  BY <1>1, <1>13 DEF Reboot, Archiver
<1> QED
  BY <1>3, <1>4, <1>5, <1>6, <1>7, <1>8, <1>9, <1>10, <1>11, <1>12, <1>13, ItemsCases DEF ItemsNext

-----------------------------------------------------------------------------
(* Types *)

\* The migration.
Migrates == \E p \in Starters : SnapshotStarts(p) \/ SnapshotEnds(p) \/ Commits(p)

\* The steps that change what the migration decides on.
LEMMA MigrationCases ==
    ASSUME Next
    PROVE  \/ UNCHANGED <<db, oldCopy, snapshot, partial, original>>
           \/ Migrates /\ UNCHANGED <<config, retained, original, hostVars>>
<1> USE DEF schema, history, retained
<1>1. CASE DatabaseNext /\ UNCHANGED hostVars
  <2>1. ASSUME NEW p \in Starters, Guards(p) \/ StartFails(p)
        PROVE  UNCHANGED <<db, oldCopy, snapshot, partial, original>>
    BY <2>1 DEF Guards, StartFails
  <2>2. ASSUME NEW p \in Starters, SnapshotStarts(p) \/ SnapshotEnds(p) \/ Commits(p)
        PROVE  Migrates /\ UNCHANGED <<config, retained, original, hostVars>>
    BY <1>1, <2>2 DEF Migrates, SnapshotStarts, SnapshotEnds, Commits
  <2>3. CASE Serves \/ Provisions \/ Archives \/ Purges \/ RetentionEnds
    BY <2>3 DEF Serves, Provisions, Archives, Purges, RetentionEnds, Maintains
  <2>4. ASSUME NEW i \in Items, Saves(i) \/ Records(i) \/ Unlinks(i)
        PROVE  UNCHANGED <<db, oldCopy, snapshot, partial, original>>
    BY <2>4 DEF Saves, Records, Unlinks, Maintains
  <2> QED
    BY <1>1, <2>1, <2>2, <2>3, <2>4 DEF DatabaseNext
<1>2. CASE Launches \/ ArchiverStarts \/ ArchiverLocks \/ ArchiverCopies \/ Retention \/ KillInstall \/ KillChore \/ Reboot
  BY <1>2 DEF Launches, ArchiverStarts, ArchiverLocks, ArchiverCopies, Retention, RetentionStarts, KillInstall,
              KillChore, Reboot
<1>3. CASE ArchiverEnds \/ InstallStarts \/ Downloads \/ Stages \/ Switches \/ Healthy \/ Raises \/ UndoEnds
  BY <1>3 DEF ArchiverEnds, InstallStarts, Downloads, Stages, Switches, Healthy, Raises, UndoEnds, dataVars
<1>4. CASE Stops \/ Configures \/ Writes \/ Bootstraps \/ Bootstrapped \/ Units \/ Enables
  BY <1>4 DEF Stops, Configures, Writes, Bootstraps, Bootstrapped, Units, Enables, Deploys
<1>5. CASE UndoesService \/ UndoesConfig \/ UndoesUnit \/ UndoesLink
  BY <1>5 DEF UndoesService, UndoesConfig, UndoesUnit, UndoesLink, Deploys
<1>6. CASE \E p \in Starters : KillStart(p)
  BY <1>6 DEF KillStart
<1> QED
  BY <1>1, <1>2, <1>3, <1>4, <1>5, <1>6 DEF Next

\* The configuration is only written by the installer.
Configuring == Configures \/ Writes \/ UndoesConfig

\* The steps that write the configuration file.
LEMMA ConfigCases ==
    ASSUME Next
    PROVE  UNCHANGED config \/ Configuring
<1> USE DEF schema
<1>1. CASE DatabaseNext /\ UNCHANGED hostVars
  <2>1. ASSUME NEW p \in Starters,
               Guards(p) \/ StartFails(p) \/ SnapshotStarts(p) \/ SnapshotEnds(p) \/ Commits(p)
        PROVE  UNCHANGED config
    BY <2>1 DEF Guards, StartFails, SnapshotStarts, SnapshotEnds, Commits
  <2>2. CASE Serves \/ Provisions \/ Archives \/ Purges \/ RetentionEnds
    BY <2>2 DEF Serves, Provisions, Archives, Purges, RetentionEnds, Maintains
  <2>3. ASSUME NEW i \in Items, Saves(i) \/ Records(i) \/ Unlinks(i)
        PROVE  UNCHANGED config
    BY <2>3 DEF Saves, Records, Unlinks, Maintains
  <2> QED
    BY <1>1, <2>1, <2>2, <2>3 DEF DatabaseNext
<1>2. CASE Launches \/ ArchiverStarts \/ ArchiverLocks \/ ArchiverCopies \/ Retention \/ KillInstall \/ KillChore \/ Reboot
  BY <1>2 DEF Launches, ArchiverStarts, ArchiverLocks, ArchiverCopies, Retention, RetentionStarts, KillInstall,
              KillChore, Reboot
<1>3. CASE ArchiverEnds \/ InstallStarts \/ Downloads \/ Stages \/ Switches \/ Healthy \/ Raises \/ UndoEnds
  BY <1>3 DEF ArchiverEnds, InstallStarts, Downloads, Stages, Switches, Healthy, Raises, UndoEnds, dataVars
<1>4. CASE Stops \/ Bootstraps \/ Bootstrapped \/ Units \/ Enables \/ UndoesService \/ UndoesUnit \/ UndoesLink
  BY <1>4 DEF Stops, Bootstraps, Bootstrapped, Units, Enables, UndoesService, UndoesUnit, UndoesLink
<1>5. CASE \E p \in Starters : KillStart(p)
  BY <1>5 DEF KillStart
<1> QED
  BY <1>1, <1>2, <1>3, <1>4, <1>5 DEF Next, Configuring

\* A process at a step of the migration, and its place in the order.
LEMMA AtStep ==
    ASSUME IInv, NEW p \in Starters, boot[p] # Nothing, boot[p].at \in Steps
    PROVE  /\ boot[p] \in Processes /\ boot[p].key \in Keys /\ boot[p].key = config.key
           /\ boot[p].upgrading \in BOOLEAN /\ lock = p
           /\ \E i \in 1..13 : boot[p].at = Order[i] /\ Position(boot[p].at) = i /\ StepOK(p, i)
<1>1. boot[p] \in Processes
  BY DEF IInv, TypesOK, DataTypes
<1>2. boot[p].key \in Keys /\ boot[p].key = config.key
  BY DEF IInv, KeyOK, Steps
<1>3. lock = p
  BY DEF IInv, LockOK, At
<1>4. PICK i \in 1..13 : Order[i] = boot[p].at
  BY OrderOfStep
<1>5. Position(boot[p].at) = i
  BY <1>4, PositionOf
<1>6. StepOK(p, i)
  BY <1>4 DEF IInv, MigrationOK, PlacesOK, At
<1> QED
  BY <1>1, <1>2, <1>3, <1>4, <1>5, <1>6 DEF Processes

\* The variables of Database keep their types.
LEMMA DataTypesStep ==
    ASSUME IInv, Next
    PROVE  DataTypes'
<1>1. DataTypes /\ boot' \in [Starters -> Processes \union {Nothing}] /\ lock' \in Holders \union {Nothing}
  BY BootStep DEF IInv, TypesOK, BootTypes
<1>2. config' \in Configurations
  <2>1. install # Nothing => install \in Installs
    BY DEF IInv, TypesOK, HostTypes
  <2>2. CASE UNCHANGED config
    BY <1>1, <2>2 DEF DataTypes
  <2>3. CASE Configures
    BY <1>1, <2>3 DEF Configures, DataTypes, Configurations
  <2>4. CASE Writes
    <3>1. Release \in Nat
      BY DEF IInv, TypesOK, HostTypes, Release
    <3> QED
      BY <1>1, <2>4, <3>1 DEF Writes, DataTypes, Configurations
  <2>5. CASE UndoesConfig
    BY <1>1, <2>1, <2>5 DEF UndoesConfig, Restored, Deploys, Installer, DataTypes, Installs
  <2> QED
    BY <2>2, <2>3, <2>4, <2>5, ConfigCases DEF Configuring
<1>3. db' \in Databases /\ oldCopy' \in BOOLEAN /\ partial' \subseteq Snapshots
      /\ snapshot' \in [Snapshots -> Copies \union {Nothing}]
  <2>1. CASE UNCHANGED <<db, oldCopy, snapshot, partial, original>>
    BY <1>1, <2>1 DEF DataTypes
  <2>2. ASSUME NEW p \in Starters, SnapshotStarts(p)
        PROVE  /\ db' \in Databases /\ oldCopy' \in BOOLEAN /\ partial' \subseteq Snapshots
               /\ snapshot' \in [Snapshots -> Copies \union {Nothing}]
    BY <1>1, <2>2 DEF SnapshotStarts, DataTypes, At
  <2>3. ASSUME NEW p \in Starters, SnapshotEnds(p)
        PROVE  /\ db' \in Databases /\ oldCopy' \in BOOLEAN /\ partial' \subseteq Snapshots
               /\ snapshot' \in [Snapshots -> Copies \union {Nothing}]
    <3>1. boot[p] # Nothing /\ boot[p].at \in Snapshots /\ boot[p].at \in Steps
      BY <2>3 DEF SnapshotEnds, At, Snapshots, Steps
    <3> DEFINE copy == [of |-> IF boot[p].at = "before-v1" THEN Nothing ELSE db, key |-> boot[p].key]
    <3>2. copy \in Copies
      BY <1>1, <3>1, AtStep DEF Copies, DataTypes
    <3>3. /\ snapshot' = [snapshot EXCEPT ![boot[p].at] = copy] /\ partial' = partial \ {boot[p].at}
          /\ UNCHANGED <<db, oldCopy>>
      BY <2>3 DEF SnapshotEnds
    <3> HIDE DEF copy
    <3> QED
      BY <1>1, <3>1, <3>2, <3>3 DEF DataTypes
  <2>4. ASSUME NEW p \in Starters, Commits(p)
        PROVE  /\ db' \in Databases /\ oldCopy' \in BOOLEAN /\ partial' \subseteq Snapshots
               /\ snapshot' \in [Snapshots -> Copies \union {Nothing}]
    <3>1. /\ boot[p] # Nothing /\ boot[p].at \in Steps \ Snapshots /\ db' = Done(boot[p].at, boot[p].key)
          /\ oldCopy' \in BOOLEAN /\ UNCHANGED <<snapshot, partial>>
      BY <2>4, RangeOfOrder DEF Commits
    <3>2. db' \in Databases
      BY <1>1, <3>1, AtStep, DoneFacts DEF DataTypes
    <3> QED
      BY <1>1, <3>1, <3>2 DEF DataTypes
  <2> QED
    BY <2>1, <2>2, <2>3, <2>4, MigrationCases DEF Migrates
<1>4. /\ files' \subseteq Items /\ rows' \subseteq Items /\ archives' \subseteq Items /\ stored' \subseteq Items
      /\ maintenance' \in Maintenances \union {Nothing}
  <2> DEFINE Kinds == /\ files' \subseteq Items /\ rows' \subseteq Items /\ archives' \subseteq Items /\ stored' \subseteq Items
                      /\ maintenance' \in Maintenances \union {Nothing}
  <2>1. CASE Aside
    BY <1>1, <2>1 DEF Aside, DataTypes
  <2>2. ASSUME NEW i \in Items, Saves(i) \/ Records(i)
        PROVE  Kinds
    BY <1>1, <2>2 DEF Saves, Records, DataTypes
  <2>3. ASSUME NEW i \in Items, Unlinks(i)
        PROVE  Kinds
    BY <1>1, <2>3 DEF Unlinks, Maintains, DataTypes, Maintenances
  <2>4. CASE Archives \/ Purges
    BY <1>1, <2>4 DEF Archives, Purges, Maintains, DataTypes, Maintenances
  <2>5. CASE RetentionEnds \/ KillChore \/ Reboot
    BY <1>1, <2>5 DEF RetentionEnds, KillChore, Reboot, DataTypes
  <2>6. CASE Retention
    BY <1>1, <2>6 DEF Retention, RetentionStarts, DataTypes, Maintenances
  <2>7. CASE ArchiverStarts \/ ArchiverLocks \/ ArchiverCopies
    BY <1>1, <2>7 DEF ArchiverStarts, ArchiverLocks, ArchiverCopies, retained, DataTypes
  <2> QED
    BY <2>1, <2>2, <2>3, <2>4, <2>5, <2>6, <2>7, ItemsCases DEF ItemsNext
<1> QED
  BY <1>1, <1>2, <1>3, <1>4 DEF DataTypes

-----------------------------------------------------------------------------
(* The installer *)

\* Who is not the installer leaves its record and the deployment alone.
Idle == UNCHANGED <<install, config, current, unit, enabled, whole, installs>>
Gone == install' = Nothing /\ UNCHANGED <<config, current, unit, enabled, whole, installs>>
Working ==
    \/ ArchiverStarts \/ InstallStarts \/ Downloads \/ Stages \/ Stops \/ Configures \/ Writes \/ Bootstraps
    \/ Bootstrapped \/ Switches \/ Units \/ Enables \/ Raises
    \/ UndoesService \/ UndoesConfig \/ UndoesUnit \/ UndoesLink

\* What a step does to the installer: nothing, ends it, or is a step of its own.
LEMMA InstallCases ==
    ASSUME Next
    PROVE  \/ Idle /\ UNCHANGED wanted
           \/ Idle /\ (ArchiverEnds \/ Retention \/ (\E p \in Starters : KillStart(p)) \/ KillChore)
           \/ Gone
           \/ Working
<1>1. UNCHANGED config \/ Configuring
  BY ConfigCases
<1>2. CASE DatabaseNext /\ UNCHANGED hostVars
  <2>1. ~Configuring \/ Working
    BY DEF Configuring, Working
  <2> QED
    BY <1>1, <1>2, <2>1 DEF Idle, hostVars
<1>3. CASE Launches
  BY <1>3 DEF Launches, Idle, hostVars
<1>4. CASE ArchiverLocks \/ ArchiverCopies \/ ArchiverEnds \/ Retention \/ KillChore
  BY <1>4 DEF ArchiverLocks, ArchiverCopies, ArchiverEnds, Retention, RetentionStarts, KillChore, Idle, schema, deployed,
              systemd, counters, dataVars
<1>5. CASE \E p \in Starters : KillStart(p)
  BY <1>5 DEF KillStart, Idle, deployed, systemd
<1>6. CASE Healthy \/ UndoEnds \/ KillInstall \/ Reboot
  BY <1>6 DEF Healthy, UndoEnds, KillInstall, Reboot, Gone, dataVars, deployed, systemd, counters
<1> QED
  BY <1>2, <1>3, <1>4, <1>5, <1>6 DEF Next, Working

\* Its place changes, what it remembers does not.
LEMMA PlaceMoves ==
    ASSUME install \in Installs, NEW place \in Places, install' = [install EXCEPT !.at = place]
    PROVE  /\ install' \in Installs /\ install'.at = place
           /\ install'.enabled = install.enabled /\ install'.previous = install.previous
           /\ install'.config = install.config /\ install'.unit = install.unit
           /\ install'.switched = install.switched /\ install'.alone = install.alone
           /\ install'.active = install.active
BY DEF Installs

\* The variables of Host keep their types.
LEMMA HostTypesStep ==
    ASSUME IInv, Next
    PROVE  HostTypes'
<1>1. HostTypes /\ DataTypes /\ whole \subseteq Nat /\ current \in Nat /\ unit \in Nat
  <2>1. HostTypes /\ DataTypes /\ installs \in Nat
    BY DEF IInv, TypesOK, HostTypes
  <2>2. 1..(installs + 1) \subseteq Nat
    BY <2>1
  <2> QED
    BY <2>1, <2>2 DEF IInv, ReleaseOK
<1>2. archiver' \in Archivers \union {Nothing} /\ tars' \subseteq [rows : SUBSET Items, files : SUBSET Items]
  <2>1. CASE Aside
    BY <1>1, <2>1 DEF Aside, HostTypes
  <2>2. CASE UNCHANGED <<archiver, tars>>
    BY <1>1, <2>2 DEF HostTypes
  <2>3. CASE Retention
    BY <1>1, <2>3 DEF Retention, HostTypes
  <2>4. CASE ArchiverStarts
    BY <1>1, <2>4 DEF ArchiverStarts, HostTypes, Archivers, Alive
  <2>5. CASE ArchiverLocks
    <3>1. archiver \in Archivers /\ rows \in SUBSET Items
      BY <1>1, <2>5 DEF ArchiverLocks, Archiver, HostTypes, DataTypes
    <3>2. /\ [archiver EXCEPT !.at = "copy", !.rows = rows] \in Archivers
          /\ [archiver EXCEPT !.at = "start"] \in Archivers
      BY <3>1 DEF Archivers
    <3> QED
      BY <1>1, <2>5, <3>2 DEF ArchiverLocks, HostTypes
  <2>6. CASE ArchiverCopies
    <3>1. archiver \in Archivers
      BY <1>1, <2>6 DEF ArchiverCopies, Archiver, HostTypes
    <3>2. [rows |-> archiver.rows, files |-> files] \in [rows : SUBSET Items, files : SUBSET Items]
      BY <1>1, <3>1 DEF DataTypes, Archivers
    <3>3. archiver' \in Archivers
      BY <2>6, <3>1 DEF ArchiverCopies, Archivers
    <3> QED
      BY <1>1, <2>6, <3>2, <3>3 DEF ArchiverCopies, HostTypes
  <2>7. CASE KillChore \/ Reboot
    BY <1>1, <2>7 DEF KillChore, Reboot, HostTypes
  <2> QED
    BY <2>1, <2>2, <2>3, <2>4, <2>5, <2>6, <2>7, ItemsCases DEF ItemsNext, hostVars
<1>3. enabled' \in BOOLEAN /\ wanted' \in BOOLEAN /\ installs' \in Nat /\ kills' \in Nat /\ chores' \in Nat
  <2> USE DEF HostTypes
  <2>1. CASE UNCHANGED hostVars
    BY <1>1, <2>1 DEF hostVars
  <2>2. CASE ArchiverStarts \/ ArchiverLocks \/ ArchiverCopies \/ ArchiverEnds \/ Retention
    <3>1. archiver # Nothing => archiver.active \in BOOLEAN
      BY <1>1 DEF Archivers
    <3>2. CASE ArchiverStarts
      BY <1>1, <3>2 DEF ArchiverStarts, Chore
    <3>3. CASE ArchiverEnds
      BY <1>1, <3>1, <3>3 DEF ArchiverEnds, Archiver, counters
    <3>4. CASE ArchiverLocks \/ ArchiverCopies
      BY <1>1, <3>4 DEF ArchiverLocks, ArchiverCopies, systemd, counters
    <3>5. CASE Retention
      BY <1>1, <3>5 DEF Retention, Chore, systemd
    <3> QED
      BY <2>2, <3>2, <3>3, <3>4, <3>5
  <2>3. CASE InstallStarts \/ Downloads \/ Stages \/ Switches \/ Healthy \/ Raises
    BY <1>1, <2>3 DEF InstallStarts, Downloads, Stages, Switches, Healthy, Raises, deployed, systemd, counters
  <2>4. CASE UndoEnds
    <3>1. install.active \in BOOLEAN
      BY <1>1, <2>4 DEF UndoEnds, Installer, Installs
    <3> QED
      BY <1>1, <2>4, <3>1 DEF UndoEnds, deployed, systemd, counters
  <2>5. CASE Stops \/ Configures \/ Writes \/ Bootstraps \/ Bootstrapped \/ Units \/ Enables
    BY <1>1, <2>5 DEF Stops, Configures, Writes, Bootstraps, Bootstrapped, Units, Enables, Deploys, deployed, systemd, counters
  <2>6. CASE UndoesService
    <3>1. install.enabled \in BOOLEAN
      BY <1>1, <2>6 DEF UndoesService, Deploys, Installer, Installs
    <3> QED
      BY <1>1, <2>6, <3>1 DEF UndoesService, Deploys, deployed, systemd, counters
  <2>7. CASE UndoesConfig \/ UndoesUnit \/ UndoesLink
    BY <1>1, <2>7 DEF UndoesConfig, UndoesUnit, UndoesLink, Deploys, deployed, systemd, counters
  <2>8. CASE (\E p \in Starters : KillStart(p)) \/ KillInstall \/ KillChore \/ Reboot
    BY <1>1, <2>8 DEF KillStart, KillInstall, KillChore, Reboot, Kill, deployed, systemd, counters
  <2>9. CASE Launches
    BY <2>1, <2>9 DEF Launches
  <2> QED
    BY <2>1, <2>2, <2>3, <2>4, <2>5, <2>6, <2>7, <2>8, <2>9 DEF Next
<1>4. install' \in Installs \union {Nothing}
  <2>1. install \in Installs \union {Nothing}
    BY <1>1 DEF HostTypes
  <2>2. CASE Idle \/ Gone
    BY <2>1, <2>2 DEF Idle, Gone
  <2>3. ASSUME install # Nothing, NEW place \in Places, install' = [install EXCEPT !.at = place]
        PROVE  install' \in Installs
    BY <2>1, <2>3 DEF Installs
  <2>4. CASE ArchiverStarts
    BY <2>1, <2>4 DEF ArchiverStarts, Installs
  <2>5. CASE InstallStarts
    BY <1>1, <2>5 DEF InstallStarts, Installs, HostTypes, DataTypes, Places, Alive
  <2>6. CASE Downloads
    <3>1. install \in Installs
      BY <2>1, <2>6 DEF Downloads, Installer
    <3>2. install.attempt + 1 \in Nat
      BY <3>1 DEF Installs
    <3>3. [install EXCEPT !.attempt = install.attempt + 1] \in Installs
      BY <3>1, <3>2 DEF Installs
    <3>4. [install EXCEPT !.at = "verify"] \in Installs
      BY <3>1 DEF Installs, Places
    <3> QED
      BY <2>6, <3>3, <3>4 DEF Downloads
  <2>7. CASE Stages
    BY <1>1, <2>1, <2>7 DEF Stages, Installer, Installs, Places, Deploying, DataTypes
  <2>8. CASE Stops \/ Configures \/ Writes \/ Bootstraps \/ Bootstrapped \/ Units \/ Enables
    BY <2>3, <2>8 DEF Stops, Configures, Writes, Bootstraps, Bootstrapped, Units, Enables, Deploys, Installer, Places, Deploying
  <2>9. CASE Raises \/ UndoesService \/ UndoesConfig \/ UndoesUnit \/ UndoesLink
    BY <2>3, <2>9 DEF Raises, UndoesService, UndoesConfig, UndoesUnit, UndoesLink, Deploys, Installer, Places
  <2>10. CASE Switches
    BY <2>1, <2>10 DEF Switches, Installer, Installs, Places, Deploying
  <2> QED
    BY <2>2, <2>4, <2>5, <2>6, <2>7, <2>8, <2>9, <2>10, InstallCases DEF Working
<1> QED
  BY <1>2, <1>3, <1>4 DEF HostTypes

-----------------------------------------------------------------------------
(* The key *)

\* Only a configuration without a key, or with a torn one, gets another.
LEMMA KeyChange ==
    ASSUME IInv, Next
    PROVE  \/ config'.key = config.key
           \/ Installer("configure") /\ config.key = NoKey /\ config'.key = Torn
           \/ Installer("generate") /\ config.key = Torn
<1>1. config \in Configurations /\ (install # Nothing => install \in Installs)
  BY DEF IInv, TypesOK, DataTypes, HostTypes
<1>2. CASE UNCHANGED config
  BY <1>2
<1>3. CASE Configures
  BY <1>1, <1>3 DEF Configures, Deploys, Configurations, IInv, KeyOK
<1>4. CASE Writes
  BY <1>1, <1>4 DEF Writes, Configurations
<1>5. CASE UndoesConfig
  BY <1>1, <1>5 DEF UndoesConfig, Restored, Deploys, Installer, IInv, KeyOK
<1> QED
  BY <1>2, <1>3, <1>4, <1>5, ConfigCases DEF Configuring

\* A valid key is never replaced.
LEMMA KeyKept ==
    ASSUME IInv, Next, config.key \in Keys
    PROVE  config'.key = config.key
BY KeyChange, DatabaseAssumption

LEMMA OriginalStays ==
    ASSUME Next
    PROVE  original' = original
BY MigrationCases

\* The installer generates a key only where it found none, and remembers the key there is.
LEMMA InstallKeyStep ==
    ASSUME IInv, Next
    PROVE  /\ Installer("generate")' => config'.key = Torn /\ install'.config.key = NoKey
           /\ install' # Nothing /\ install'.config.key # NoKey => config'.key = install'.config.key
<1> DEFINE Remembers ==
        /\ Installer("generate") => config.key = Torn /\ install.config.key = NoKey
        /\ install # Nothing /\ install.config.key # NoKey => config.key = install.config.key
<1> SUFFICES Remembers'
  OBVIOUS
<1>1. Remembers /\ (install # Nothing => install \in Installs) /\ config \in Configurations
  BY DEF IInv, KeyOK, TypesOK, HostTypes, DataTypes
<1> USE DEF Installer
<1>2. ASSUME install # Nothing, NEW place \in Places \ {"generate"}, install' = [install EXCEPT !.at = place],
             UNCHANGED config
      PROVE  Remembers'
  BY <1>1, <1>2, PlaceMoves
<1>3. CASE Idle
  BY <1>1, <1>3 DEF Idle
<1>4. CASE Gone
  BY <1>4 DEF Gone
<1>5. CASE ArchiverStarts
  BY <1>1, <1>5 DEF ArchiverStarts, Installs
<1>6. CASE InstallStarts
  BY <1>6 DEF InstallStarts, dataVars
<1>7. CASE Downloads
  BY <1>1, <1>7 DEF Downloads, dataVars, Installs
<1>8. CASE Stages
  BY <1>1, <1>8 DEF Stages, dataVars, Installs
<1>9. CASE Stops \/ Bootstraps \/ Bootstrapped \/ Units \/ Enables
  BY <1>2, <1>9 DEF Stops, Bootstraps, Bootstrapped, Units, Enables, Deploys, Places, Deploying
<1>10. CASE Raises \/ UndoesService \/ UndoesUnit \/ UndoesLink
  BY <1>2, <1>10 DEF Raises, UndoesService, UndoesUnit, UndoesLink, Deploys, Places, dataVars
<1>11. CASE Switches
  BY <1>1, <1>11 DEF Switches, dataVars, Installs
<1>12. CASE Configures
  <2>1. PICK place \in {"generate", "write"} : install' = [install EXCEPT !.at = place] /\ install # Nothing
    BY <1>12 DEF Configures, Deploys
  <2>2. install'.at = place /\ install'.config = install.config
    BY <1>1, <2>1, PlaceMoves DEF Places, Deploying
  <2>3. CASE Deploys("configure", "generate") /\ config.key = NoKey /\ config' = [config EXCEPT !.key = Torn]
    <3>1. config'.key = Torn
      BY <1>1, <2>3 DEF Configurations
    <3>2. install.config.key = NoKey
      BY <1>1, <2>1, <2>3
    <3> QED
      BY <2>2, <3>1, <3>2
  <2>4. CASE Deploys("generate", "write")
    <3>1. install.at = "generate" /\ install' = [install EXCEPT !.at = "write"]
      BY <2>4 DEF Deploys
    <3>2. install'.at = "write"
      BY <1>1, <2>1, <3>1 DEF Installs
    <3> QED
      BY <1>1, <2>1, <2>2, <3>1, <3>2
  <2>5. CASE Deploys("configure", "write") /\ UNCHANGED config
    BY <1>2, <2>1, <2>5 DEF Deploys, Places, Deploying
  <2> QED
    BY <1>12, <2>3, <2>4, <2>5 DEF Configures
<1>13. CASE Writes
  <2>1. install # Nothing /\ install' = [install EXCEPT !.at = "check"] /\ config'.key = config.key
    BY <1>1, <1>13 DEF Writes, Deploys, Configurations
  <2>2. install'.at = "check" /\ install'.config = install.config
    BY <1>1, <2>1, PlaceMoves DEF Places, Deploying
  <2> QED
    BY <1>1, <2>1, <2>2
<1>14. CASE UndoesConfig
  <2>1. install # Nothing /\ install' = [install EXCEPT !.at = "undo unit"] /\ config' = Restored
    BY <1>14 DEF UndoesConfig, Deploys
  <2>2. install'.at = "undo unit" /\ install'.config = install.config
    BY <1>1, <2>1, PlaceMoves DEF Places
  <2> QED
    BY <1>1, <2>1, <2>2 DEF Restored
<1> QED
  BY <1>3, <1>4, <1>5, <1>6, <1>7, <1>8, <1>9, <1>10, <1>11, <1>12, <1>13, <1>14, InstallCases DEF Working

\* What processes and installer know of the key stays true.
LEMMA KeyStep ==
    ASSUME IInv, Next
    PROVE  KeyOK'
<1>1. KeyOK /\ original' = original
  BY OriginalStays DEF IInv
<1>2. ASSUME NEW p \in Starters, boot'[p] # Nothing
      PROVE  /\ boot'[p].key \in Keys => config'.key = boot'[p].key
             /\ boot'[p].at # "guard" => boot'[p].key \in Keys
  <2>1. CASE Ended(p)
    BY <1>1, <1>2, <2>1, KeyKept DEF KeyOK, Ended
  <2>2. CASE Advanced(p)
    BY <1>1, <2>2, KeyKept DEF KeyOK, Advanced
  <2>3. CASE boot'[p].at = "guard" /\ boot'[p].key = config.key /\ UNCHANGED config
    BY <2>3
  <2> QED
    BY <2>1, <2>2, <2>3, BootStep DEF Moved, Fresh
<1>3. original.columns # "none" => config'.key \in Keys
  BY <1>1, KeyKept DEF KeyOK
<1>4. db'.key \in {NoKey, config'.key}
  <2>1. db.key \in {NoKey, config.key} /\ db.key \in Keys \union {NoKey} /\ db \in Databases
    BY <1>1 DEF KeyOK, IInv, TypesOK, DataTypes, Databases
  <2>2. db.key \in {NoKey, config'.key}
    BY <2>1, KeyKept
  <2>3. CASE db' = db
    BY <2>2, <2>3
  <2>4. ASSUME NEW p \in Starters, Commits(p)
        PROVE  db'.key \in {NoKey, config'.key}
    <3>1. /\ boot[p] # Nothing /\ boot[p].at \in Steps \ Snapshots /\ db' = Done(boot[p].at, boot[p].key)
      BY <2>4, RangeOfOrder DEF Commits
    <3>2. boot[p].key \in Keys /\ boot[p].key = config.key
      BY <3>1, AtStep
    <3>3. db'.key \in {boot[p].key, db.key}
      BY <2>1, <3>1, <3>2, DoneFacts
    <3> QED
      BY <2>2, <3>2, <3>3, KeyKept
  <2>5. ASSUME NEW p \in Starters, SnapshotStarts(p) \/ SnapshotEnds(p)
        PROVE  db' = db
    BY <2>5 DEF SnapshotStarts, SnapshotEnds
  <2> QED
    BY <2>3, <2>4, <2>5, MigrationCases DEF Migrates
<1> QED
  BY <1>1, <1>2, <1>3, <1>4, InstallKeyStep DEF KeyOK

-----------------------------------------------------------------------------
(* Releases *)

\* A release that is whole stays so; the next one may be added.
LEMMA WholeGrows ==
    ASSUME Next
    PROVE  /\ whole' = whole \/ whole' = whole \union {Release}
           /\ installs' = installs \/ (InstallStarts /\ installs' = installs + 1 /\ whole' = whole)
           /\ whole' # whole => Stages
<1>1. CASE Idle \/ Gone
  BY <1>1 DEF Idle, Gone
<1>2. CASE ArchiverStarts \/ InstallStarts \/ Downloads \/ Stages \/ Switches \/ Raises
  BY <1>2 DEF ArchiverStarts, InstallStarts, Downloads, Stages, Verified, Switches, Raises, counters
<1>3. CASE Stops \/ Configures \/ Writes \/ Bootstraps \/ Bootstrapped \/ Units \/ Enables
  BY <1>3 DEF Stops, Configures, Writes, Bootstraps, Bootstrapped, Units, Enables, Deploys, counters
<1>4. CASE UndoesService \/ UndoesConfig \/ UndoesUnit \/ UndoesLink
  BY <1>4 DEF UndoesService, UndoesConfig, UndoesUnit, UndoesLink, Deploys, counters
<1> QED
  BY <1>1, <1>2, <1>3, <1>4, InstallCases DEF Working

\* Link, unit and processes stay with whole releases.
LEMMA ReleaseStep ==
    ASSUME IInv, Next
    PROVE  ReleaseOK'
<1>1. ReleaseOK /\ DeployedOK /\ installs \in Nat /\ kills \in Nat /\ chores \in Nat
  BY DEF IInv, TypesOK, HostTypes, InstallOK
<1>2. whole' \subseteq 1..(installs' + 1) /\ whole \subseteq whole'
  <2>1. Release \in 1..(installs + 1) /\ whole \subseteq 1..(installs + 1) /\ 1..(installs + 1) \subseteq 1..(installs + 2)
    BY <1>1 DEF Release, ReleaseOK
  <2>2. whole' \subseteq 1..(installs + 1) /\ whole \subseteq whole'
    BY <2>1, WholeGrows
  <2>3. installs' = installs \/ installs' + 1 = installs + 2
    BY <1>1, WholeGrows
  <2> QED
    BY <2>1, <2>2, <2>3
<1>3. current' \in whole' \union {0} /\ unit' \in whole' \union {0}
  <2>1. current \in whole' \union {0} /\ unit \in whole' \union {0}
    BY <1>1, <1>2 DEF ReleaseOK
  <2>2. CASE UNCHANGED <<current, unit>>
    BY <2>1, <2>2
  <2>3. CASE Switches
    BY <1>1, <1>2, <2>1, <2>3 DEF Switches, Installer, DeployedOK, Deploying
  <2>4. CASE Units
    BY <1>1, <1>2, <2>1, <2>4 DEF Units, Deploys, Installer, DeployedOK, Deploying
  <2>5. CASE UndoesUnit
    BY <1>1, <1>2, <2>1, <2>5 DEF UndoesUnit, Deploys, Installer, DeployedOK
  <2>6. CASE UndoesLink
    BY <1>1, <1>2, <2>1, <2>6 DEF UndoesLink, Relinked, Deploys, Installer, DeployedOK
  <2>7. CASE Idle \/ Gone
    BY <2>2, <2>7 DEF Idle, Gone
  <2>8. CASE ArchiverStarts \/ InstallStarts \/ Downloads \/ Stages \/ Raises
    BY <2>2, <2>8 DEF ArchiverStarts, InstallStarts, Downloads, Stages, Raises, deployed
  <2>9. CASE Stops \/ Configures \/ Writes \/ Bootstraps \/ Bootstrapped \/ Enables \/ UndoesService \/ UndoesConfig
    BY <2>2, <2>9 DEF Stops, Configures, Writes, Bootstraps, Bootstrapped, Enables, UndoesService, UndoesConfig, deployed
  <2> QED
    BY <2>3, <2>4, <2>5, <2>6, <2>7, <2>8, <2>9, InstallCases DEF Working
<1>4. ASSUME NEW p \in Starters, boot'[p] # Nothing
      PROVE  boot'[p].release \in whole'
  <2>1. CASE Ended(p) \/ Advanced(p)
    BY <1>1, <1>2, <1>4, <2>1 DEF Ended, Advanced, ReleaseOK
  <2>2. CASE current # 0 /\ Fresh(p, current)
    BY <1>1, <1>2, <2>2 DEF Fresh, ReleaseOK
  <2>3. CASE Installer("check") /\ Fresh(p, Release)
    BY <1>1, <1>2, <2>3 DEF Fresh, Installer, DeployedOK, Deploying
  <2> QED
    BY <2>1, <2>2, <2>3, BootStep DEF Moved
<1>5. installs' <= MaxInstalls /\ kills' <= MaxKills /\ installs' + chores' <= MaxCommands
  <2>1. {MaxInstalls, MaxKills, MaxCommands} \subseteq Nat
    BY HostAssumption
  <2> USE DEF ReleaseOK
  <2>2. CASE UNCHANGED <<installs, kills, chores>>
    BY <1>1, <2>2
  <2>3. CASE ArchiverStarts \/ Retention
    BY <1>1, <2>1, <2>3 DEF ArchiverStarts, Retention, Chore
  <2>4. CASE InstallStarts
    BY <1>1, <2>1, <2>4 DEF InstallStarts
  <2>5. CASE (\E p \in Starters : KillStart(p)) \/ KillInstall \/ KillChore \/ Reboot
    BY <1>1, <2>1, <2>5 DEF KillStart, KillInstall, KillChore, Reboot, Kill
  <2>6. CASE UNCHANGED hostVars
    BY <2>2, <2>6 DEF hostVars
  <2>7. CASE ArchiverLocks \/ ArchiverCopies \/ ArchiverEnds \/ Downloads \/ Stages \/ Switches \/ Healthy \/ Raises \/ UndoEnds
    BY <2>2, <2>7 DEF ArchiverLocks, ArchiverCopies, ArchiverEnds, Downloads, Stages, Switches, Healthy, Raises, UndoEnds,
                      counters
  <2>8. CASE Stops \/ Configures \/ Writes \/ Bootstraps \/ Bootstrapped \/ Units \/ Enables
    BY <2>2, <2>8 DEF Stops, Configures, Writes, Bootstraps, Bootstrapped, Units, Enables, Deploys, counters
  <2>9. CASE UndoesService \/ UndoesConfig \/ UndoesUnit \/ UndoesLink
    BY <2>2, <2>9 DEF UndoesService, UndoesConfig, UndoesUnit, UndoesLink, Deploys, counters
  <2>10. CASE Launches
    BY <2>6, <2>10 DEF Launches
  <2> QED
    BY <2>3, <2>4, <2>5, <2>6, <2>7, <2>8, <2>9, <2>10 DEF Next
<1> QED
  BY <1>2, <1>3, <1>4, <1>5 DEF ReleaseOK

-----------------------------------------------------------------------------
(* Deployments *)

\* What the installer remembers matches the deployment at each of its places.
LEMMA DeployedStep ==
    ASSUME IInv, Next
    PROVE  DeployedOK'
<1>1. /\ DeployedOK /\ ReleaseOK /\ installs \in Nat /\ install \in Installs \union {Nothing} /\ enabled \in BOOLEAN
      /\ config \in Configurations
      /\ install # Nothing /\ install.config.key # NoKey => config.key = install.config.key
  BY DEF IInv, InstallOK, TypesOK, HostTypes, DataTypes, KeyOK
<1>2. whole \subseteq whole'
  BY WholeGrows
<1>3. installs' = installs => Release' = Release
  BY DEF Release
<1>4. CASE Gone
  BY <1>4 DEF Gone, DeployedOK
<1>5. CASE Idle
  BY <1>1, <1>3, <1>5 DEF Idle, DeployedOK
<1>6. CASE ArchiverStarts
  <2>1. CASE install = Nothing
    BY <1>6, <2>1 DEF ArchiverStarts, DeployedOK
  <2>2. CASE install # Nothing
    <3>1. install' = [install EXCEPT !.alone = FALSE]
      BY <1>6, <2>2 DEF ArchiverStarts
    <3>2. /\ install'.at = install.at /\ install'.enabled = install.enabled /\ install'.previous = install.previous
          /\ install'.config = install.config /\ install'.unit = install.unit /\ install'.switched = install.switched
      BY <1>1, <2>2, <3>1 DEF Installs
    <3>3. UNCHANGED <<config, current, unit, enabled, whole, installs>>
      BY <1>6 DEF ArchiverStarts, deployed
    <3> QED
      BY <1>1, <1>3, <2>2, <3>2, <3>3 DEF DeployedOK
  <2> QED
    BY <2>1, <2>2
<1>7. CASE InstallStarts
  <2>1. /\ install'.at = "download" /\ install'.previous = current /\ install'.unit = unit
        /\ install'.enabled = enabled /\ install'.switched = FALSE /\ installs' = installs + 1
        /\ UNCHANGED <<current, unit, enabled, whole>>
    BY <1>7 DEF InstallStarts, deployed, systemd
  <2>2. current <= installs + 1
    BY <1>1 DEF ReleaseOK
  <2> QED
    BY <1>1, <2>1, <2>2 DEF DeployedOK, ReleaseOK, Deploying, Undoing
<1>8. CASE Downloads
  <2>1. UNCHANGED <<config, current, unit, enabled, whole, installs>> /\ install # Nothing /\ install.at = "download"
    BY <1>8 DEF Downloads, Installer, dataVars, deployed, systemd, counters
  <2>2. CASE install' = Nothing
    BY <2>2 DEF DeployedOK
  <2>3. CASE install' # Nothing
    <3>1. /\ install'.at \in {"download", "verify"} /\ install'.enabled = install.enabled
          /\ install'.previous = install.previous /\ install'.unit = install.unit
          /\ install'.switched = install.switched
      BY <1>1, <1>8, <2>1, <2>3 DEF Downloads, Installs
    <3> QED
      BY <1>1, <1>3, <2>1, <3>1 DEF DeployedOK, Deploying, Undoing
  <2> QED
    BY <2>2, <2>3
<1>9. CASE Stages
  <2>1. UNCHANGED <<config, current, unit, enabled, installs>> /\ install # Nothing /\ install.at = "verify"
    BY <1>9 DEF Stages, Installer, dataVars, deployed, systemd, counters
  <2>2. CASE install' = Nothing
    BY <2>2 DEF DeployedOK
  <2>3. CASE install' # Nothing
    <3>1. whole' = whole \union {Release} /\ install' = [install EXCEPT !.at = "stop", !.config = config, !.unit = unit]
      BY <1>9, <2>3 DEF Stages, Verified
    <3>2. /\ install'.at = "stop" /\ install'.enabled = install.enabled
          /\ install'.previous = install.previous /\ install'.unit = unit
          /\ install'.switched = install.switched
      BY <1>1, <2>1, <3>1 DEF Installs
    <3> QED
      BY <1>1, <1>3, <2>1, <3>1, <3>2 DEF DeployedOK, ReleaseOK, Deploying, Undoing
  <2> QED
    BY <2>2, <2>3
<1>10. ASSUME install # Nothing, NEW place \in Places, install' = [install EXCEPT !.at = place]
       PROVE  /\ install'.at = place /\ install'.enabled = install.enabled /\ install'.previous = install.previous
              /\ install'.config = install.config /\ install'.unit = install.unit /\ install'.switched = install.switched
  BY <1>1, <1>10, PlaceMoves
<1> DEFINE Before == {"stop", "configure", "generate", "write", "check", "bootstrap", "switch"}
<1>11. ASSUME install # Nothing, install.at \in Before, NEW place \in Before, install' = [install EXCEPT !.at = place],
              UNCHANGED <<current, unit, enabled, whole, installs>>
       PROVE  DeployedOK'
  <2>1. place \in Places
    BY DEF Places, Deploying
  <2> QED
    BY <1>1, <1>3, <1>10, <1>11, <2>1 DEF DeployedOK, Deploying, Undoing
<1>12. CASE Stops \/ Configures \/ Writes \/ Bootstraps \/ Bootstrapped
  BY <1>11, <1>12 DEF Stops, Configures, Writes, Bootstraps, Bootstrapped, Deploys, Installer, deployed, systemd, counters
<1>13. CASE Switches
  <2>1. /\ install # Nothing /\ install.at = "switch" /\ current' = Release
        /\ install' = [install EXCEPT !.at = "unit", !.switched = TRUE] /\ UNCHANGED <<unit, enabled, whole, installs>>
    BY <1>13 DEF Switches, Installer, systemd, counters
  <2>2. /\ install'.at = "unit" /\ install'.enabled = install.enabled /\ install'.previous = install.previous
        /\ install'.config = install.config /\ install'.unit = install.unit /\ install'.switched
    BY <1>1, <2>1 DEF Installs
  <2> QED
    BY <1>1, <1>3, <2>1, <2>2 DEF DeployedOK, Deploying, Undoing
<1>14. CASE Units
  <2>1. /\ install # Nothing /\ install.at = "unit" /\ install' = [install EXCEPT !.at = "enable"]
        /\ UNCHANGED <<current, enabled, whole, installs>>
    BY <1>14 DEF Units, Deploys, Installer, systemd, counters
  <2>2. "enable" \in Places
    BY DEF Places, Deploying
  <2> QED
    BY <1>1, <1>3, <1>10, <2>1, <2>2 DEF DeployedOK, Deploying, Undoing
<1>15. CASE Enables
  <2>1. /\ install # Nothing /\ install.at = "enable" /\ install' = [install EXCEPT !.at = "health"] /\ enabled'
        /\ UNCHANGED <<current, unit, whole, installs>>
    BY <1>15 DEF Enables, Deploys, Installer, deployed, counters
  <2>2. "health" \in Places
    BY DEF Places, Deploying
  <2> QED
    BY <1>1, <1>3, <1>10, <2>1, <2>2 DEF DeployedOK, Deploying, Undoing
<1>16. CASE Raises
  <2>1. /\ install # Nothing /\ install' = [install EXCEPT !.at = "undo"]
        /\ UNCHANGED <<config, current, unit, enabled, whole, installs>>
    BY <1>16 DEF Raises, dataVars, deployed, systemd, counters
  <2>2. "undo" \in Places
    BY DEF Places
  <2> QED
    BY <1>1, <1>3, <1>10, <2>1, <2>2 DEF DeployedOK, Deploying, Undoing
<1>17. CASE UndoesService
  <2>1. /\ install # Nothing /\ install.at = "undo" /\ install' = [install EXCEPT !.at = "undo config"]
        /\ enabled' = (IF install.switched THEN enabled /\ install.enabled ELSE enabled)
        /\ UNCHANGED <<current, unit, whole, installs>>
    BY <1>17 DEF UndoesService, Deploys, Installer, deployed, systemd, counters
  <2>2. "undo config" \in Places
    BY DEF Places
  <2>3. install.enabled \in BOOLEAN
    BY <1>1, <2>1 DEF Installs
  <2>4. enabled' = install.enabled
    BY <1>1, <2>1, <2>3 DEF DeployedOK
  <2> QED
    BY <1>1, <1>3, <1>10, <2>1, <2>2, <2>4 DEF DeployedOK, Deploying, Undoing
<1>18. CASE UndoesConfig
  <2>1. /\ install # Nothing /\ install.at = "undo config" /\ install' = [install EXCEPT !.at = "undo unit"]
        /\ config' = Restored /\ UNCHANGED <<current, unit, enabled, whole, installs>>
    BY <1>18 DEF UndoesConfig, Deploys, Installer, deployed, systemd, counters
  <2>2. "undo unit" \in Places
    BY DEF Places
  <2> QED
    BY <1>1, <1>3, <1>10, <2>1, <2>2 DEF DeployedOK, Deploying, Undoing, Restored
<1>19. CASE UndoesUnit
  <2>1. /\ install # Nothing /\ install.at = "undo unit" /\ install' = [install EXCEPT !.at = "undo link"]
        /\ unit' = (IF install.switched THEN install.unit ELSE unit)
        /\ UNCHANGED <<config, current, enabled, whole, installs>>
    BY <1>19 DEF UndoesUnit, Deploys, Installer, systemd, counters
  <2>2. "undo link" \in Places
    BY DEF Places
  <2> QED
    BY <1>1, <1>3, <1>10, <2>1, <2>2 DEF DeployedOK, Deploying, Undoing
<1>20. CASE UndoesLink
  <2>1. /\ install # Nothing /\ install.at = "undo link" /\ install' = [install EXCEPT !.at = "undo start"]
        /\ current' = Relinked /\ UNCHANGED <<config, unit, enabled, whole, installs>>
    BY <1>20 DEF UndoesLink, Deploys, Installer, systemd, counters
  <2>2. "undo start" \in Places
    BY DEF Places
  <2> QED
    BY <1>1, <1>3, <1>10, <2>1, <2>2 DEF DeployedOK, Deploying, Undoing, Relinked
<1> QED
  BY <1>4, <1>5, <1>6, <1>7, <1>8, <1>9, <1>12, <1>13, <1>14, <1>15, <1>16, <1>17, <1>18, <1>19, <1>20, InstallCases DEF Working

-----------------------------------------------------------------------------
(* The service after an unsuccessful deployment *)

\* The record of a deployment under way: it never becomes alone or unswitched again, and
\* `Undoing' is entered by UndoesService.
LEMMA InstallKeeps ==
    ASSUME IInv, Next, install' # Nothing, ~InstallStarts
    PROVE  /\ install # Nothing /\ installs' = installs
           /\ install.switched => install'.switched
           /\ install'.alone => install.alone /\ ~ArchiverStarts
           /\ install'.at \in Undoing /\ ~UndoesService => install.at \in Undoing /\ install'.switched = install.switched
<1>1. install \in Installs \union {Nothing}
  BY DEF IInv, TypesOK, HostTypes
<1> USE DEF Undoing
<1>2. installs' = installs
  BY WholeGrows
<1>3. CASE Idle /\ ~ArchiverStarts
  BY <1>2, <1>3 DEF Idle
<1>4. CASE ArchiverStarts
  <2>1. install # Nothing /\ install' = [install EXCEPT !.alone = FALSE]
    BY <1>4 DEF ArchiverStarts
  <2> QED
    BY <1>1, <1>2, <1>4, <2>1 DEF Installs
<1>5. ~Idle /\ ~ArchiverStarts => ~Gone
  BY DEF Gone
<1>6. ASSUME install # Nothing, NEW place \in Places, install' = [install EXCEPT !.at = place],
             place \in Undoing => UndoesService \/ install.at \in Undoing, ~ArchiverStarts
      PROVE  /\ install.switched => install'.switched
             /\ install'.alone => install.alone /\ ~ArchiverStarts
             /\ install'.at \in Undoing /\ ~UndoesService => install.at \in Undoing /\ install'.switched = install.switched
  BY <1>1, <1>6, PlaceMoves
<1>7. CASE Downloads /\ ~ArchiverStarts
  BY <1>1, <1>2, <1>7 DEF Downloads, Installer, Installs
<1>8. CASE Stages /\ ~ArchiverStarts
  BY <1>1, <1>2, <1>8 DEF Stages, Installer, Installs
<1>9. CASE (Stops \/ Configures \/ Writes \/ Bootstraps \/ Bootstrapped \/ Units \/ Enables) /\ ~ArchiverStarts
  BY <1>2, <1>6, <1>9 DEF Stops, Configures, Writes, Bootstraps, Bootstrapped, Units, Enables, Deploys, Installer, Places,
                          Deploying
<1>10. CASE (Raises \/ UndoesService \/ UndoesConfig \/ UndoesUnit \/ UndoesLink) /\ ~ArchiverStarts
  BY <1>2, <1>6, <1>10 DEF Raises, UndoesService, UndoesConfig, UndoesUnit, UndoesLink, Deploys, Installer, Places
<1>11. CASE Switches /\ ~ArchiverStarts
  BY <1>1, <1>2, <1>11 DEF Switches, Installer, Installs
<1> QED
  BY <1>3, <1>4, <1>5, <1>7, <1>8, <1>9, <1>10, <1>11, InstallCases DEF Working, Gone

\* The service that runs was running, or systemd starts the current release.
LEMMA ServiceMoves ==
    ASSUME IInv, Next, Alive'
    PROVE  \/ Alive /\ boot'["service"].release = boot["service"].release
           \/ wanted /\ boot'["service"].release = current /\ UNCHANGED hostVars
<1>1. Moved("service") /\ "service" # "bootstrap"
  BY BootStep DEF Starters
<1> QED
  BY <1>1 DEF Moved, Ended, Advanced, Fresh, Alive

\* Without narsika-admin, only the deployment and a reboot make systemd want the service.
LEMMA WantedCases ==
    ASSUME Next, wanted', ~wanted
    PROVE  ArchiverEnds \/ Enables \/ UndoEnds \/ Reboot
<1>1. CASE (DatabaseNext /\ UNCHANGED hostVars) \/ Launches
  BY <1>1 DEF Launches, hostVars
<1>2. CASE ArchiverStarts \/ ArchiverLocks \/ ArchiverCopies \/ Retention \/ KillInstall \/ KillChore
  BY <1>2 DEF ArchiverStarts, ArchiverLocks, ArchiverCopies, Retention, KillInstall, KillChore, systemd
<1>3. CASE InstallStarts \/ Downloads \/ Stages \/ Switches \/ Healthy \/ Raises
  BY <1>3 DEF InstallStarts, Downloads, Stages, Switches, Healthy, Raises, systemd
<1>4. CASE Stops \/ Configures \/ Writes \/ Bootstraps \/ Bootstrapped \/ Units
  BY <1>4 DEF Stops, Configures, Writes, Bootstraps, Bootstrapped, Units, systemd
<1>5. CASE UndoesService \/ UndoesConfig \/ UndoesUnit \/ UndoesLink
  BY <1>5 DEF UndoesService, UndoesConfig, UndoesUnit, UndoesLink, systemd
<1>6. CASE \E p \in Starters : KillStart(p)
  BY <1>6 DEF KillStart, systemd
<1> QED
  BY <1>1, <1>2, <1>3, <1>4, <1>5, <1>6 DEF Next

\* Only narsika-admin itself starts an offline backup.
LEMMA ArchiverCases ==
    ASSUME Next, archiver = Nothing, ~ArchiverStarts
    PROVE  archiver' = Nothing
<1>1. CASE (DatabaseNext /\ UNCHANGED hostVars) \/ Launches
  BY <1>1 DEF Launches, hostVars
<1>2. CASE ArchiverLocks \/ ArchiverCopies \/ ArchiverEnds \/ Retention \/ KillInstall \/ KillChore \/ Reboot
  BY <1>2 DEF ArchiverLocks, ArchiverCopies, ArchiverEnds, Archiver, Retention, KillInstall, KillChore, Reboot
<1>3. CASE InstallStarts \/ Downloads \/ Stages \/ Switches \/ Healthy \/ Raises \/ UndoEnds
  BY <1>3 DEF InstallStarts, Downloads, Stages, Switches, Healthy, Raises, UndoEnds
<1>4. CASE Stops \/ Configures \/ Writes \/ Bootstraps \/ Bootstrapped \/ Units \/ Enables
  BY <1>4 DEF Stops, Configures, Writes, Bootstraps, Bootstrapped, Units, Enables, Deploys
<1>5. CASE UndoesService \/ UndoesConfig \/ UndoesUnit \/ UndoesLink
  BY <1>5 DEF UndoesService, UndoesConfig, UndoesUnit, UndoesLink, Deploys
<1>6. CASE \E p \in Starters : KillStart(p)
  BY <1>6 DEF KillStart
<1> QED
  BY <1>1, <1>2, <1>3, <1>4, <1>5, <1>6 DEF Next

\* The failed release stays stopped while the installer restores the earlier one.
LEMMA RunningStep ==
    ASSUME IInv, Next
    PROVE  RunningOK'
<1>1. /\ RunningOK /\ DeployedOK /\ ReleaseOK /\ installs \in Nat /\ install \in Installs \union {Nothing}
      /\ boot \in [Starters -> Processes \union {Nothing}] /\ enabled \in BOOLEAN /\ wanted \in BOOLEAN
  BY DEF IInv, InstallOK, TypesOK, DataTypes, HostTypes
<1> SUFFICES ASSUME install' # Nothing
             PROVE  /\ ~install'.switched /\ Alive' => boot'["service"].release # Release'
                    /\ install'.alone => archiver' = Nothing
                    /\ install'.alone /\ install'.switched /\ install'.at \in Undoing => ~wanted' /\ ~Alive'
  BY DEF RunningOK
<1>2. CASE InstallStarts
  <2>1. /\ install'.at = "download" /\ install'.alone = (archiver = Nothing) /\ install'.switched = FALSE
        /\ UNCHANGED <<boot, archiver>> /\ Release' = installs + 2
    BY <1>1, <1>2 DEF InstallStarts, dataVars, Release
  <2>2. ASSUME Alive
        PROVE  boot["service"].release <= installs + 1 /\ boot["service"].release \in Nat
    <3>1. boot["service"].release \in whole
      BY <1>1, <2>2 DEF Alive, ReleaseOK, Starters
    <3>2. boot["service"].release \in 1..(installs + 1)
      BY <1>1, <3>1 DEF ReleaseOK
    <3> QED
      BY <1>1, <3>2
  <2>3. boot["service"].release <= installs + 1 /\ boot["service"].release \in Nat =>
            boot["service"].release # installs + 2
    BY <1>1
  <2> QED
    BY <2>1, <2>2, <2>3 DEF Undoing, Alive
<1>3. CASE ~InstallStarts
  <2>1. /\ install # Nothing /\ installs' = installs /\ Release' = Release
        /\ install.switched => install'.switched
        /\ install'.alone => install.alone /\ ~ArchiverStarts
        /\ install'.at \in Undoing /\ ~UndoesService => install.at \in Undoing /\ install'.switched = install.switched
    BY <1>3, InstallKeeps DEF Release
  <2>2. ASSUME ~install'.switched, Alive'
        PROVE  boot'["service"].release # Release'
    <3>1. CASE Alive /\ boot'["service"].release = boot["service"].release
      BY <1>1, <2>1, <2>2, <3>1 DEF RunningOK
    <3>2. CASE boot'["service"].release = current
      <4>1. current = install.previous /\ install.previous <= installs /\ install.previous \in Nat
        BY <1>1, <2>1, <2>2 DEF DeployedOK, Installs
      <4> QED
        BY <1>1, <2>1, <3>2, <4>1 DEF Release
    <3> QED
      BY <2>2, <3>1, <3>2, ServiceMoves
  <2>3. install'.alone => archiver' = Nothing /\ archiver = Nothing
    BY <1>1, <2>1, ArchiverCases DEF RunningOK
  <2>4. ASSUME install'.alone, install'.switched, install'.at \in Undoing
        PROVE  ~wanted' /\ ~Alive'
    <3>1. CASE UndoesService
      <4>1. install'.switched = install.switched
        <5>1. install' = [install EXCEPT !.at = "undo config"]
          BY <3>1 DEF UndoesService, Deploys
        <5> QED
          BY <1>1, <2>1, <5>1, PlaceMoves DEF Places
      <4>2. boot' = Dead("service") /\ wanted' = FALSE
        BY <2>4, <3>1, <4>1 DEF UndoesService, Stopped
      <4> QED
        BY <1>1, <4>2 DEF Dead, Alive, Starters
    <3>2. CASE ~UndoesService
      <4>1. ~wanted /\ ~Alive
        BY <1>1, <2>1, <2>4, <3>2 DEF RunningOK
      <4>2. ~ArchiverEnds /\ ~Enables /\ ~UndoEnds /\ ~Reboot
        <5>1. ~ArchiverEnds
          BY <2>3, <2>4 DEF ArchiverEnds, Archiver
        <5>2. ~UndoEnds /\ ~Reboot
          BY DEF UndoEnds, Reboot
        <5>3. ~Enables
          BY <2>1, <2>4, <3>2 DEF Enables, Deploys, Installer, Undoing
        <5> QED
          BY <5>1, <5>2, <5>3
      <4> QED
        BY <4>1, <4>2, WantedCases, ServiceMoves
    <3> QED
      BY <3>1, <3>2
  <2> QED
    BY <2>2, <2>3, <2>4
<1> QED
  BY <1>2, <1>3

-----------------------------------------------------------------------------
(* The migration *)

LEMMA DueIs ==
    ASSUME NEW u \in BOOLEAN
    PROVE  /\ Due(Order[1], u) <=> u /\ snapshot["before-v2"] = Nothing
           /\ Due(Order[2], u) <=> db.columns # "none" /\ ~db.schedules /\ snapshot["before-schedules"] = Nothing
           /\ Due(Order[3], u) <=> db.columns = "old"
           /\ Due(Order[4], u) <=> db.columns = "none"
           /\ Due(Order[5], u) <=> ~db.schedules
           /\ Due(Order[6], u) <=> db.plain
           /\ Due(Order[7], u) <=> ~db.index
           /\ Due(Order[8], u) <=> oldCopy /\ snapshot["before-v1"] = Nothing
           /\ Due(Order[9], u) <=> oldCopy
           /\ Due(Order[10], u) <=> u
           /\ Due(Order[11], u) <=> db.version < 2
           /\ Due(Order[12], u) <=> db.key = NoKey
           /\ Due(Order[13], u) <=> ~db.users
BY OrderIs DEF Due

\* A database of this release needs nothing.
LEMMA RecentIsDone ==
    ASSUME NEW k \in Keys, db = Recent(k), ~oldCopy, NEW u \in BOOLEAN, ~u, NEW m \in 1..13
    PROVE  ~Due(Order[m], u)
<1>1. /\ db.columns = "new" /\ db.version = 2 /\ db.key = k /\ db.schedules /\ ~db.plain /\ db.index /\ db.users
      /\ k # NoKey
  BY FirstDatabases, DatabaseAssumption
<1>2. ~Due(Order[1], u) /\ ~Due(Order[2], u) /\ ~Due(Order[3], u) /\ ~Due(Order[4], u) /\ ~Due(Order[5], u)
  BY <1>1, DueIs
<1>3. ~Due(Order[6], u) /\ ~Due(Order[7], u) /\ ~Due(Order[8], u) /\ ~Due(Order[9], u) /\ ~Due(Order[10], u)
  BY <1>1, DueIs
<1>4. ~Due(Order[11], u) /\ ~Due(Order[12], u) /\ ~Due(Order[13], u)
  BY <1>1, DueIs
<1> QED
  BY <1>2, <1>3, <1>4, PlaceOf

\* A step of the migration keeps what was achieved.
Forward ==
    /\ original' = original
    /\ original.columns # "none" => config'.key = config.key
    /\ db'.plain => db.plain
    /\ db.index => db'.index
    /\ db'.residue => db.residue
    /\ oldCopy' => oldCopy
    /\ db.schedules => db'.schedules
    /\ db.columns # "none" => db'.columns # "none"
    /\ original.columns # "none" /\ Upgrading' => Upgrading
    /\ \A n \in Early : snapshot[n] # Nothing => snapshot'[n] = snapshot[n]

\* The snapshot of a database there was is not the absent one.
LEMMA OriginalIsCopy ==
    ASSUME IInv, original.columns # "none"
    PROVE  Original # Nothing
<1>1. original \in Databases /\ config.key \in Keys
  BY FirstDatabases DEF IInv, MigrationOK, OriginalOK, KeyOK
<1> QED
  BY <1>1, DatabaseAssumption DEF Original

\* A step of the migration loses no snapshot that is due.
LEMMA SettledStays ==
    ASSUME IInv, Settled, Forward
    PROVE  Settled'
<1>1. CASE original.columns = "none"
  BY <1>1 DEF Forward, Settled, UpgradeSaved, SchedulesSaved
<1>2. CASE original.columns # "none"
  <2>1. Original' = Original /\ Original # Nothing
    BY <1>2, OriginalIsCopy DEF Forward, Original
  <2>2. PICK n \in Early : snapshot[n] = Original
    BY <1>2 DEF Settled, Kept
  <2>3. snapshot'[n] = Original'
    BY <2>1, <2>2 DEF Forward
  <2>4. UpgradeSaved' /\ SchedulesSaved'
    BY <1>2 DEF Settled, UpgradeSaved, SchedulesSaved, Forward, Early
  <2> QED
    BY <2>3, <2>4 DEF Settled, Kept
<1> QED
  BY <1>1, <1>2

\* From one step to the next that is due everything between them is passed.
LEMMA PassedOn ==
    ASSUME IInv, Forward, NEW i \in 0..13, NEW m \in (i + 1)..13, NEW u \in BOOLEAN,
           i > 0 => Passed(i),
           db.residue => u,
           i < 2 => u = Upgrading,
           \A j \in (i + 1)..(m - 1) : ~Due(Order[j], u),
           i = 1 => snapshot'["before-v2"] # Nothing,
           i = 2 => snapshot'["before-schedules"] # Nothing,
           i = 6 => ~db'.plain,
           i = 7 => db'.index,
           i = 9 => ~oldCopy',
           i = 10 => ~db'.residue
    PROVE  Passed(m)'
<1>1. m \in Nat /\ i \in Nat /\ i < m /\ m <= 13
  OBVIOUS
<1>2. original.columns # "none" => db.columns # "none"
  BY DEF IInv, MigrationOK, OriginalOK
<1>3. m > 1 => UpgradeSaved'
  <2>1. CASE i > 1
    BY <1>1, <2>1 DEF Passed, UpgradeSaved, Forward, Early
  <2>2. CASE i = 1
    BY <2>2 DEF UpgradeSaved
  <2>3. CASE i = 0
    BY <1>1, <2>3, DueIs DEF UpgradeSaved, Forward, Early
  <2> QED
    BY <1>1, <2>1, <2>2, <2>3
<1>4. m > 2 => SchedulesSaved'
  <2>1. CASE i > 2
    BY <1>1, <2>1 DEF Passed, SchedulesSaved, Forward, Early
  <2>2. CASE i = 2
    BY <2>2 DEF SchedulesSaved
  <2>3. CASE i < 2
    BY <1>1, <1>2, <2>3, DueIs DEF SchedulesSaved, Forward, Early
  <2> QED
    BY <1>1, <2>1, <2>2, <2>3
<1>5. m > 6 => ~db'.plain
  <2>1. CASE i > 6
    BY <1>1, <2>1 DEF Passed, Forward
  <2>2. CASE i < 6
    BY <1>1, <2>2, DueIs DEF Forward
  <2> QED
    BY <1>1, <2>1, <2>2
<1>6. m > 7 => db'.index
  <2>1. CASE i > 7
    BY <1>1, <2>1 DEF Passed, Forward
  <2>2. CASE i < 7
    BY <1>1, <2>2, DueIs DEF Forward
  <2> QED
    BY <1>1, <2>1, <2>2
<1>7. m > 9 => ~oldCopy'
  <2>1. CASE i > 9
    BY <1>1, <2>1 DEF Passed, Forward
  <2>2. CASE i < 9
    BY <1>1, <2>2, DueIs DEF Forward
  <2> QED
    BY <1>1, <2>1, <2>2
<1>8. m > 10 => ~db'.residue
  <2>1. CASE i > 10
    BY <1>1, <2>1 DEF Passed, Forward
  <2>2. CASE i < 10
    BY <1>1, <2>2, DueIs DEF Forward
  <2> QED
    BY <1>1, <2>1, <2>2
<1> QED
  BY <1>3, <1>4, <1>5, <1>6, <1>7, <1>8 DEF Passed

\* Where the first due step is past the snapshots, there is one of the original, and both
\* that were wanted are there.
LEMMA SettledOn ==
    ASSUME IInv, Forward, NEW i \in 0..13, NEW m \in (i + 1)..13, m > 2, NEW u \in BOOLEAN,
           i > 2 => Settled,
           i = 0 => u = Upgrading,
           Due(Order[m], u),
           \A j \in (i + 1)..(m - 1) : ~Due(Order[j], u),
           i = 1 => snapshot'["before-v2"] = [of |-> db, key |-> config.key],
           i = 2 => snapshot'["before-schedules"] = [of |-> db, key |-> config.key],
           Passed(m)'
    PROVE  Settled'
<1>1. UpgradeSaved' /\ SchedulesSaved'
  BY DEF Passed
<1>2. CASE Settled
  BY <1>2, SettledStays
<1>3. CASE original.columns = "none"
  BY <1>1, <1>3 DEF Settled, Forward
<1>4. CASE original.columns # "none" /\ ~Settled
  <2>1. db = original /\ i \in 0..2
    BY <1>4 DEF IInv, MigrationOK, OriginalOK
  <2>2. Original' = [of |-> db, key |-> config.key] /\ Original = [of |-> db, key |-> config.key]
    BY <1>4, <2>1 DEF Forward, Original
  <2>3. CASE i \in {1, 2}
    BY <1>1, <2>2, <2>3 DEF Settled, Kept, Early
  <2>4. CASE i = 0
    <3>1. ~Due(Order[1], u) /\ ~Due(Order[2], u) /\ u = Upgrading
      BY <2>4
    <3>2. ~Upgrading \/ snapshot["before-v2"] # Nothing
      BY <3>1, DueIs
    <3>3. db.schedules \/ snapshot["before-schedules"] # Nothing
      BY <1>4, <2>1, <3>1, DueIs
    <3>4. ASSUME NEW n \in Early, snapshot[n] # Nothing
          PROVE  Settled'
      <4>1. snapshot[n] = Original
        BY <1>4, <3>4 DEF IInv, MigrationOK, OriginalOK
      <4>2. snapshot'[n] = Original'
        BY <2>2, <3>4, <4>1 DEF Forward
      <4> QED
        BY <1>1, <4>2 DEF Settled, Kept
    <3>5. CASE ~Upgrading /\ db.schedules
      <4>1. PICK k \in Keys : original \in {Earlier(k), Recent(k)} /\ ~oldCopy
        <5>1. config.key \in Keys
          BY <1>4 DEF IInv, KeyOK
        <5>2. original # Empty /\ original # Legacy
          BY <1>4, <2>1, <3>5, <5>1, FirstDatabases DEF Upgrading
        <5> QED
          BY <5>2 DEF IInv, MigrationOK, OriginalOK
      <4>2. db = Recent(k)
        BY <2>1, <3>5, <4>1, FirstDatabases
      <4> QED
        BY <3>1, <3>5, <4>1, <4>2, RecentIsDone
    <3> QED
      BY <3>2, <3>3, <3>4, <3>5 DEF Early
  <2> QED
    BY <2>1, <2>3, <2>4
<1> QED
  BY <1>2, <1>3, <1>4

\* A process that goes on from the i-th step finds its next step in order.
LEMMA GoesOn ==
    ASSUME IInv, Forward, NEW p \in Starters, boot[p] # Nothing, NEW i \in 0..13, NEW u \in BOOLEAN, Goes(p, i, u),
           i > 0 => Passed(i),
           i > 2 => Settled,
           db.residue => u,
           i < 2 => u = Upgrading /\ db' = db /\ oldCopy' = oldCopy,
           i = 0 => snapshot' = snapshot,
           i = 1 => snapshot'["before-schedules"] = snapshot["before-schedules"],
           i = 1 => snapshot'["before-v2"] = [of |-> db, key |-> config.key],
           i = 2 => snapshot'["before-schedules"] = [of |-> db, key |-> config.key],
           i \in {1, 2} => snapshot'[Order[i]] # Nothing,
           i = 6 => ~db'.plain,
           i = 7 => db'.index,
           i = 9 => ~oldCopy',
           i = 10 => ~db'.residue
    PROVE  \A j \in 1..13 : At(p, {Order[j]})' => StepOK(p, j)'
<1>1. /\ boot'[p].at = After(i, u) /\ boot'[p].upgrading = u
  BY GoesFacts DEF IInv, TypesOK
<1> SUFFICES ASSUME NEW m \in 1..13, boot'[p].at = Order[m]
             PROVE  StepOK(p, m)'
  BY DEF At
<1>2. Order[m] # "open"
  BY StepOfOrder DEF Steps
<1>3. m \in (i + 1)..13 /\ Due(Order[m], u) /\ \A j \in (i + 1)..(m - 1) : ~Due(Order[j], u)
  <2>1. PICK n \in (i + 1)..13 : After(i, u) = Order[n] /\ Due(Order[n], u) /\ \A j \in (i + 1)..(n - 1) : ~Due(Order[j], u)
    BY <1>1, <1>2, AfterFacts
  <2>2. n \in 1..13
    OBVIOUS
  <2>3. n = m
    BY <1>1, <2>1, <2>2, OrderDistinct
  <2> QED
    BY <2>1, <2>3
<1>4. Passed(m)'
  <2>1. i = 1 => snapshot'["before-v2"] # Nothing
    BY OrderIs
  <2>2. i = 2 => snapshot'["before-schedules"] # Nothing
    BY OrderIs
  <2> QED
    BY <1>3, <2>1, <2>2, PassedOn
<1>5. m > 2 => Settled'
  BY <1>3, <1>4, SettledOn
<1>6. m <= 2 => boot'[p].upgrading = Upgrading' /\ Due(Order[m], Upgrading)'
  <2>1. CASE m = 1
    <3>1. i = 0 /\ Upgrading /\ snapshot["before-v2"] = Nothing
      BY <1>3, <2>1, DueIs
    <3>2. Upgrading' = Upgrading /\ snapshot' = snapshot
      BY <3>1 DEF Upgrading
    <3>3. boot'[p].upgrading = Upgrading' /\ Upgrading' /\ snapshot'["before-v2"] = Nothing
      BY <1>1, <3>1, <3>2
    <3>4. Order[m] = "before-v2"
      BY <2>1, OrderIs
    <3>5. Due("before-v2", Upgrading)'
      BY <3>3 DEF Due
    <3> QED
      BY <3>3, <3>4, <3>5
  <2>2. CASE m = 2
    <3>1. i < 2 /\ db.columns # "none" /\ ~db.schedules /\ snapshot["before-schedules"] = Nothing
      BY <1>3, <2>2, DueIs
    <3>2. Upgrading' = Upgrading /\ snapshot'["before-schedules"] = snapshot["before-schedules"] /\ db' = db
      BY <3>1 DEF Upgrading
    <3> QED
      BY <1>1, <2>2, <3>1, <3>2, OrderIs DEF Due
  <2> QED
    BY <2>1, <2>2
<1>7. db'.residue => boot'[p].upgrading
  BY <1>1 DEF Forward
<1> QED
  BY <1>4, <1>5, <1>6, <1>7 DEF StepOK

\* While one process is at a step no other is.
LEMMA OthersAside ==
    ASSUME IInv, NEW p \in Starters, lock \in {p, Nothing}, NEW q \in Starters \ {p}, boot[q] # Nothing
    PROVE  boot[q].at \notin Steps
BY DatabaseAssumption DEF IInv, LockOK, At, Holders, Starters

\* Steps that leave the database and its snapshots alone.
LEMMA DatabaseQuiet ==
    ASSUME IInv, Next, UNCHANGED <<db, oldCopy, snapshot, original>>
    PROVE  OriginalOK' /\ CleanOK' /\ Forward
<1>1. OriginalOK /\ CleanOK
  BY DEF IInv, MigrationOK
<1>2. original.columns # "none" => Original' = Original /\ config'.key = config.key
  BY KeyKept DEF IInv, KeyOK, Original
<1>3. Upgrading' = Upgrading /\ UpgradeSaved' = UpgradeSaved /\ SchedulesSaved' = SchedulesSaved
  BY DEF Upgrading, UpgradeSaved, SchedulesSaved
<1>4. Settled => Settled'
  BY <1>2, <1>3 DEF Settled, Kept
<1>5. Forward
  BY <1>2, <1>3 DEF Forward
<1> QED
  BY <1>1, <1>2, <1>4, <1>5 DEF OriginalOK, CleanOK, NoPlaintextLeft

\* A step that migrates nothing keeps each process at its place with its facts.
LEMMA PlacesQuiet ==
    ASSUME IInv, Next, UNCHANGED <<db, oldCopy, snapshot, original>>,
           NEW p \in Starters,
           \/ boot'[p] = Nothing
           \/ boot'[p].at \notin Steps
           \/ boot[p] # Nothing /\ boot'[p].at = boot[p].at /\ boot'[p].upgrading = boot[p].upgrading
    PROVE  \A i \in 1..13 : At(p, {Order[i]})' => StepOK(p, i)'
<1> SUFFICES ASSUME NEW i \in 1..13, At(p, {Order[i]})'
             PROVE  StepOK(p, i)'
  OBVIOUS
<1>1. boot[p] # Nothing /\ boot[p].at = Order[i] /\ boot'[p].upgrading = boot[p].upgrading
  BY StepOfOrder DEF At
<1>2. StepOK(p, i)
  BY <1>1 DEF IInv, MigrationOK, PlacesOK, At
<1>3. Upgrading' = Upgrading /\ UpgradeSaved' = UpgradeSaved /\ SchedulesSaved' = SchedulesSaved
  BY DEF Upgrading, UpgradeSaved, SchedulesSaved
<1>4. Passed(i)'
  BY <1>2, <1>3 DEF StepOK, Passed
<1>5. Due(Order[i], Upgrading) => Due(Order[i], Upgrading)'
  BY <1>3 DEF Due
<1>6. Settled => Settled'
  BY SettledStays, DatabaseQuiet
<1> QED
  BY <1>1, <1>2, <1>3, <1>4, <1>5, <1>6 DEF StepOK

\* When a snapshot before the changes is due, the database is the original one.
LEMMA EarlyIsOriginal ==
    ASSUME IInv, NEW p \in Starters, NEW i \in {1, 2}, boot[p] # Nothing, boot[p].at = Order[i],
           original.columns # "none"
    PROVE  db = original /\ snapshot[Order[i]] = Nothing
<1>1. StepOK(p, i)
  BY DEF IInv, MigrationOK, PlacesOK, At
<1>2. Due(Order[i], Upgrading) /\ Upgrading \in BOOLEAN
  BY <1>1 DEF StepOK, Upgrading
<1>3. ~Settled
  <2>1. CASE i = 1
    BY <1>2, <2>1, DueIs DEF Settled, UpgradeSaved
  <2>2. CASE i = 2
    BY <1>2, <2>2, DueIs DEF Settled, SchedulesSaved
  <2> QED
    BY <2>1, <2>2
<1>4. snapshot[Order[i]] = Nothing
  BY <1>2, DueIs, OrderIs
<1> QED
  BY <1>3, <1>4 DEF IInv, MigrationOK, OriginalOK

\* Where no other process can be at a step, and the database goes forward, the rest follows.
LEMMA MigrationForward ==
    ASSUME IInv, Forward, NEW p \in Starters, lock \in {p, Nothing},
           \A q \in Starters \ {p} : boot'[q] = boot[q],
           \A j \in 1..13 : At(p, {Order[j]})' => StepOK(p, j)'
    PROVE  PlacesOK'
<1> SUFFICES ASSUME NEW q \in Starters, NEW j \in 1..13, At(q, {Order[j]})'
             PROVE  StepOK(q, j)'
  BY DEF PlacesOK
<1>1. CASE q = p
  BY <1>1
<1>2. CASE q # p
  BY <1>2, OthersAside, StepOfOrder DEF At
<1> QED
  BY <1>1, <1>2

\* create_app decides under the lock from where it goes on.
LEMMA GuardsMigration ==
    ASSUME IInv, Next, NEW p \in Starters, Guards(p)
    PROVE  MigrationOK'
<1>1. /\ db' = db /\ oldCopy' = oldCopy /\ snapshot' = snapshot /\ original' = original
      /\ boot[p] # Nothing /\ Goes(p, 0, Upgrading) /\ lock = Nothing
  BY DEF Guards, history, At
<1>2. OriginalOK' /\ CleanOK' /\ Forward
  BY <1>1, DatabaseQuiet
<1>3. db.residue => Upgrading
  BY DEF IInv, MigrationOK, CleanOK, NoPlaintextLeft, TypesOK, DataTypes, Databases, Upgrading
<1>4. Upgrading \in BOOLEAN
  BY DEF Upgrading
<1>5. \A j \in 1..13 : At(p, {Order[j]})' => StepOK(p, j)'
  <2>1. PICK i \in 0..13 : i = 0
    OBVIOUS
  <2>2. i \notin {1, 2} /\ ~(i > 0) /\ ~(i > 2) /\ i # 6 /\ i # 7 /\ i # 9 /\ i # 10
    BY <2>1
  <2>3. Goes(p, i, Upgrading)
    BY <1>1, <2>1
  <2> QED
    BY <1>1, <1>2, <1>3, <1>4, <2>2, <2>3, GoesOn
<1>6. \A q \in Starters \ {p} : boot'[q] = boot[q]
  BY StarterStep
<1> QED
  BY <1>1, <1>2, <1>5, <1>6, MigrationForward DEF MigrationOK

\* The .partial file of a snapshot.
LEMMA SnapshotStartsMigration ==
    ASSUME IInv, Next, NEW p \in Starters, SnapshotStarts(p)
    PROVE  MigrationOK'
<1>1. /\ UNCHANGED <<db, oldCopy, snapshot, original>> /\ boot[p] # Nothing
      /\ boot' = [boot EXCEPT ![p].writing = TRUE] /\ boot \in [Starters -> Processes \union {Nothing}]
  BY DEF SnapshotStarts, history, At, IInv, TypesOK, DataTypes
<1>2. OriginalOK' /\ CleanOK'
  BY <1>1, DatabaseQuiet
<1>3. boot'[p].at = boot[p].at /\ boot'[p].upgrading = boot[p].upgrading
  BY <1>1 DEF Processes
<1>4. \A q \in Starters \ {p} : boot'[q] = boot[q]
  BY <1>1
<1>5. PlacesOK'
  <2> SUFFICES ASSUME NEW q \in Starters
               PROVE  \A i \in 1..13 : At(q, {Order[i]})' => StepOK(q, i)'
    BY DEF PlacesOK
  <2>1. boot'[q] = Nothing \/ (boot[q] # Nothing /\ boot'[q].at = boot[q].at /\ boot'[q].upgrading = boot[q].upgrading)
    BY <1>1, <1>3, <1>4
  <2> QED
    BY <1>1, <2>1, PlacesQuiet
<1> QED
  BY <1>2, <1>5 DEF MigrationOK

\* A snapshot is in its place: its process goes to the next step that is due.
LEMMA SnapshotEndsMigration ==
    ASSUME IInv, Next, NEW p \in Starters, SnapshotEnds(p)
    PROVE  MigrationOK'
<1>1. /\ boot[p] # Nothing /\ boot[p].at \in Snapshots /\ boot[p].at \in Steps
      /\ Goes(p, Position(boot[p].at), boot[p].upgrading)
      /\ config' = config /\ db' = db /\ oldCopy' = oldCopy /\ original' = original
  BY DEF SnapshotEnds, history, At, Snapshots, Steps
<1>2. PICK i \in 1..13 : boot[p].at = Order[i] /\ Position(boot[p].at) = i /\ StepOK(p, i)
  BY <1>1, AtStep
<1>3. boot[p].key = config.key /\ boot[p].upgrading \in BOOLEAN /\ lock = p /\ config.key \in Keys
  BY <1>1, AtStep
<1>4. i \in {1, 2, 8}
  BY <1>1, <1>2, OrderIs, OrderDistinct DEF Snapshots
<1> DEFINE copy == [of |-> IF boot[p].at = "before-v1" THEN Nothing ELSE db, key |-> config.key]
<1>5. snapshot' = [snapshot EXCEPT ![Order[i]] = copy] /\ snapshot \in [Snapshots -> Copies \union {Nothing}]
  BY <1>2, <1>3 DEF SnapshotEnds, IInv, TypesOK, DataTypes
<1>6. i # 8 => copy = [of |-> db, key |-> config.key]
  BY <1>2, <1>4, OrderIs
<1> HIDE DEF copy
<1>7. snapshot'[Order[i]] = copy /\ \A n \in Snapshots : n # Order[i] => snapshot'[n] = snapshot[n]
  BY <1>1, <1>2, <1>5
<1>8. Early \subseteq Snapshots /\ (i = 8 => Order[i] \notin Early)
  BY OrderIs DEF Early, Snapshots
<1>9. \A n \in Early : snapshot[n] # Nothing => snapshot'[n] = snapshot[n] \/ original.columns = "none"
  BY <1>1, <1>2, <1>4, <1>7, <1>8, EarlyIsOriginal
<1>10. i # 8 => snapshot[Order[i]] = Nothing
  <2>1. Due(Order[i], Upgrading) \/ i = 8
    BY <1>2, <1>4 DEF StepOK
  <2> QED
    BY <1>4, <2>1, DueIs, OrderIs DEF Upgrading
<1>11. \A n \in Early : snapshot[n] # Nothing => snapshot'[n] = snapshot[n]
  BY <1>4, <1>7, <1>8, <1>10
<1>12. Forward
  BY <1>1, <1>11 DEF Forward, Upgrading
<1>13. OriginalOK'
  <2>1. OriginalOK
    BY DEF IInv, MigrationOK
  <2>2. ASSUME original.columns # "none", NEW n \in Early
        PROVE  snapshot'[n] \in {Original', Nothing}
    <3>1. Original' = Original
      BY <1>1 DEF Original
    <3>2. CASE n = Order[i]
      BY <1>1, <1>2, <1>4, <1>6, <1>7, <1>8, <2>2, <3>1, <3>2, EarlyIsOriginal DEF Original
    <3>3. CASE n # Order[i]
      BY <1>7, <1>8, <2>1, <2>2, <3>1, <3>3 DEF OriginalOK
    <3> QED
      BY <3>2, <3>3
  <2>3. db' # original => Settled'
    BY <1>1, <1>12, <2>1, SettledStays DEF OriginalOK
  <2> QED
    BY <1>1, <2>1, <2>2, <2>3 DEF OriginalOK
<1>14. CleanOK'
  BY <1>1 DEF IInv, MigrationOK, CleanOK, NoPlaintextLeft
<1>15. PlacesOK'
  <2>1. \A j \in 1..13 : At(p, {Order[j]})' => StepOK(p, j)'
    <3>1. i = 1 => snapshot'["before-schedules"] = snapshot["before-schedules"]
      BY <1>7, OrderIs DEF Snapshots
    <3>2. i = 1 => snapshot'["before-v2"] = [of |-> db, key |-> config.key]
      BY <1>6, <1>7, OrderIs
    <3>3. i = 2 => snapshot'["before-schedules"] = [of |-> db, key |-> config.key]
      BY <1>6, <1>7, OrderIs
    <3>4. i \in {1, 2} => snapshot'[Order[i]] # Nothing
      <4>1. i \in {1, 2} => copy \in [of : Databases, key : Keys]
        BY <1>3, <1>6 DEF IInv, TypesOK, DataTypes
      <4> QED
        BY <1>7, <4>1, DatabaseAssumption
    <3>5. PICK u \in BOOLEAN : u = boot[p].upgrading
      BY <1>3
    <3>6. Passed(i) /\ (i > 2 => Settled) /\ (db.residue => u) /\ (i < 2 => u = Upgrading)
      BY <1>2, <3>5 DEF StepOK
    <3>7. Goes(p, i, u)
      BY <1>1, <1>2, <3>5
    <3>8. i \in 0..13 /\ i \notin {0, 6, 7, 9, 10}
      BY <1>4
    <3> QED
      BY <1>1, <1>12, <3>1, <3>2, <3>3, <3>4, <3>6, <3>7, <3>8, GoesOn
  <2>2. \A q \in Starters \ {p} : boot'[q] = boot[q]
    BY StarterStep
  <2> QED
    BY <1>3, <1>12, <2>1, <2>2, MigrationForward
<1> QED
  BY <1>13, <1>14, <1>15 DEF MigrationOK

\* A commit of the migration is a Forward step, and makes its own step done.
LEMMA CommitsMigration ==
    ASSUME IInv, Next, NEW p \in Starters, Commits(p)
    PROVE  MigrationOK'
<1>1. /\ boot[p] # Nothing /\ boot[p].at \in Steps \ Snapshots
      /\ db' = Done(boot[p].at, boot[p].key) /\ oldCopy' = (oldCopy /\ boot[p].at # "unlink")
      /\ Goes(p, Position(boot[p].at), boot[p].upgrading)
      /\ config' = config /\ snapshot' = snapshot /\ original' = original
  BY RangeOfOrder DEF Commits, history
<1>2. PICK i \in 1..13 : boot[p].at = Order[i] /\ Position(boot[p].at) = i /\ StepOK(p, i)
  BY <1>1, AtStep
<1>3. boot[p].key = config.key /\ boot[p].key \in Keys /\ boot[p].upgrading \in BOOLEAN /\ lock = p
  BY <1>1, AtStep
<1>4. i \notin {1, 2, 8}
  BY <1>1, <1>2, OrderIs DEF Snapshots
<1>5. db \in Databases /\ oldCopy \in BOOLEAN
  BY DEF IInv, TypesOK, DataTypes
<1>6. /\ db' \in Databases
      /\ db'.plain => db.plain /\ boot[p].at # "move"
      /\ db.index \/ boot[p].at = "index" => db'.index
      /\ db'.residue => db.residue /\ boot[p].at # "clear"
      /\ db.schedules \/ boot[p].at = "schedules" => db'.schedules
      /\ db.columns # "none" => db'.columns \in {"new", db.columns} /\ db'.columns # "none"
      /\ db'.version = IF boot[p].at = "version" THEN 2 ELSE db.version
  BY <1>1, <1>3, <1>5, DoneFacts
<1>7. OriginalOK /\ CleanOK /\ (original.columns # "none" => db.columns # "none")
  BY DEF IInv, MigrationOK, OriginalOK
<1>8. original.columns # "none" /\ Upgrading' => Upgrading
  BY <1>5, <1>6, <1>7 DEF Upgrading, Databases
<1>9. Forward
  BY <1>1, <1>6, <1>8 DEF Forward
<1>10. Passed(i) /\ Settled /\ Settled'
  BY <1>2, <1>4, <1>9, SettledStays DEF StepOK
<1>11. OriginalOK'
  <2>1. Original' = Original
    BY <1>1 DEF Original
  <2> QED
    BY <1>1, <1>6, <1>7, <1>10, <2>1 DEF OriginalOK
<1>12. CleanOK'
  <2>1. db'.residue => db'.columns # "none"
    BY <1>6, <1>7 DEF CleanOK
  <2>2. CASE boot[p].at = "version"
    <3>1. i = 11
      <4>1. Order[i] = Order[11] /\ 11 \in 1..13
        BY <1>2, <2>2, OrderIs
      <4> QED
        BY <4>1, OrderDistinct
    <3>2. ~db.plain /\ db.index /\ ~oldCopy /\ ~db.residue
      BY <1>10, <3>1 DEF Passed
    <3> QED
      BY <1>1, <1>6, <2>1, <3>2 DEF CleanOK, NoPlaintextLeft
  <2>3. CASE boot[p].at # "version"
    BY <1>1, <1>6, <1>7, <2>1, <2>3 DEF CleanOK, NoPlaintextLeft
  <2> QED
    BY <2>2, <2>3
<1>13. PlacesOK'
  <2>1. \A j \in 1..13 : At(p, {Order[j]})' => StepOK(p, j)'
    <3>1. /\ i = 6 => ~db'.plain
          /\ i = 7 => db'.index
          /\ i = 9 => ~oldCopy'
          /\ i = 10 => ~db'.residue
      <4>1. /\ i = 6 => boot[p].at = "move"
            /\ i = 7 => boot[p].at = "index"
            /\ i = 9 => boot[p].at = "unlink"
            /\ i = 10 => boot[p].at = "clear"
        BY <1>2, OrderIs
      <4> QED
        BY <1>1, <1>6, <4>1
    <3>2. PICK u \in BOOLEAN : u = boot[p].upgrading
      BY <1>3
    <3>3. db.residue => u
      BY <1>2, <3>2 DEF StepOK
    <3>4. Goes(p, i, u)
      BY <1>1, <1>2, <3>2
    <3>5. i \in 0..13 /\ i \notin {0, 1, 2} /\ ~(i < 2)
      BY <1>4
    <3> QED
      BY <1>1, <1>9, <1>10, <3>1, <3>3, <3>4, <3>5, GoesOn
  <2>2. \A q \in Starters \ {p} : boot'[q] = boot[q]
    BY StarterStep
  <2> QED
    BY <1>3, <1>9, <2>1, <2>2, MigrationForward
<1> QED
  BY <1>11, <1>12, <1>13 DEF MigrationOK

\* The migration part of the invariant, by who acts.
LEMMA MigrationStep ==
    ASSUME IInv, Next
    PROVE  MigrationOK'
<1>1. ASSUME UNCHANGED <<db, oldCopy, snapshot, partial, original>>,
             ~ \E p \in Starters : Migrating(p)
      PROVE  MigrationOK'
  <2>1. ASSUME NEW p \in Starters
        PROVE  \A i \in 1..13 : At(p, {Order[i]})' => StepOK(p, i)'
    <3>1. Moved(p) /\ ~Migrating(p)
      BY <1>1, BootStep DEF Migrating
    <3>2. \/ boot'[p] = Nothing
          \/ boot'[p].at \notin Steps
          \/ boot'[p] = boot[p] /\ boot[p] # Nothing
      BY <3>1 DEF Moved, Ended, Advanced, Fresh, Steps
    <3> QED
      BY <1>1, <3>2, PlacesQuiet
  <2> QED
    BY <1>1, <2>1, DatabaseQuiet DEF PlacesOK, MigrationOK
<1> QED
  BY <1>1, GuardsMigration, SnapshotStartsMigration, SnapshotEndsMigration, CommitsMigration, MigrationCases
     DEF Migrates, Migrating

-----------------------------------------------------------------------------
(* The theorems *)

LEMMA NextIInv ==
    ASSUME IInv, [Next]_<<dataVars, hostVars>>
    PROVE  IInv'
<1>1. CASE Next
  BY <1>1, DataTypesStep, HostTypesStep, LockItemsStep, KeyStep, MigrationStep, ReleaseStep, DeployedStep, RunningStep
     DEF IInv, TypesOK, InstallOK
<1>2. CASE UNCHANGED <<dataVars, hostVars>>
  <2>1. /\ UNCHANGED <<config, db, oldCopy, snapshot, partial, lock, boot, files, rows, archives, maintenance>>
        /\ UNCHANGED <<original, stored>>
        /\ UNCHANGED <<current, unit, enabled, wanted, whole, install, archiver, tars, installs, kills, chores>>
    BY <1>2 DEF dataVars, hostVars
  <2>2. TypesOK' /\ LockOK' /\ ItemsOK'
    BY <2>1 DEF IInv, TypesOK, DataTypes, HostTypes, LockOK, At, Archiver, ItemsOK, NothingLost, RowsKept
  <2>3. KeyOK'
    BY <2>1 DEF IInv, KeyOK, Installer
  <2>4. UpgradeSaved' = UpgradeSaved /\ SchedulesSaved' = SchedulesSaved /\ Upgrading' = Upgrading /\ Settled' = Settled
    BY <2>1 DEF UpgradeSaved, SchedulesSaved, Upgrading, Settled, Kept, Original
  <2>5. OriginalOK' /\ CleanOK'
    BY <2>1, <2>4 DEF IInv, MigrationOK, OriginalOK, CleanOK, NoPlaintextLeft, Original
  <2>6. PlacesOK'
    <3> SUFFICES ASSUME NEW p \in Starters, NEW i \in 1..13, At(p, {Order[i]})'
                 PROVE  StepOK(p, i)'
      BY DEF PlacesOK
    <3>1. StepOK(p, i)
      BY <2>1 DEF IInv, MigrationOK, PlacesOK, At
    <3>2. Passed(i)'
      BY <2>1, <2>4, <3>1 DEF StepOK, Passed
    <3>3. Due(Order[i], Upgrading) => Due(Order[i], Upgrading)'
      BY <2>1, <2>4 DEF Due
    <3> QED
      BY <2>1, <2>4, <3>1, <3>2, <3>3 DEF StepOK
  <2>7. ReleaseOK'
    BY <2>1 DEF IInv, ReleaseOK
  <2>8. DeployedOK'
    BY <2>1 DEF IInv, InstallOK, DeployedOK, Release
  <2>9. RunningOK'
    BY <2>1 DEF IInv, InstallOK, RunningOK, Alive, Release
  <2> QED
    BY <2>2, <2>3, <2>5, <2>6, <2>7, <2>8, <2>9 DEF IInv, MigrationOK, InstallOK
<1> QED
  BY <1>1, <1>2

LEMMA SpecIInv == Spec => []IInv
<1>1. Init => IInv
  BY InitIInv
<1>2. IInv /\ [Next]_<<dataVars, hostVars>> => IInv'
  BY NextIInv
<1> QED
  BY <1>1, <1>2, PTL DEF Spec

\* Every variable keeps its type: link and unit are of whole releases, and so is every
\* process of the program, whatever is installed, undone, killed or rebooted.
THEOREM HostTypeCorrect == Spec => []TypeOK
<1>1. ASSUME IInv
      PROVE  TypeOK
  <2>1. DatabaseTypeOK
    BY <1>1 DEF IInv, TypesOK, DataTypes, DatabaseTypeOK, Configurations
  <2>2. current \in Releases /\ unit \in Releases
    BY <1>1, HostAssumption DEF IInv, ReleaseOK, Releases, TypesOK, HostTypes
  <2>3. {t.files : t \in tars} \subseteq SUBSET Items
    BY <1>1 DEF IInv, TypesOK, HostTypes
  <2> QED
    BY <1>1, <2>1, <2>2, <2>3 DEF IInv, TypesOK, HostTypes, ReleaseOK, TypeOK
<1> QED
  BY <1>1, SpecIInv, PTL

\* migrate writes an encrypted snapshot before it changes an existing database, and the key
\* in the configuration opens it, whenever a start or the installer is killed.
THEOREM HostOriginalKept == Spec => []OriginalKept
<1>1. ASSUME IInv
      PROVE  OriginalKept
  BY <1>1 DEF IInv, MigrationOK, OriginalOK, KeyOK, OriginalKept, Settled, Kept, Early, Snapshots, Original
<1> QED
  BY <1>1, SpecIInv, PTL

\* migrate records version 2 only when rows, free pages and the old copy are clean.
THEOREM HostNoPlaintextLeft == Spec => []NoPlaintextLeft
<1>1. ASSUME IInv
      PROVE  NoPlaintextLeft
  BY <1>1 DEF IInv, MigrationOK, CleanOK
<1> QED
  BY <1>1, SpecIInv, PTL

\* Rows keep their files, in the archives of narsika-admin too, and what retention deletes
\* is in a whole archive: the service, maintenance and the backup exclude each other.
THEOREM HostNothingLost == Spec => []NothingLost
<1>1. ASSUME IInv
      PROVE  NothingLost
  BY <1>1 DEF IInv, ItemsOK
<1> QED
  BY <1>1, SpecIInv, PTL

\* After an unsuccessful deployment link, unit, activation and configuration are those
\* before it, and the failed release does not run.
THEOREM HostPreviousRestored == Spec => PreviousRestored
<1> DEFINE Undone ==
      (Installer("undo start") /\ install' = Nothing) =>
        /\ current' = install.previous /\ unit' = install.unit /\ enabled' = install.enabled
        /\ install.config.key # NoKey => config' = install.config
        /\ install.alone /\ Alive => boot["service"].release # Release
<1>1. ASSUME IInv, [Next]_<<dataVars, hostVars>>
      PROVE  [Undone]_<<dataVars, hostVars>>
  <2> SUFFICES ASSUME Next, Installer("undo start"), install' = Nothing
               PROVE  /\ current' = install.previous /\ unit' = install.unit /\ enabled' = install.enabled
                      /\ install.config.key # NoKey => config' = install.config
                      /\ install.alone /\ Alive => boot["service"].release # Release
    BY <1>1
  <2>1. /\ install # Nothing /\ install.at = "undo start"
        /\ DeployedOK /\ RunningOK /\ install \in Installs
    BY <1>1 DEF Installer, IInv, InstallOK, TypesOK, HostTypes
  <2>2. UNCHANGED <<config, current, unit, enabled>>
    <3>1. CASE Idle \/ Gone
      BY <3>1 DEF Idle, Gone
    <3>2. CASE ArchiverStarts
      BY <3>2 DEF ArchiverStarts, deployed
    <3>3. ~InstallStarts /\ ~Downloads /\ ~Stages /\ ~Switches /\ ~Raises
      BY <2>1 DEF InstallStarts, Downloads, Stages, Switches, Raises, Installer, Deploying
    <3>4. ~Stops /\ ~Configures /\ ~Writes /\ ~Bootstraps /\ ~Bootstrapped /\ ~Units /\ ~Enables
      BY <2>1 DEF Stops, Configures, Writes, Bootstraps, Bootstrapped, Units, Enables, Deploys, Installer
    <3>5. ~UndoesService /\ ~UndoesConfig /\ ~UndoesUnit /\ ~UndoesLink
      BY <2>1 DEF UndoesService, UndoesConfig, UndoesUnit, UndoesLink, Deploys, Installer
    <3> QED
      BY <3>1, <3>2, <3>3, <3>4, <3>5, InstallCases DEF Working
  <2> QED
    BY <2>1, <2>2 DEF DeployedOK, RunningOK, Undoing
<1>2. Spec => []IInv
  BY SpecIInv
<1> QED
  BY <1>1, <1>2, PTL DEF Spec, PreviousRestored

=============================================================================
