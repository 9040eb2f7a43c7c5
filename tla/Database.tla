------------------------------ MODULE Database ------------------------------
(***************************************************************************)
(* The data directory: what a starting process does to the database        *)
(* (create_app in app/__init__.py, app/migration.py), which files the      *)
(* service writes there, and the retention tool (tools/maintenance.py).    *)
(* All of them want worker.lock; any of them may be killed at any step.    *)
(*                                                                         *)
(* Abstractions.                                                           *)
(*   - db holds what the migration decides on or changes, a commit a step. *)
(*     The steps that would change nothing are passed over.                *)
(*   - The statements that add columns and tables commit one by one, but   *)
(*     are one step: what is missing is looked up again at every start.    *)
(*   - app.py and its one worker call create_app in turn; the second call  *)
(*     finds nothing to do and is the step Serves.                         *)
(*   - Duplicate addresses, which stop a start, are in no database here.   *)
(*   - A retention candidate is any row, for it may have any age.          *)
(***************************************************************************)
EXTENDS Integers, FiniteSets, FiniteSetsExt, Sequences

CONSTANTS
    Keys,     \* encryption keys
    NoKey,    \* none
    Torn,     \* a configuration file that was not written to its end
    Items,    \* backups and artifacts: a row and an encrypted file each
    Nothing   \* no file, no process, no holder of the lock

Starters == {"service", "bootstrap"}
Holders == Starters \union {"maintenance", "archiver"}

\* What the migration decides on: columns of before or after it, the tables of schedules,
\* secrets in rows and in free pages, the unique index, schema version, key marker, accounts.
Databases ==
    [columns : {"none", "old", "new"}, schedules : BOOLEAN, plain : BOOLEAN, residue : BOOLEAN, index : BOOLEAN,
     version : 0..2, key : Keys \union {NoKey}, users : BOOLEAN]

ASSUME DatabaseAssumption ==
    /\ NoKey \notin Keys /\ Torn \notin Keys /\ NoKey # Torn
    /\ Nothing \notin Holders \union [of : Databases, key : Keys]
    /\ IsFiniteSet(Items)

VARIABLES
    config,       \* the configuration file: its key, and the release that wrote the rest
    db,           \* schema and secrets of narsika.db
    oldCopy,      \* the plaintext snapshot narsika.db.before-v1.sqlite3 is there
    snapshot,     \* the encrypted snapshots
    partial,      \* those of which a .partial file is there
    lock,         \* who holds worker.lock
    boot,         \* processes that run create_app, with their place
    files, rows,  \* of Items
    archives,     \* what the whole retention archives hold
    maintenance,  \* the retention tool: its place and its candidates
    original,     \* history: the database at the beginning
    stored        \* history: items whose rows were ever committed

dataVars == <<config, db, oldCopy, snapshot, partial, lock, boot, files, rows, archives, maintenance, original, stored>>

\* The parts of it an action leaves alone.
history == <<original>>
schema == <<config, db, oldCopy, snapshot, partial, boot, original>>
retained == <<files, rows, archives, maintenance, stored>>

Snapshots == {"before-v2", "before-schedules", "before-v1"}

Empty == [columns |-> "none", schedules |-> FALSE, plain |-> FALSE, residue |-> FALSE, index |-> FALSE,
          version |-> 0, key |-> NoKey, users |-> FALSE]

\* An imported panel, the release before the schedules, this one.
Legacy == [Empty EXCEPT !.columns = "old", !.plain = TRUE, !.residue = TRUE, !.users = TRUE]
Earlier(k) == [columns |-> "new", schedules |-> FALSE, plain |-> FALSE, residue |-> FALSE, index |-> TRUE,
               version |-> 2, key |-> k, users |-> TRUE]
Recent(k) == [Earlier(k) EXCEPT !.schedules = TRUE]

DatabaseInit ==
    /\ \E k \in Keys :
        \/ db = Empty /\ oldCopy = FALSE /\ config = [key |-> NoKey, release |-> 0]
        \/ db = Legacy /\ oldCopy \in BOOLEAN /\ config = [key |-> k, release |-> 0]
        \/ db \in {Earlier(k), Recent(k)} /\ oldCopy = FALSE /\ config = [key |-> k, release |-> 1]
    /\ snapshot = [n \in Snapshots |-> Nothing] /\ partial = {}
    /\ lock = Nothing /\ boot = [p \in Starters |-> Nothing]
    /\ files = {} /\ rows = {} /\ archives = {} /\ maintenance = Nothing
    /\ original = db /\ stored = {}

-----------------------------------------------------------------------------
(* Starting: create_app under startup_guard.                               *)

\* Mutant of Order: the version is recorded before the data are cleaned.
OrderVersionFirst ==
    <<"before-v2", "before-schedules", "alter", "create", "schedules", "move", "index", "version", "before-v1", "unlink",
      "clear", "key", "account">>

\* Mutant of Order: the schema is extended before the snapshots.
OrderAlterFirst ==
    <<"alter", "before-v2", "before-schedules", "create", "schedules", "move", "index", "before-v1", "unlink", "clear",
      "version", "key", "account">>

\* migrate, then the key marker and the first account.
Order ==
    <<"before-v2", "before-schedules", "alter", "create", "schedules", "move", "index", "before-v1", "unlink", "clear",
      "version", "key", "account">>

Upgrading == db.columns # "none" /\ (db.columns = "old" \/ db.version < 2)

Due(step, upgrading) ==
    CASE step = "before-v2"        -> upgrading /\ snapshot[step] = Nothing
      [] step = "before-schedules" -> db.columns # "none" /\ ~db.schedules /\ snapshot[step] = Nothing
      [] step = "alter"            -> db.columns = "old"
      [] step = "create"           -> db.columns = "none"
      [] step = "schedules"        -> ~db.schedules
      [] step = "move"             -> db.plain
      [] step = "index"            -> ~db.index
      [] step = "before-v1"        -> oldCopy /\ snapshot[step] = Nothing
      [] step = "unlink"           -> oldCopy
      [] step = "clear"            -> upgrading
      [] step = "version"          -> db.version < 2
      [] step = "key"              -> db.key = NoKey
      [] step = "account"          -> ~db.users

\* The place after the i-th step.
After(i, upgrading) ==
    LET due == {j \in (i + 1)..Len(Order) : Due(Order[j], upgrading)}
    IN  IF due = {} THEN "open" ELSE Order[Min(due)]

\* The process goes on from the i-th step; at the end startup_guard lets the lock go.
Goes(p, i, upgrading) ==
    LET place == After(i, upgrading) IN
    /\ boot' = [boot EXCEPT ![p] = [@ EXCEPT !.at = place, !.upgrading = upgrading, !.writing = FALSE]]
    /\ lock' = IF place = "open" THEN Nothing ELSE p

Position(step) == CHOOSE i \in 1..Len(Order) : Order[i] = step

At(p, steps) == boot[p] # Nothing /\ boot[p].at \in steps

\* A new process, with the key of the configuration it loads.
Started(p, release) ==
    [boot EXCEPT ![p] = [at |-> "guard", key |-> config.key, release |-> release, upgrading |-> FALSE, writing |-> FALSE]]

\* The key is validated before anything is changed.
KeyFits(key) == key \in Keys /\ db.key \in {NoKey, key}

Guards(p) ==
    /\ At(p, {"guard"}) /\ lock = Nothing /\ KeyFits(boot[p].key)
    /\ Goes(p, 0, Upgrading)
    /\ UNCHANGED <<config, db, oldCopy, snapshot, partial, retained, history>>

\* encrypted_snapshot: the .partial file is opened exclusively ...
SnapshotStarts(p) ==
    /\ At(p, Snapshots) /\ ~boot[p].writing /\ boot[p].at \notin partial
    /\ boot' = [boot EXCEPT ![p].writing = TRUE]
    /\ partial' = partial \union {boot[p].at}
    /\ UNCHANGED <<config, db, oldCopy, snapshot, lock, retained, history>>

\* ... and renamed when its content is on the disk.
SnapshotEnds(p) ==
    LET n == boot[p].at IN
    /\ At(p, Snapshots) /\ boot[p].writing
    /\ snapshot' = [snapshot EXCEPT ![n] = [of |-> IF n = "before-v1" THEN Nothing ELSE db, key |-> boot[p].key]]
    /\ partial' = partial \ {n}
    /\ Goes(p, Position(n), boot[p].upgrading)
    /\ UNCHANGED <<config, db, oldCopy, retained, history>>

Done(step, key) ==
    CASE step \in {"alter", "create"} -> [db EXCEPT !.columns = "new"]
      [] step = "schedules"           -> [db EXCEPT !.schedules = TRUE]
      [] step = "move"                -> [db EXCEPT !.plain = FALSE]
      [] step = "index"               -> [db EXCEPT !.index = TRUE]
      [] step = "unlink"              -> db
      [] step = "clear"               -> [db EXCEPT !.residue = FALSE]
      [] step = "version"             -> [db EXCEPT !.version = 2]
      [] step = "key"                 -> [db EXCEPT !.key = key]
      [] step = "account"             -> [db EXCEPT !.users = TRUE]

\* The first account needs the password that only tools/bootstrap.py gives.
Commits(p) ==
    LET step == boot[p].at IN
    /\ boot[p] # Nothing /\ step \in Range(Order) \ Snapshots
    /\ step = "account" => p = "bootstrap"
    /\ db' = Done(step, boot[p].key)
    /\ oldCopy' = (oldCopy /\ step # "unlink")
    /\ Goes(p, Position(step), boot[p].upgrading)
    /\ UNCHANGED <<config, snapshot, partial, retained, history>>

\* JobManager takes the lock again, and keeps it.
Serves ==
    /\ At("service", {"open"}) /\ lock = Nothing
    /\ boot' = [boot EXCEPT !["service"].at = "serving"]
    /\ lock' = "service"
    /\ UNCHANGED <<config, db, oldCopy, snapshot, partial, retained, history>>

\* tools/bootstrap.py takes it again to record that it shows the password.
Provisions ==
    /\ At("bootstrap", {"open"}) /\ lock = Nothing
    /\ boot' = [boot EXCEPT !["bootstrap"].at = "done"]
    /\ UNCHANGED <<config, db, oldCopy, snapshot, partial, lock, retained, history>>

Dead(p) == [boot EXCEPT ![p] = Nothing]
Freed(p) == IF lock = p THEN Nothing ELSE lock

\* The lock is busy, the key wrong, the .partial file of a killed process in the way,
\* another reader keeps the WAL, there is no account.
StartFails(p) ==
    /\ \/ At(p, {"guard", "open"}) /\ lock # Nothing
       \/ At(p, {"guard"}) /\ ~KeyFits(boot[p].key)
       \/ At(p, Snapshots) /\ ~boot[p].writing /\ boot[p].at \in partial
       \/ At(p, {"clear"})
       \/ p = "service" /\ At(p, {"account"})
    /\ boot' = Dead(p) /\ lock' = Freed(p)
    /\ UNCHANGED <<config, db, oldCopy, snapshot, partial, retained, history>>

-----------------------------------------------------------------------------
(* Items of the service: the file is written before its row is committed.  *)

Saves(i) ==
    /\ At("service", {"serving"}) /\ i \notin files \union stored
    /\ files' = files \union {i}
    /\ UNCHANGED <<schema, lock, rows, archives, maintenance, stored>>

Records(i) ==
    /\ At("service", {"serving"}) /\ i \in files \ stored
    /\ rows' = rows \union {i} /\ stored' = stored \union {i}
    /\ UNCHANGED <<schema, lock, files, archives, maintenance>>

-----------------------------------------------------------------------------
(* Retention, one transaction from the selection to the deletion.          *)

Exclusive == lock = Nothing

\* With a candidate whose file is missing nothing is done.
RetentionStarts(candidates) ==
    /\ maintenance = Nothing /\ Exclusive
    /\ KeyFits(config.key) /\ db.key # NoKey
    /\ candidates # {} /\ candidates \subseteq rows \intersect files
    /\ lock' = "maintenance"
    /\ maintenance' = [at |-> "archive", items |-> candidates]
    /\ UNCHANGED <<schema, files, rows, archives, stored>>

Maintains(at, next) ==
    /\ maintenance # Nothing /\ maintenance.at = at
    /\ maintenance' = [maintenance EXCEPT !.at = next]
    /\ UNCHANGED <<schema, lock, stored>>

Archives ==
    /\ Maintains("archive", "purge")
    /\ archives' = archives \union maintenance.items
    /\ UNCHANGED <<files, rows>>

\* Mutant of Purges: the files go first.
PurgesLast ==
    /\ Maintains("purge", "unlink")
    /\ files' = files \ maintenance.items
    /\ UNCHANGED <<rows, archives>>

Purges ==
    /\ Maintains("purge", "unlink")
    /\ rows' = rows \ maintenance.items
    /\ UNCHANGED <<files, archives>>

Unlinks(i) ==
    /\ Maintains("unlink", "unlink")
    /\ i \in (maintenance.items \intersect files) \ rows
    /\ files' = files \ {i}
    /\ UNCHANGED <<rows, archives>>

RetentionEnds ==
    /\ maintenance # Nothing /\ maintenance.at = "unlink" /\ maintenance.items \intersect files \subseteq rows
    /\ maintenance' = Nothing /\ lock' = Freed("maintenance")
    /\ UNCHANGED <<schema, files, rows, archives, stored>>

DatabaseNext ==
    \/ \E p \in Starters : Guards(p) \/ SnapshotStarts(p) \/ SnapshotEnds(p) \/ Commits(p) \/ StartFails(p)
    \/ Serves \/ Provisions
    \/ \E i \in Items : Saves(i) \/ Records(i) \/ Unlinks(i)
    \/ Archives \/ Purges \/ RetentionEnds

-----------------------------------------------------------------------------
(* Properties.                                                             *)

DatabaseTypeOK ==
    /\ config.key \in Keys \union {NoKey, Torn} /\ config.release \in Nat
    /\ db \in Databases /\ oldCopy \in BOOLEAN
    /\ partial \subseteq Snapshots /\ lock \in Holders \union {Nothing}
    /\ files \subseteq Items /\ rows \subseteq Items /\ archives \subseteq Items /\ stored \subseteq Items

\* "A verified encrypted snapshot is written before existing tables are changed", and
\* whatever was killed on the way, the key in the configuration opens it and the data.
OriginalKept ==
    /\ original.columns # "none" /\ db # original =>
        \E n \in Snapshots : snapshot[n] = [of |-> original, key |-> config.key]
    /\ db.key \in {NoKey, config.key}

\* "Migration is repeatable and records schema version 2 after cleanup": a database of
\* version 2 has no plaintext in its rows, its free pages or a snapshot beside it.
NoPlaintextLeft ==
    db.version = 2 => ~db.plain /\ ~db.residue /\ ~oldCopy /\ db.index

\* "A crash can only leave an extra encrypted file": every row has its file, and what
\* has no row any more is in a whole archive.
RowsKept ==
    /\ rows \subseteq files
    /\ stored \ rows \subseteq archives
=============================================================================
