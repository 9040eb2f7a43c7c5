-------------------------------- MODULE Host --------------------------------
(***************************************************************************)
(* The host around the data directory: systemd and its unit, the installer *)
(* and its upgrades (tools/install_native.py, install_collections.py,      *)
(* configure.py, bootstrap.py), the administrator's offline backup         *)
(* (tools/admin_native.py).  Kills and reboots hit any step of any of them.*)
(*                                                                         *)
(* Abstractions.                                                           *)
(*   - A release is a number; what it writes is known by it.  Every one    *)
(*     migrates like this one.                                             *)
(*   - A step of the installer raises before it changes anything; `enable  *)
(*     --now' that raises afterwards is a health check that fails.         *)
(*   - Questions, accounts, ownership and UFW rules are left out, and a    *)
(*     configuration is its key and the release that wrote the rest.       *)
(***************************************************************************)
EXTENDS Database

CONSTANTS
    Attempts,     \* downloads of a collection
    MaxInstalls,  \* bound of the runs of the installer
    MaxCommands,  \* bound of all commands of administrators
    MaxKills      \* bound of kills and reboots

ASSUME HostAssumption == {Attempts, MaxInstalls, MaxCommands, MaxKills} \subseteq Nat

VARIABLES
    current,   \* release /opt/narsika/current points to
    unit,      \* release whose unit and narsika-admin are installed
    enabled,   \* the unit starts at boot
    wanted,    \* systemd starts the service again when it ends
    whole,     \* releases with all their collections
    install,   \* the installer: its place, and what it remembers
    archiver,  \* narsika-admin backup
    tars,      \* the archives it made
    installs, kills, chores

hostVars == <<current, unit, enabled, wanted, whole, install, archiver, tars, installs, kills, chores>>
systemd == <<enabled, wanted>>
deployed == <<current, unit>>
counters == <<installs, kills, chores>>

Init ==
    /\ DatabaseInit
    /\ current = config.release /\ unit = current /\ enabled = (current # 0) /\ wanted = enabled
    /\ whole = {current} \ {0}
    /\ install = Nothing /\ archiver = Nothing /\ tars = {}
    /\ installs = 0 /\ kills = 0 /\ chores = 0

Alive == boot["service"] # Nothing

-----------------------------------------------------------------------------
(* systemd.                                                                *)

\* Started by hand, at boot, or because it failed; the start limit may end this for good.
Launches ==
    /\ wanted /\ ~Alive /\ current # 0 /\ unit # 0
    /\ boot' = Started("service", current)
    /\ UNCHANGED <<config, db, oldCopy, snapshot, partial, lock, retained, history, hostVars>>

\* What systemctl stop leaves, in the middle of a migration too.
Stopped == /\ boot' = Dead("service") /\ lock' = Freed("service")
Untouched == UNCHANGED <<boot, lock>>

-----------------------------------------------------------------------------
(* narsika-admin backup, under `stopped'.                                  *)

Chore == installs + chores < MaxCommands /\ chores' = chores + 1

ArchiverStarts ==
    /\ archiver = Nothing /\ current # 0 /\ Chore
    /\ archiver' = [at |-> "lock", active |-> Alive, rows |-> {}]
    /\ wanted' = (wanted /\ ~Alive) /\ Stopped
    /\ install' = IF install = Nothing THEN install ELSE [install EXCEPT !.alone = FALSE]
    /\ UNCHANGED <<config, db, oldCopy, snapshot, partial, retained, history, deployed, enabled, whole, tars, installs, kills>>

Archiver(at) == archiver # Nothing /\ archiver.at = at

ArchiverLocks ==
    /\ Archiver("lock")
    /\ IF Exclusive /\ config.key # NoKey /\ db.columns # "none"
       THEN lock' = "archiver" /\ archiver' = [archiver EXCEPT !.at = "copy", !.rows = rows]
       ELSE archiver' = [archiver EXCEPT !.at = "start"] /\ UNCHANGED lock
    /\ UNCHANGED <<schema, retained, deployed, systemd, whole, install, tars, counters>>

ArchiverCopies ==
    /\ Archiver("copy")
    /\ tars' = tars \union {[rows |-> archiver.rows, files |-> files]}
    /\ lock' = Freed("archiver") /\ archiver' = [archiver EXCEPT !.at = "start"]
    /\ UNCHANGED <<schema, retained, deployed, systemd, whole, install, counters>>

ArchiverEnds ==
    /\ Archiver("start")
    /\ archiver' = Nothing /\ wanted' = (wanted \/ archiver.active)
    /\ UNCHANGED <<dataVars, deployed, enabled, whole, install, tars, counters>>

Retention ==
    /\ Chore
    /\ \E candidates \in SUBSET Items : RetentionStarts(candidates)
    /\ UNCHANGED <<deployed, systemd, whole, install, archiver, tars, installs, kills>>

-----------------------------------------------------------------------------
(* The installer, under install.lock.                                      *)

Installer(at) == install # Nothing /\ install.at = at

Release == installs + 1

InstallStarts ==
    /\ install = Nothing /\ installs < MaxInstalls /\ installs + chores < MaxCommands
    /\ db.columns # "none" => config.key # NoKey
    /\ installs' = installs + 1
    /\ install' = [at |-> "download", attempt |-> 1, active |-> Alive, enabled |-> enabled, previous |-> current,
                   config |-> config, unit |-> unit, switched |-> FALSE, alone |-> archiver = Nothing]
    /\ UNCHANGED <<dataVars, deployed, systemd, whole, archiver, tars, kills, chores>>

\* obtain: only a transient failure is tried again, and nothing was touched so far.
Downloads ==
    /\ Installer("download")
    /\ \/ install.attempt < Attempts /\ install' = [install EXCEPT !.attempt = @ + 1]
       \/ install' = [install EXCEPT !.at = "verify"]
       \/ install' = Nothing
    /\ UNCHANGED <<dataVars, deployed, systemd, whole, archiver, tars, counters>>

\* Mutant of Verified: they stay where they were verified.
VerifiedInPlace == whole

Verified == whole \union {Release}

\* The collections are renamed into the release when they are verified and patched;
\* then what an unsuccessful deployment has to restore is read.
Stages ==
    /\ Installer("verify")
    /\ \/ install' = Nothing /\ UNCHANGED whole
       \/ /\ whole' = Verified
          /\ install' = [install EXCEPT !.at = "stop", !.config = config, !.unit = unit]
    /\ UNCHANGED <<dataVars, deployed, systemd, archiver, tars, counters>>

\* The installer goes on; the data, then the host but for `enabled' and `wanted', stay.
Deploys(at, next) ==
    /\ Installer(at)
    /\ install' = [install EXCEPT !.at = next]
    /\ UNCHANGED <<db, oldCopy, snapshot, partial, retained, history, whole, archiver, tars, counters>>

Stops ==
    /\ Deploys("stop", "configure")
    /\ IF install.active THEN Stopped /\ wanted' = FALSE ELSE Untouched /\ UNCHANGED wanted
    /\ UNCHANGED <<config, deployed, enabled>>

UsedKeys == {config.key, db.key} \union {boot[p].key : p \in {q \in Starters : boot[q] # Nothing}}

\* configure.py creates the file, then writes it; an existing one is kept.
Configures ==
    \/ /\ Deploys("configure", "generate") /\ config.key = NoKey
       /\ config' = [config EXCEPT !.key = Torn]
       /\ Untouched /\ UNCHANGED <<deployed, systemd>>
    \/ /\ Deploys("generate", "write")
       /\ \E k \in Keys \ UsedKeys : config' = [config EXCEPT !.key = k]
       /\ Untouched /\ UNCHANGED <<deployed, systemd>>
    \/ /\ Deploys("configure", "write") /\ config.key # NoKey
       /\ Untouched /\ UNCHANGED <<config, deployed, systemd>>

\* write_private, then configure.py --check in the step Bootstraps.
Writes ==
    /\ Deploys("write", "check")
    /\ config' = [config EXCEPT !.release = Release]
    /\ Untouched /\ UNCHANGED <<deployed, systemd>>

\* tools/bootstrap.py leaves existing accounts, and then the migration, alone.
Bootstraps ==
    /\ config.key \in Keys
    /\ IF db.users THEN Deploys("check", "switch") /\ Untouched
       ELSE /\ Deploys("check", "bootstrap") /\ boot["bootstrap"] = Nothing
            /\ boot' = Started("bootstrap", Release) /\ UNCHANGED lock
    /\ UNCHANGED <<config, deployed, systemd>>

Bootstrapped ==
    /\ At("bootstrap", {"done"}) /\ Deploys("bootstrap", "switch")
    /\ boot' = Dead("bootstrap") /\ UNCHANGED lock
    /\ UNCHANGED <<config, deployed, systemd>>

Switches ==
    /\ Installer("switch")
    /\ install' = [install EXCEPT !.at = "unit", !.switched = TRUE]
    /\ current' = Release
    /\ UNCHANGED <<dataVars, unit, systemd, whole, archiver, tars, counters>>

Units ==
    /\ Deploys("unit", "enable")
    /\ unit' = Release
    /\ Untouched /\ UNCHANGED <<config, current, systemd>>

Enables ==
    /\ Deploys("enable", "health")
    /\ enabled' = TRUE /\ wanted' = TRUE
    /\ Untouched /\ UNCHANGED <<config, deployed>>

\* /healthz answers 200 while the dispatcher runs.
Healthy ==
    /\ Installer("health") /\ At("service", {"serving"})
    /\ install' = Nothing
    /\ UNCHANGED <<dataVars, deployed, systemd, whole, archiver, tars, counters>>

Deploying == {"stop", "configure", "generate", "write", "check", "bootstrap", "switch", "unit", "enable", "health"}

Raises ==
    /\ install # Nothing /\ install.at \in Deploying
    /\ install.at = "bootstrap" => boot["bootstrap"] = Nothing
    /\ install' = [install EXCEPT !.at = "undo"]
    /\ UNCHANGED <<dataVars, deployed, systemd, whole, archiver, tars, counters>>

UndoesService ==
    /\ Deploys("undo", "undo config")
    /\ IF install.switched
       THEN Stopped /\ wanted' = FALSE /\ enabled' = (enabled /\ install.enabled)
       ELSE Untouched /\ UNCHANGED systemd
    /\ UNCHANGED <<config, deployed>>

\* A configuration that was not there is kept, for the data that it opens.
Restored == IF install.config.key = NoKey THEN config ELSE install.config

UndoesConfig ==
    /\ Deploys("undo config", "undo unit")
    /\ config' = Restored
    /\ Untouched /\ UNCHANGED <<deployed, systemd>>

UndoesUnit ==
    /\ Deploys("undo unit", "undo link")
    /\ unit' = IF install.switched THEN install.unit ELSE unit
    /\ Untouched /\ UNCHANGED <<config, current, systemd>>

\* Mutant of Relinked: a first release stays linked.
RelinkedIfAny == IF install.switched /\ install.previous # 0 THEN install.previous ELSE current

Relinked == IF install.switched THEN install.previous ELSE current

UndoesLink ==
    /\ Deploys("undo link", "undo start")
    /\ current' = Relinked
    /\ Untouched /\ UNCHANGED <<config, unit, systemd>>

UndoEnds ==
    /\ Installer("undo start")
    /\ install' = Nothing /\ wanted' = (wanted \/ install.active)
    /\ UNCHANGED <<dataVars, deployed, enabled, whole, archiver, tars, counters>>

-----------------------------------------------------------------------------
(* Kills.                                                                  *)

Kill == kills < MaxKills /\ kills' = kills + 1

KillStart(p) ==
    /\ boot[p] # Nothing /\ Kill
    /\ boot' = Dead(p) /\ lock' = Freed(p)
    /\ UNCHANGED <<config, db, oldCopy, snapshot, partial, retained, history, deployed, systemd, whole, install, archiver,
                   tars, installs, chores>>

\* With its terminal the installer loses its children.
KillInstall ==
    /\ install # Nothing /\ Kill
    /\ install' = Nothing /\ boot' = Dead("bootstrap") /\ lock' = Freed("bootstrap")
    /\ UNCHANGED <<config, db, oldCopy, snapshot, partial, retained, history, deployed, systemd, whole, archiver,
                   tars, installs, chores>>

KillChore ==
    /\ Kill
    /\ \/ maintenance # Nothing /\ maintenance' = Nothing /\ lock' = Freed("maintenance") /\ UNCHANGED archiver
       \/ archiver # Nothing /\ archiver' = Nothing /\ lock' = Freed("archiver") /\ UNCHANGED maintenance
    /\ UNCHANGED <<schema, files, rows, archives, stored, deployed, systemd, whole, install, tars, installs, chores>>

Reboot ==
    /\ Kill
    /\ boot' = [p \in Starters |-> Nothing] /\ lock' = Nothing
    /\ maintenance' = Nothing /\ archiver' = Nothing /\ install' = Nothing
    /\ wanted' = enabled
    /\ UNCHANGED <<config, db, oldCopy, snapshot, partial, history, files, rows, archives, stored, deployed, enabled, whole,
                   tars, installs, chores>>

Next ==
    \/ DatabaseNext /\ UNCHANGED hostVars
    \/ Launches
    \/ ArchiverStarts \/ ArchiverLocks \/ ArchiverCopies \/ ArchiverEnds \/ Retention
    \/ InstallStarts \/ Downloads \/ Stages \/ Stops \/ Configures \/ Writes \/ Bootstraps \/ Bootstrapped
    \/ Switches \/ Units \/ Enables \/ Healthy
    \/ Raises \/ UndoesService \/ UndoesConfig \/ UndoesUnit \/ UndoesLink \/ UndoEnds
    \/ \E p \in Starters : KillStart(p)
    \/ KillInstall \/ KillChore \/ Reboot

Spec == Init /\ [][Next]_<<dataVars, hostVars>>

-----------------------------------------------------------------------------
(* Properties.                                                             *)

Releases == 0..(MaxInstalls + 1)

TypeOK ==
    /\ DatabaseTypeOK
    /\ current \in Releases /\ unit \in Releases /\ {enabled, wanted} \subseteq BOOLEAN
    /\ {current, unit} \subseteq whole \union {0}
    /\ \A p \in Starters : boot[p] # Nothing => boot[p].release \in whole
    /\ {t.files : t \in tars} \subseteq SUBSET Items
    /\ installs <= MaxInstalls /\ kills <= MaxKills /\ installs + chores <= MaxCommands

\* Rows keep their files, in the offline backups too: who copies them and who deletes
\* them wait for each other.
NothingLost ==
    /\ RowsKept
    /\ \A t \in tars : t.rows \subseteq t.files

\* "Restores the previous release if the new one fails its health check": after an
\* unsuccessful deployment link, unit, activation and configuration are as they were, and
\* unless an offline backup overlapped, the release that failed does not run.
PreviousRestored ==
    [][(Installer("undo start") /\ install' = Nothing) =>
        /\ current' = install.previous /\ unit' = install.unit /\ enabled' = install.enabled
        /\ install.config.key # NoKey => config' = install.config
        /\ install.alone /\ Alive => boot["service"].release # Release]_<<dataVars, hostVars>>

\* "Migration is repeatable": a snapshot that nobody is writing is not in the way of a start.
MigrationRepeats ==
    lock = Nothing => \A n \in partial : snapshot[n] # Nothing
=============================================================================
