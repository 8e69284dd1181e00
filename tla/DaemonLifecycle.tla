---------------------------- MODULE DaemonLifecycle ----------------------------
(* Daemons of one data directory and the commands that start, stop, restart,   *)
(* update and restore them: the instance lock, the published metadata, the      *)
(* installation key, schema migrations and the database file.  Processes die    *)
(* anywhere, and commands of several users run side by side.                    *)
EXTENDS Integers, FiniteSets

CONSTANTS
    Daemons,    \* processes; each is started once
    Legacy,     \* those of an earlier release
    Clients,    \* CLI commands and the desktop application
    None,
    Target,     \* TARGET_SCHEMA_VERSION
    MaxContent, \* bound: commits in the database
    MaxOps      \* bound: commands given

ASSUME DaemonAssumption ==
    /\ None \notin Daemons /\ Legacy \subseteq Daemons
    /\ Target \in Nat \ {0, 1}
    /\ None \notin [version : Nat, main : Nat, wal : Nat]  \* nor a database

\* One daemon of the earlier release is there at most.
ASSUME LegacyAssumption == \A d, e \in Legacy : d = e

VARIABLES
    lock,       \* the daemon that holds the lock of the data directory
    runtime,    \* the published metadata: its daemon, or None
    daemon,     \* daemon[d]: where run() is, and its key
    keyFile,    \* master.key, or None
    keyring,    \* the entry in the Secret Service, or None
    blobs,      \* the keys blobs are encrypted with
    db,         \* the database file and its write-ahead log
    backups,    \* pre-migration backups
    client,     \* client[c]: the command and where it is
    orderly,    \* fixed: commands come one after the other, waits are long enough,
                \* nothing dies while it stops
    ops         \* bound: commands so far

keyVars == <<keyFile, keyring, blobs>>
fileVars == <<db, backups>>
vars == <<lock, runtime, daemon, keyVars, fileVars, client, orderly, ops>>

\* db is a record of the schema version, how much is committed in the main file,
\* and how much more in the log.
Content == db.main + db.wal
NoCommand == [op |-> "none", phase |-> "idle", running |-> FALSE]

\* The version a daemon's release migrates to.
SchemaOf(d) == IF d \in Legacy THEN Target - 1 ELSE Target

Starting == {"lock", "key", "open", "backup", "migrate", "bind"}
Stopping == {"draining", "closing", "unpublish", "leaving", "lingers"}
Phase == {"off", "exited", "serving"} \cup Starting \cup Stopping

HoldsLock == (Starting \ {"lock"}) \cup {"serving"} \cup (Stopping \ {"lingers"})
\* The database is open; the readers are closed after the writer.
Opens == {"backup", "migrate", "bind", "serving"} \cup Stopping

In(d, phase) == daemon[d].phase = phase
Goes(d, phase) == daemon' = [daemon EXCEPT ![d].phase = phase]

\* The process is gone: the system releases the lock, all else stays as it is.
Gone(d) ==
    /\ lock' = IF lock = d THEN None ELSE lock
    /\ Goes(d, "exited")

\* Waits, and the start of a process, take longer than what they wait for.
Settled == \A d \in Daemons : daemon[d].phase \notin Starting \cup Stopping
Leaving == \E d \in Daemons : daemon[d].phase \in {"leaving", "lingers"}
-----------------------------------------------------------------------------
(* run() *)

\* Faulty variant: whoever starts has the lock.
AlwaysFree(d) == TRUE

TryLock(d) == lock = None

Locked(d) ==
    /\ TryLock(d)
    /\ lock' = d /\ Goes(d, "key")

\* Faulty variant: it waits for the lock.
AcquireOrWait(d) ==
    /\ In(d, "lock")
    /\ Locked(d)
    /\ UNCHANGED <<runtime, keyVars, fileVars, client, orderly, ops>>

\* A second instance gives up at once.
AcquireLock(d) ==
    /\ In(d, "lock")
    /\ orderly => ~Leaving
    /\ \/ Locked(d)
       \/ ~TryLock(d) /\ Goes(d, "exited") /\ UNCHANGED lock
    /\ UNCHANGED <<runtime, keyVars, fileVars, client, orderly, ops>>

\* Faulty variant: a key that is not there is made.
AlwaysFirst == TRUE

\* require_first_run
FirstRun == db = None /\ blobs = {}

HasKey(d, key) ==
    /\ daemon' = [daemon EXCEPT ![d] = [phase |-> "open", key |-> key]]
    /\ UNCHANGED lock

\* A key file goes before the Secret Service, which may be locked; old data get no
\* new key.
LoadKey(d) ==
    /\ In(d, "key")
    /\ \E unlocked \in BOOLEAN :
         \/ keyFile # None /\ HasKey(d, keyFile) /\ UNCHANGED <<keyFile, keyring>>
         \/ /\ keyFile = None /\ unlocked /\ keyring # None
            /\ HasKey(d, keyring) /\ UNCHANGED <<keyFile, keyring>>
         \/ /\ keyFile = None /\ unlocked /\ keyring = None /\ FirstRun
            /\ keyring' = d /\ HasKey(d, d) /\ UNCHANGED keyFile
         \/ /\ keyFile = None /\ ~unlocked /\ FirstRun
            /\ keyFile' = d /\ HasKey(d, d) /\ UNCHANGED keyring
         \/ /\ keyFile = None /\ (unlocked => keyring = None) /\ ~FirstRun
            /\ Gone(d) /\ UNCHANGED <<keyFile, keyring>>
    /\ UNCHANGED <<runtime, blobs, fileVars, client, orderly, ops>>

Opened == IF db = None THEN [version |-> 0, main |-> 0, wal |-> 0] ELSE db

\* open_writer: a newer schema is refused.
OpenStore(d) ==
    /\ In(d, "open")
    /\ db' = Opened
    /\ IF Opened.version > SchemaOf(d) THEN Gone(d)
       ELSE /\ Goes(d, CASE Opened.version = SchemaOf(d) -> "bind"
                         [] Opened.version = 0 -> "migrate"
                         [] OTHER -> "backup")
            /\ UNCHANGED lock
    /\ UNCHANGED <<runtime, keyVars, backups, client, orderly, ops>>

\* Faulty variant: one backup of a version is enough.
BackupOnce == IF \E b \in backups : b.version = db.version THEN backups
              ELSE backups \cup {[version |-> db.version, content |-> Content]}

\* VACUUM INTO reads the file and the log.
WithBackup == backups \cup {[version |-> db.version, content |-> Content]}

BackUp(d) ==
    /\ In(d, "backup")
    /\ backups' = WithBackup
    /\ Goes(d, "migrate")
    /\ UNCHANGED <<lock, runtime, keyVars, db, client, orderly, ops>>

\* apply_migration: each is a transaction with its version; one that is there already
\* fails.
Migrate(d) ==
    /\ In(d, "migrate")
    /\ IF db.version < SchemaOf(d)
       THEN /\ db' = [db EXCEPT !.version = @ + 1]
            /\ Goes(d, IF db.version + 1 = SchemaOf(d) THEN "bind" ELSE "migrate")
            /\ UNCHANGED lock
       ELSE Gone(d) /\ UNCHANGED db
    /\ UNCHANGED <<runtime, keyVars, backups, client, orderly, ops>>

\* The port is bound, the metadata published, and requests are served.
Publish(d) ==
    /\ In(d, "bind")
    /\ runtime' = d
    /\ Goes(d, "serving")
    /\ UNCHANGED <<lock, keyVars, fileVars, client, orderly, ops>>

\* Requests have ended; coordinator and pipeline stop, then the writer.
Drained(d) ==
    /\ In(d, "draining")
    /\ Goes(d, "closing")
    /\ UNCHANGED <<lock, runtime, keyVars, fileVars, client, orderly, ops>>

CloseStore(d) ==
    /\ In(d, "closing")
    /\ Goes(d, "unpublish")
    /\ UNCHANGED <<lock, runtime, keyVars, fileVars, client, orderly, ops>>

\* remove_runtime_metadata_for_pid
Unpublish(d) ==
    /\ In(d, "unpublish")
    /\ runtime' = IF runtime = d THEN None ELSE runtime
    /\ Goes(d, "leaving")
    /\ UNCHANGED <<lock, keyVars, fileVars, client, orderly, ops>>

\* run() returns: the lock goes last.
ReleaseLock(d) ==
    /\ In(d, "leaving")
    /\ lock' = None
    /\ Goes(d, "lingers")
    /\ UNCHANGED <<runtime, keyVars, fileVars, client, orderly, ops>>

\* The last connection moves the log into the file.
Checkpointed == [db EXCEPT !.main = @ + db.wal, !.wal = 0]

\* Tasks that still have readers are dropped with the runtime.
Exit(d) ==
    /\ In(d, "lingers")
    /\ db' = IF \E e \in Daemons \ {d} : daemon[e].phase \in Opens THEN db ELSE Checkpointed
    /\ Goes(d, "exited")
    /\ UNCHANGED <<lock, runtime, keyVars, backups, client, orderly, ops>>

\* A step of the start failed, or the process died.
Crash(d) ==
    /\ daemon[d].phase \notin {"off", "exited"}
    /\ orderly => daemon[d].phase \notin Stopping
    /\ Gone(d)
    /\ UNCHANGED <<runtime, keyVars, fileVars, client, orderly, ops>>

Run(d) == \/ AcquireLock(d) \/ LoadKey(d) \/ OpenStore(d) \/ BackUp(d) \/ Migrate(d) \/ Publish(d)
          \/ Drained(d) \/ CloseStore(d) \/ Unpublish(d) \/ ReleaseLock(d) \/ Exit(d)

\* What it serves: commits, with blobs under its key.
Serve(d) ==
    /\ In(d, "serving")
    /\ Content < MaxContent
    /\ db' = [db EXCEPT !.wal = @ + 1]
    /\ blobs' = blobs \cup {daemon[d].key}
    /\ UNCHANGED <<lock, runtime, daemon, keyFile, keyring, backups, client, orderly, ops>>
-----------------------------------------------------------------------------
(* Commands *)

Healthy == runtime # None /\ In(runtime, "serving")

At(c, phase) == client[c].phase = phase
Continues(c, phase) == client' = [client EXCEPT ![c].phase = phase]
Ends(c) == client' = [client EXCEPT ![c] = NoCommand]

FirstPhase(op) == CASE op \in {"start", "upgrade"} -> "check"
                    [] op = "restore" -> "look"
                    [] OTHER -> "stop"

\* A command begins.
Command(c) ==
    /\ client[c] = NoCommand
    /\ orderly => Settled /\ \A e \in Clients : client[e] = NoCommand
    /\ ops < MaxOps /\ ops' = ops + 1
    /\ \E op \in {"start", "stop", "restart", "restore", "upgrade"} :
         client' = [client EXCEPT ![c] = [op |-> op, phase |-> FirstPhase(op), running |-> FALSE]]
    /\ UNCHANGED <<lock, runtime, daemon, keyVars, fileVars, orderly>>

\* A healthy daemon ends the wait; the update looks at its release.
Found(c) == IF client[c].op = "upgrade" /\ runtime \in Legacy
            THEN Continues(c, "active") ELSE Ends(c)

Spawnable == {d \in Daemons \ Legacy : In(d, "off")}

\* start_daemon, ensure_daemon: nothing to do, or a process is spawned
CheckHealth(c) ==
    /\ At(c, "check")
    /\ \/ Healthy /\ Found(c) /\ UNCHANGED daemon
       \/ /\ ~Healthy /\ Spawnable # {}
          /\ Goes(CHOOSE d \in Spawnable : TRUE, "lock")
          /\ Continues(c, "poll")
    /\ UNCHANGED <<lock, runtime, keyVars, fileVars, orderly, ops>>

\* and waited for, four seconds.
Poll(c) ==
    /\ At(c, "poll")
    /\ \/ Healthy /\ Found(c)
       \/ ~Healthy /\ (orderly => Settled) /\ Ends(c)
    /\ UNCHANGED <<lock, runtime, daemon, keyVars, fileVars, orderly, ops>>

\* SIGTERM drains a daemon that serves, is ignored by one that drains, and ends
\* any other.
Terminated(d) ==
    CASE In(d, "serving") -> Goes(d, "draining") /\ UNCHANGED lock
      [] daemon[d].phase \in Stopping \cup {"exited"} -> UNCHANGED <<daemon, lock>>
      [] OTHER -> Gone(d)

\* kill fails for a process that is gone.
KillSucceeds(c) == ~In(runtime, "exited")

AfterStop(c) ==
    CASE client[c].op \in {"restart", "restore"} -> "wait"
      [] client[c].op = "upgrade" -> "gone"
      [] OTHER -> "idle"

\* A restart goes on whatever the stop did, the others need it to succeed.
Stopped(c, success) ==
    IF AfterStop(c) # "idle" /\ (success \/ client[c].op = "restart")
    THEN Continues(c, AfterStop(c)) ELSE Ends(c)

\* stop_daemon: without metadata nothing runs.
Stop(c) ==
    /\ At(c, "stop")
    /\ \/ runtime = None /\ Stopped(c, TRUE) /\ UNCHANGED <<daemon, lock>>
       \/ /\ runtime # None /\ KillSucceeds(c)
          /\ Terminated(runtime) /\ Stopped(c, TRUE)
       \/ /\ runtime # None /\ ~KillSucceeds(c)
          /\ Stopped(c, FALSE) /\ UNCHANGED <<daemon, lock>>
    /\ UNCHANGED <<runtime, keyVars, fileVars, orderly, ops>>

\* upgrade_history_daemon: not while a session is recorded;
CheckActive(c) ==
    /\ At(c, "active")
    /\ \/ Ends(c)
       \/ Continues(c, "stop")
    /\ UNCHANGED <<lock, runtime, daemon, keyVars, fileVars, orderly, ops>>

\* Faulty variant: a daemon that does not answer is gone.
SilentIsGone == ~Healthy

\* Health may fail long before; what counts is the metadata.
MetadataGone == runtime = None

\* the metadata goes, or thirty seconds are over, and the new daemon starts.
AwaitGone(c) ==
    /\ At(c, "gone")
    /\ \/ ~orderly \/ MetadataGone
       \/ runtime # None /\ In(runtime, "exited")
    /\ client' = [client EXCEPT ![c] = [op |-> "start", phase |-> "check", running |-> FALSE]]
    /\ UNCHANGED <<lock, runtime, daemon, keyVars, fileVars, orderly, ops>>

\* restore_database: of a backup that exists; the daemon is stopped if there is
\* metadata,
Look(c) ==
    /\ At(c, "look") /\ backups # {}
    /\ client' = [client EXCEPT ![c].running = runtime # None,
                                ![c].phase = IF runtime = None THEN "save" ELSE "stop"]
    /\ UNCHANGED <<lock, runtime, daemon, keyVars, fileVars, orderly, ops>>

\* a third of a second is waited, as after the stop of a restart,
Wait(c) ==
    /\ At(c, "wait")
    /\ orderly => Settled
    /\ Continues(c, IF client[c].op = "restart" THEN "check" ELSE "save")
    /\ UNCHANGED <<lock, runtime, daemon, keyVars, fileVars, orderly, ops>>

\* the file is kept, without its log,
SavePrevious(c) ==
    /\ At(c, "save")
    /\ backups' = IF db = None THEN backups
                  ELSE backups \cup {[version |-> db.version, content |-> db.main]}
    /\ Continues(c, "copy")
    /\ UNCHANGED <<lock, runtime, daemon, keyVars, db, orderly, ops>>

\* a backup is copied over it,
CopyBackup(c) ==
    /\ At(c, "copy")
    /\ \E b \in {k \in backups : k.content <= MaxContent} :
         db' = [version |-> b.version, main |-> b.content, wal |-> IF db = None THEN 0 ELSE db.wal]
    /\ Continues(c, "unlog")
    /\ UNCHANGED <<lock, runtime, daemon, keyVars, backups, orderly, ops>>

\* the old log is removed, and the daemon started if it was running.
RemoveLog(c) ==
    /\ At(c, "unlog")
    /\ db' = [db EXCEPT !.wal = 0]
    /\ IF client[c].running THEN Continues(c, "check") ELSE Ends(c)
    /\ UNCHANGED <<lock, runtime, daemon, keyVars, backups, orderly, ops>>

Act(c) == \/ CheckHealth(c) \/ Poll(c) \/ Stop(c) \/ CheckActive(c) \/ AwaitGone(c) \/ Look(c)
          \/ Wait(c) \/ SavePrevious(c) \/ CopyBackup(c) \/ RemoveLog(c)

\* daemon backup: a copy of the file and the log, with or without a daemon.
BackUpNow(c) ==
    /\ client[c] = NoCommand /\ db # None
    /\ ops < MaxOps /\ ops' = ops + 1
    /\ backups' = WithBackup
    /\ UNCHANGED <<lock, runtime, daemon, keyVars, db, client, orderly>>

\* Everything dies, and the runtime directory is empty afterwards.
Reboot ==
    /\ ~orderly
    /\ runtime' = None /\ lock' = None
    /\ daemon' = [d \in Daemons |-> IF In(d, "off") THEN daemon[d]
                                    ELSE [daemon[d] EXCEPT !.phase = "exited"]]
    /\ client' = [c \in Clients |-> NoCommand]
    /\ UNCHANGED <<keyVars, fileVars, orderly, ops>>

Init ==
    /\ orderly \in BOOLEAN
    /\ lock = None /\ runtime = None
    /\ daemon = [d \in Daemons |-> [phase |-> IF d \in Legacy THEN "lock" ELSE "off", key |-> None]]
    /\ keyFile = None /\ keyring = None /\ blobs = {}
    /\ db = None /\ backups = {}
    /\ client = [c \in Clients |-> NoCommand]
    /\ ops = 0

Next ==
    \/ \E d \in Daemons : Run(d) \/ Crash(d) \/ Serve(d)
    \/ \E c \in Clients : Command(c) \/ BackUpNow(c) \/ Act(c)
    \/ Reboot

\* The operating system runs the daemons, and requests end.
Spec == Init /\ [][Next]_vars /\ \A d \in Daemons : WF_vars(Run(d))
-----------------------------------------------------------------------------
TypeOK ==
    /\ lock \in Daemons \cup {None} /\ runtime \in Daemons \cup {None}
    /\ daemon \in [Daemons -> [phase : Phase, key : Daemons \cup {None}]]
    /\ keyFile \in Daemons \cup {None} /\ keyring \in Daemons \cup {None}
    /\ blobs \subseteq Daemons

\* Whatever starts, dies or is restored: the database has one daemon, the one that
\* holds the lock, and a daemon that serves is the one clients find (daemon lib.rs:61-123).
OneStore ==
    /\ \A d \in Daemons : daemon[d].phase \in HoldsLock => lock = d
    /\ \A d \in Daemons : In(d, "serving") => runtime = d

\* No daemon runs with a key other than the one the blobs are encrypted with, also
\* when the Secret Service comes and goes between starts (keys.rs:176-231).
KeyOpensBlobs ==
    \A d \in Daemons : daemon[d].phase \in HoldsLock \ {"key"} => blobs \subseteq {daemon[d].key}

\* What is committed outlives migrations and restores: a migration has a backup of
\* all of it, and a restore touches the file when nobody has it open and keeps all
\* of the previous one (migration.rs:55-87, main.rs:829-848).
DataKept ==
    [][orderly =>
        /\ \A d \in Daemons : In(d, "migrate") /\ Migrate(d) /\ Content > 0
             => \E b \in backups : b.content = Content /\ b.version \in 1..db.version
        /\ \A c \in Clients : SavePrevious(c) \/ CopyBackup(c) \/ RemoveLog(c)
             => /\ \A d \in Daemons : daemon[d].phase \notin Opens
                /\ At(c, "save") /\ db # None => db.wal = 0]_vars

\* When the waits are long enough, the daemon a command spawns is not turned away
\* by the one it replaces (src-tauri/src/lib.rs:459-473).
StartsUnopposed ==
    [][\A d \in Daemons : orderly /\ AcquireLock(d) => lock = None]_vars

\* A daemon that starts or stops ends up serving or gone.
Settles ==
    \A d \in Daemons : daemon[d].phase \in Starting \cup Stopping
                         ~> daemon[d].phase \in {"serving", "exited"}
=============================================================================
