# A TLA+ model of AgentTraceback

AgentTraceback records what coding agents do on a machine. A daemon observes
project directories and imports agent histories, one writer thread stores the
evidence in SQLite with a hash chain per session, a verifier audits the chains,
and a recovery component restores files from pre-session snapshots. This
directory holds TLA+ modules for the parts where order, failure and interleaving
matter, TLC configurations that check them on small instances, and TLAPS proofs
of the central results for every instance. Source paths below are relative to
the repository root; `store/`, `daemon/` and so on stand for
`crates/agenttraceback-store/src/` and so on.

## 1. The system

| Part | State it keeps | Operations | Correct when |
|---|---|---|---|
| Evidence store, writer (`store/writer.rs`) | SQLite tables: events, source identities, chain entries and roots, sessions, projects, blobs, correlations, findings, snapshots, cursors, recovery rows; chain cursors cached within a batch | one command at a time from a bounded queue: append a batch, save correlations and findings, finalize a chain, upsert and complete sessions, delete a project | chains have no gap or fork; a root stays the digest of its chain; a source identity has one live version; a failed batch leaves nothing; deletion leaves markers, not holes |
| Evidence store, readers (`store/lib.rs`) | a pool of read-only connections | queries; `verify_chain_sync`, several queries that do not share a transaction | a report accuses only what is damaged |
| Chain hashing (`crypto/chain.rs`) | none | `hash_chain_entry`, `ChainVerifier::verify` | the report is exact for any damage to the table |
| Schema migrations (`store/migration.rs`, `migrations/`) | schema version, backups before a migration | back up, migrate step by step | what was committed survives |
| Wrapper coordinator (`daemon/coordinator.rs`) | maps of active sessions, root processes and project observations, one watcher task per observation, a flush channel of capacity four | `prepare_wrapper`, `complete_wrapper`, `register_root_pid`, `append_transcript`, the watcher's loop | attribution is never false; a running agent is watched; what was observed is stored before the chain is closed; a complete session has all its records |
| CLI run command (`cli/main.rs`), PTY (`platform/pty.rs`) | two tasks, a channel, the terminal and its output thread | launch, report the process, send output, complete | output is stored before completion; every command ends |
| Blob store (`blobs/lib.rs`) | files named by the digest of their content | put, get | no name without its content |
| Filesystem observer (`platform/watcher.rs`), snapshots (`snapshots/`) | pending debounced changes; manifests | notify, drain, overflow, diff | no lifecycle event is invented or lost; the manifest agrees with the disk |
| Process observer (`platform/processes.rs`, the coordinator's task) | the process table of the last poll, the roots | poll, descend, record | what is recorded belongs to the agent |
| Recovery (`recovery/lib.rs`, `daemon/recovery_coordinator.rs`) | stored plans and runs, encrypted blobs, the execution lock; the user's files | plan, back up, execute, undo | nothing is lost that the backup does not hold; an undo applies; success means restored |
| Ingestion pipeline (`events/lib.rs`), correlation engine (`correlation/lib.rs`) | a bounded queue, the worker | ingest, close, `process_event` | nothing accepted is lost; replays are recognised; findings and correlations follow each new event |
| Adapter service (`daemon/adapter_service.rs`), adapters (`adapters/`) | import sources and their cursors, the history import's status, hook receipts; the agents' files and settings | import with a resumable cursor, import all history, link native sessions, plan, install and remove hooks | nothing is passed that was not stored; sessions are matched; the user's settings survive |
| Daemon lifecycle (`daemon/lib.rs`), keys (`crypto/keys.rs`) | lock file, runtime metadata, the master key | start, migrate, serve, stop; start, stop, restart, update, back up and restore from outside | one instance; one key; orderly shutdown |
| API (`api/lib.rs`), desktop (`apps/desktop/src-tauri`) | none of their own | demo dataset, export, timeline pages; everything else is one call | whole datasets and bundles; no page skips an event |
| Risk rules, search, export rendering, configuration, types | none | rules, decoding, rendering | sequential; not modelled |

The parts interact through the store. The coordinator and the adapters hand
events to the pipeline, whose worker calls `append_events` and then saves
findings and correlations in further commands. The coordinator finalizes a
session's chain when its agent ends. Readers see whatever was committed when
their query starts. Recovery reads snapshots and blobs, and touches files that
the user and running agents touch as well.

What is hard, and what the properties are for: commands of different producers
interleave at the writer; a batch fails in the middle; a re-read source
supersedes an event of another session's chain, and deletion unpicks that;
queries of one verification see different commits; prepares and completions of
several sessions share one observation between their awaits; changes are
attributed when they are drained, not when they are made; a restore fails or the
daemon stops between any two writes while the user edits. `PROJECT.json` lists
each hazard at its line.

## 2. The modules

| Module | Models | Composition |
|---|---|---|
| `EvidenceLog` | abstract specification: one append-only, sealable log per scope | implemented by `EvidenceStore` |
| `EvidenceStore` | the writer and the schema it relies on | `ImplementsLog` is the refinement |
| `ChainVerification` | `verify_chain_sync`, query by query | extends `EvidenceStore`: a reader beside the writer |
| `ChainVerifier` | hashing, the verifier's loop, damage to the table | run in `ServicesMC` |
| `WrapperCoordinator` | wrapper sessions, observations and watcher tasks of one root | run in `WrapperMC` |
| `BlobStore` | concurrent puts, the blobs table, a failing disk | extended by `WrapperRun` |
| `WrapperRun` | whole runs of the command: CLI, terminal, transcript, and what both ends of a session store | extends `BlobStore`; run in `WrapperMC` |
| `ProjectObserver` | notifications, folding, losses, scans and the manifest of a project | run in `ObserversMC` |
| `ProcessObserver` | the process table, its polls, roots and their subtrees | run in `ObserversMC` |
| `Recovery` | plans, backup, execution and undo in one destination | on its own |
| `IngestionPipeline` | the queue, its worker, findings and the correlation engine | extended by `AdapterImport`, with the store as `append_events` promises it |
| `AdapterImport` | import of one rollout by the Codex adapter, and the log it reads | extends `IngestionPipeline`: the importer is one of its producers |
| `NativeImport` | import from databases and whole files, linking of sessions, the history import | on its own |
| `HookInstallation` | hooks in an agent's settings and their receipts | run in `ServicesMC` |
| `DaemonLifecycle` | daemons, lock, metadata, key, migrations, and the commands around them | on its own |
| `LocalApi` | demo dataset, export, paged timeline | run in `ServicesMC` |
| `*Proofs` | theorems, by TLAPS | extend the module they prove about |
| `*MC` | the small instances | extend the modules they instantiate |

`ServicesMC`, `ObserversMC` and `WrapperMC` hold modules that share no state (or whose
common state is worth splitting: see `WrapperRun`). A behaviour picks one of them at the
start (`world`) and keeps to it, which explores each in full without their product.

An operator commented *Faulty variant* is not part of a specification. It stands
beside the definition it would replace and shows which bug a property excludes.

### EvidenceStore

`db` is the committed database, `work` the one an open batch sees, `inTxn` and
`pending` say whether a batch is open and what is left of it, `cursors` are the
chain positions it has cached. The sets of rows in `Database` are the tables;
`chain` and `roots` are `chain_entries` and `chain_roots`. Ids are numbers in
the order of creation, so an entry's target also stands for its hash: the hash
is injective (`ChainVerifier` looks at hashing itself), and `previous` is the
target of the predecessor.

Commands other than `append_events` are one statement or one transaction and are
one action. A batch is `AppendBegin`, one of `AppendDuplicate` or `AppendNew` per
event, and `AppendCommit`; `AppendRollback` is the refused event, the failed
statement and the crash. The schema's cascades, its triggers and
`ON DELETE RESTRICT` are part of the deletion (`Purged`, `DeletionRestricted`).

`agreed` is a history variable: it stays true while every caller stores events
in the project of their session and never moves a session to another project.
The wrapper keeps to that; an adapter import may not (`upsert_session` overwrites
the project). `ChainedEventsAccounted`, `EventsAreChained` and `ReferencesCovered`
speak of this contract and name it. The others hold without it.

### ChainVerification and ChainVerifier

`reader` is the local state of `verify_chain_sync`: the rows read first, the
position in them, what is missing so far. Each query is a step and the writer
acts between any two. The comparison of an event's digest with its entry
(`store/lib.rs:2166-2173`) is no step of the model: an id stands for the event's
digest there, and no command of the writer updates an event, so that only damage to
the file could tell them apart. Damage is what `ChainVerifier` is about: it builds a chain, damages the stored rows
(any column to any known hash, garbage, another digest; rows removed or
renumbered) and then runs the loop entry by entry. Hashes are terms, so they are
injective by construction, as the code assumes of its hash.

### WrapperCoordinator

`at[s]` is the await at which `prepare_wrapper` or `complete_wrapper` of `s`
stands, `mapped` the observation in the map, `obs` the observations with their
sessions, flush channel and watcher task. A change is delivered to the watcher's
backlog, drained by a tick or a flush, attributed and then ingested, with the
sessions' lock released in between, as in `emit_file_event`. `writers` remembers
which agents ran when a change was made and exists for the properties.

`mode` is chosen at the start and fixed. `serialized` keeps prepares and
completions apart, `timely` says that flushes are served within two seconds,
`failures` lists the calls that may fail. The properties that begin with
`Undisturbed` hold for orderly modes, and two formulas say which disturbance breaks
them (see below). `SessionsEnd` is about every mode.

The flush channel is part of an observation and stays open as long as that is mapped,
whether or not anyone takes requests from it; `send` has no timeout, only the answer has
(`daemon/coordinator.rs:361-364`). So when the watcher could not start, or the prepare that was
to spawn it failed, each completion leaves a request behind after its two seconds,
and the first that finds the channel full waits for ever (`Hangs`): its session is not
finalized and stays in the observation, which keeps it mapped for later ones.
`SessionsEnd` excludes every other way not to end: behind a watcher that is slow, cancelled, shared or
late, in a channel that is full for a while, and through prepares that join and fail.

### WrapperRun and BlobStore

`WrapperRun` is `agenttraceback run` from its start to its end: `cli` is where
`run_wrapper` stands, `root` and `tape` are its two tasks, `agent` with `written` and
`forwarded` the process in its terminal and the thread that copies what it writes,
`request` and `posted` the requests in the daemon, one write after the other.
`rows` is what the database has of a session. `WrapperCoordinator` has the
observation that the same requests enter and leave; here `Open` and `LeaveSession` are all
that is left of it. `BlobStore` has the files, named by the content they should
hold, and the puts on their way; a put finds its file or writes a temporary one and renames it,
beside other puts of the same content.

`given` holds the circumstances, chosen at the start: which runs take place, which
have a transcript, how agents end, and which kinds of trouble may come: a refused call, a
client that gives up after its sixty seconds, a daemon that stops, a launch or a
terminal that fails, a failing disk, edits of the project. A daemon that stops stays
down for these runs, since another one knows none of their sessions.

What the model shows of the code besides what is checked:

* Transcript chunks are blobs without a reference to their session and without an
  order; only their content is kept, which is what `OutputStored` states.
* A command whose completion fails exits with that error and not with its agent's
  status; one whose agent could not be launched completes its session as "cancelled".
* A session left active by a stopped daemon or an impatient client stays active.
* A file is hashed for the manifest and read again for its version. If it
  changes in between, the version says one and restores the other
  (`BaselineRestorable`); the recovery's precheck refuses the whole plan.

Abstracted: a manifest is captured in one step, since files are independent; the
command itself is not killed.

### ProjectObserver and ProcessObserver

`ProjectObserver` is the watcher task of one project. `disk` is what files hold,
`notices` what the operating system has told, `batch` what a drain has taken of it and `todo`
what of that is still to be recorded, `manifest` what the task knows. A change is notified, lost with an
error, or notified apart: an unpaired rename, a directory that moves as a
whole. `Drain` folds (`Debounced`) as `push_debounced` does, `Emit` reads the file as it is by
then, `Scan` and `Compare` are `reconcile_after_overflow`, with files changing in between.
Later sessions replace the manifest of all, in two steps.
`astray` says what notifications could not tell: nothing, something that a scan has made
good, or something that is still open (a directory moved, a baseline older than the watch,
a scan that failed, a file that could not be read, a manifest replaced by an older capture). An
event that the pipeline refuses (`Refused`) is only logged: the manifest has what it said, but
it is missing in the records, and nothing tries again. `stale` marks a removal
that was drained before the scan and is applied after it. `CaughtUp` names both exceptions.

`ProcessObserver` is the process table, known by pid and start, the roots that wrappers
register, and the task that polls, records the starts of roots, and then the starts
and exits in their subtrees. `descent` and `reused` are history. `ExactIsOwned` names
two exceptions, both of a pid that is reused between two polls: a root's by another
process, and an outsider's by a descendant, whose predecessor's exit is then recorded.

### Recovery

`files` is the destination, `plans` and `runs` the stored rows, `exec` the
execution that holds the lock. A plan's operation has a kind, the place it
leaves (`target`) and the place it expects (`current`). `Begin` loads the plan and
looks for conflicts; `Capture` reads one file for the backup; `PersistBackup` and
`SaveRun` store both before anything is written; `Check` is the precheck of
`execute`; then each operation is `Guard`, `Apply` (the rename) and `Verify`.
`Fail` is an error inside `execute`, `Abandon` a stop of the daemon or an error
outside of it, after which the run stays as it was stored. `UserEdit` may happen
between any two of these. Content, digest and blob are one value; a blob may be
damaged. The undo of a restore is the execution of its backup plan, so runs of
`Recovery` include undo, and undo of an undo.

`touched` is history: the paths someone else changed since the run captured
them. `gap` says whether an edit may fall between a guard and its rename, a
window that a program cannot close without cooperation of the filesystem;
`OverwritesOnlyBackedUp` is stated for the other case, all others for both.

Abstracted: the conflict check over all operations is one step; temporary files,
permissions, parent directories and path resolution are left out; the user
creates no links; `git worktree add` is its precondition (an empty directory)
and its effect.

### IngestionPipeline

`queue` is the channel, `job` the event `process_event` is at and its next await
(append, findings, correlate), `reply` what each producer knows of its one
command. `Ingest` and `Close` send, `Collect` takes the answer; `Stop` drops the
receiver with everything behind the shutdown. The store appears as `events`, in
chain order and with the flag `live` that supersession clears; `EvidenceStore` has
the writer behind it. `Decision` is `CorrelationEngine::evaluate`, `Candidates` the
query that feeds it, `WithPair` the insertion. `FindingsOf` stands for the risk rules.

`cut` is history: events whose processing ended between their append and their
findings. A replay answers with the known event and makes up for nothing, so the
code promises findings for all others only, and so does `FindingsFollowEvents`.

Abstracted: putting the payload and recording the blob fail or succeed with the
append; redaction and size limits change data only. Failures of a correlation are
logged and nothing else, so saving one may always be skipped.

### AdapterImport

`file` is the agent's log as a sequence of tokens: a record is its text, `End`,
and a newline, so a line can be torn in the record, before its newline, or not at
all. Offsets count tokens and digests are the prefixes themselves. `cursor` is the row
of `import_cursors`, `run` the local state of `run_import` and `import_source`,
whose phases are its awaits: find the source, compare the prefix, read a batch, read
the header again, emit and await one record after the other, take the digest, save
the cursor. The agent appends between any two (`Write`), the file may be replaced
(`Rewrite`), the pipeline may fail, and the daemon may die (`Crash`).

`Records` are those that yield an event with a time of their own. A record without
one gets the time of the import and differs from its earlier version at each
replay; that supersedes a version and is not modelled. Lines that are no JSON are
`Bad`. A record's source identity is its session and the offset of its end.

The file may be replaced at any time, also between two steps of one batch. What that does is
followed by three histories: `text` is the file a batch was read from, `seen` all that
was read before an offset, by way of whichever files, and `strayed` what was sent under the header of
another file than its own (`adapters/codex.rs:195` opens the file again). The code
tells a replacement by the digest of the prefix, which covers 64 KiB
(`adapters/common.rs:23`; `PrefixLimit`) and is taken of the file as it is after the batch
(`adapters/codex.rs:231`). So there are replacements it cannot tell (`Unnoticed`): the digest in the cursor is of
another file than was read, or what differs lies behind the digested part. `ImportFaithful`
leaves out those and the strayed contents, no more. A run that restarts at zero still
compares with the offset it loaded and may stop after one batch (`adapter_service.rs:327`);
`DrainsDiscovered` leaves out that run, and one whose last batch was read from a file that
does not begin with what had been read.

### NativeImport

Imports from OpenCode and Hermes (SQLite) and Gemini (a whole JSON file). `log` is
what the agent has written, a message with its parts; `run` is whoever holds the import
gate, with what it has read and not yet emitted (`items`), the messages whose parts OpenCode has still to
ask for (`todo`) and the session it is about to store (`target`); `history` is the history import with its
worker and its supervisor, and `asked` what was there when it was requested.
`Matching` and `Preferred` are the store's query that joins a native session to a
session of the wrapper, which `Prepare` and `Complete` create and end meanwhile.

Three histories name what the code does not promise. `late` are parts committed behind
a reader that has passed them: both databases are read by keys that are assigned before the
commit. So may be messages of a Gemini file: a shorter file makes the import start at zero, but when
the file has grown back to the saved position before the new cursor is stored, and that import fails,
the next one goes on behind them (`adapters/gemini.rs:204-216`). `cut` are Gemini files whose cursor was saved for a limited batch; the file is
not read again before it changes. `moved` are native sessions whose directory
disappeared or came back, after which they may get a row of their own.

### HookInstallation

`file` is the agent's settings file, reduced to what the merge tells apart: no JSON,
a value, or an object with the user's part and hook entries that are tagged, ours, the user's or
both. Requests plan, approve, install and remove side by side, the user edits, and the daemon may die.
`SettingsKept` names what is lost: an edit made after the request last looked at the
file, and a file that is no JSON, which a removal replaces by `{}` although it is to
remove "only owned entries" (`docs/architecture/adapter-contract.md:45-46`).
`uncertain` is history: a request was cut short after its rename or overlapped another.

### DaemonLifecycle

`daemon[d].phase` is where `run()` of `d` stands, from the lock to its release, `runtime` the
published metadata, `keyFile`, `keyring` and `blobs` the master key and what was encrypted with which,
`db` the schema version with the commits in the main file and in the log. `client` holds
the commands `start`, `stop`, `restart`, `restore` and the application's upgrade, step by step;
a daemon of an earlier release takes part. Each migration is a transaction with
its version, and one that is there already fails and ends the start. Processes die anywhere, and `Reboot` empties the
runtime directory.

`orderly` is chosen at the start: commands come one after the other, their waits
are long enough, and nothing dies while it stops. `DataKept` and `StartsUnopposed` need it, and the
code does not ensure it: a restart waits a third of a second; a restore copies the main
file only, so the log that a daemon left when it was killed is lost; the check for active sessions
before an upgrade does not keep new ones out. `OneStore`, `KeyOpensBlobs` and `Settles`
hold in both modes.

Abstracted: the API token, Windows' `taskkill /F`, names of backups (their seconds may
collide), `remove_stale_runtime`, which nothing calls. There is one data directory, so that the metadata,
which is per user, is not shared with another one.

### LocalApi

Handlers that are several calls of the store, each call a transaction. The demo
dataset has fixed ids for its project, session, file, versions and snapshots, and new ones for
events, pair and finding, so a second installation meets the constraints of the schema at any
point; guards are these constraints, and `Fail` is what happens otherwise. The export reads the
summary first and the parts in any order, then writes and renames. The desktop reads a
timeline by offset while events arrive anywhere in it.

What the model shows besides: an installation that failed half-way is answered with
"installed" by the next one. A session of more than 500 events is exported with the earliest
500 and without a word about the rest (`api/lib.rs:1293`): that is what `ExportSound` says, as it asks
for all events of the install or exactly the earliest `ExportLimit` of them. The desktop stops
at 100 000 events (`desktop lib.rs:162`; `TimelineLimit`); `PagesSkipNothing` says what it has then,
which is all up to the last one it read. `DemoEvents` is the length of the exported session, five in the code's
dataset; with a length beyond the limit it stands for sessions of agents, which are written
by the same calls.

## 3. The runs

| Run | Question | Outcome |
|---|---|---|
| `evidence_store` | Do chains, roots, source versions, references and the log survive every interleaving of commands, failed batches and deletion? | holds |
| `evidence_store_deletion` | Is a confirmed deletion always carried out? | **refused** after a correction |
| `chain_verification` | Does a verification beside the writer accuse only what moved or was deleted? | holds |
| `wrapper_coordinator` | Is attribution sound, the root watched, everything observed stored? Are records whole and backed by blobs, output kept, and do commands and sessions end, but for a completion that hangs at a channel nobody serves? | holds |
| `wrapper_coordinator_overlap` | Is attribution sound when a prepare overlaps a completion, too? | **false attribution** |
| `observers` | Does the manifest catch up with the disk, are lifecycle events kept in order, do recorded processes belong to the agent? | holds |
| `observers_exits` | Is the exit of a recorded process recorded? | **never below the root** |
| `recovery` | Is everything overwritten backed up, undo possible, success true, no write made from a damaged plan? | holds |
| `adapter_import` | Whatever fails or dies where: is no record skipped or put into a foreign session, are records imported in order, do findings, pairs and replies follow? | holds |
| `native_import` | Does neither a cursor nor a report vouch for what is not stored? Are sessions matched once and for all? Does a history import end? | holds |
| `daemon_lifecycle` | Is there one daemon with the right key, are committed data kept, do starts succeed, does every daemon end up serving or gone? | holds |
| `services` | Is a verification report exact for every damage? Are demo datasets, exports and pages whole? Do the user's settings and the receipts survive? | holds |

### Bounds

* `evidence_store`: one session and the global scope, two projects, two source
  identities, two bodies, one blob, three ids (`MaxIds`). Two scopes are what
  cross-chain supersession and deletion need; two versions of one source and a
  bystander fit into three ids; a batch of two has one event that is
  undone when the next one fails, and both go to one chain, so the second needs the
  cached position of the first. A pair of two events outside its session uses all
  three ids.
* `evidence_store_deletion`: the same instance. `chain_verification`: one project,
  which leaves room for the reader's position.
* `wrapper_coordinator`, lifecycle: two sessions of one root, one change, two observations.
  A second change is independent of the first. `overlap` has three sessions: one
  that leaves, one that joins what is being removed, one that finds an empty map.
  The flush channel holds one request instead of four (`FlushCapacity`), which is less than
  there are sessions: the second completion finds it full while a watcher is behind, and hangs
  where none will come.
* `wrapper_coordinator`, runs: two files, one of them sensitive, two contents, one
  of which is the Git state too and one fragile, one edit (`MaxEdits`). `Circumstances` has
  two runs at once with a failing disk, whose puts of the same content collide; one
  run with a transcript of two chunks under refusals and a stop, timeouts and a stop, or a
  failing disk and edits; and one whose agent cannot be launched.
* `observers`: two paths, one in a directory, one ignored but tracked, two contents, three
  changes (`MaxChanges`: one that is lost, one during the scan, one after it), one
  later session (`MaxPrepares`); any event may be refused and any file unreadable; the contents
  are symmetric and the run has no liveness; three pids, one wrapped session and three starts (`MaxStarts`), so
  that an agent, its child and a process that reuses a pid exist.
* `recovery`: two paths and two contents, so that a path may hold its target,
  something else or nothing; snapshots with two files, with a link and with a file
  captured without content; one requested plan (`MaxRequests`), three plans with
  the backups (`MaxPlans`), two runs (`MaxRuns`), so that a restore can be undone
  and a third execution can get as far as its backup; one user edit (`MaxEdits`).
  The proof has none of these bounds.
* `adapter_import`: a header and a message (`MaxLength` of six tokens), read in
  batches of one record (`MaxRecords`) so that the message is always read by a
  resumed import; three rollouts that may replace it, one with the same beginning; a watcher that observes the file the message is about, with a hash
  that agrees or not; one replacement or one command of the watcher (`MaxTurns`);
  a queue of two (`QueueCapacity`), so that a command can wait behind a shutdown;
  one candidate (`CandidateLimit`), windows that the events' times fall into; a digest of
  the first record only (`PrefixLimit`), so that a replacement may differ behind it. The theorems have none of these bounds.
* `native_import`: batches of one message (`MaxBatch`), keys up to two (`MaxKey`), one part beside the
  row (`MaxParts`), two writes of an agent or four of Gemini (`MaxWrites`), so that a file is
  replaced and grows back while it is read, two requests,
  moves or replacements (`MaxTurns`). A machine has OpenCode with an adapter that has nothing,
  or Hermes with two native sessions and a wrapper, or Gemini. The theorems have none of these bounds.
* `daemon_lifecycle`: a daemon of the earlier release and two of this one, which is a replacement
  and a competitor; two commands (`MaxOps`), one commit (`MaxContent`), schema versions 1 and 2 (`Target`).
* `services`: three entries (`MaxLength`) so that a row has neighbours on both sides,
  three damages (`MaxDamage`) so that a column, its hash and the successor's link
  can be made to agree; two installations and a removal (`MaxRemovals`), three events of which an
  export reads two (`DemoEvents`, `ExportLimit`); a timeline of up to six events, pages
  of two (`PageSize`) and a stop after four (`TimelineLimit`); two requests, two users' settings, two edits (`MaxEdits`) and three
  calls (`MaxCalls`), so that an installation, its removal and an overlapping one fit. Requests and
  users' settings are symmetric; the run has no liveness.

`CHECK_DEADLOCK FALSE` is set where the system may come to rest: sessions are
one-shot, daemons are started once, identifiers, plans and edits are bounded.

### Fairness

* `wrapper_coordinator`, lifecycle: prepares, completions and watchers run
  as tokio tasks, which are polled while they are ready: weak fairness on the steps
  of a prepare after it has found its observation, on those of a completion, and on
  the watcher. The watcher's `select!` picks a ready branch at random, so serving a
  flush and stopping have weak fairness of their own. Starting an agent, ending it and writing
  a file are the user's and are not fair.
* `wrapper_coordinator`, runs: `Scheduled` is all that daemon, tasks, threads and agent
  have to do; as a run takes finitely many steps, weak fairness of the whole is
  weak fairness of each. That an agent ends is assumed: `RunsEnd` says what follows. Trouble is never fair.
* `native_import`: weak fairness of the import that holds the gate and of the history's
  worker, which are tasks; no fairness of agents, requests, panics or crashes.
* `daemon_lifecycle`: weak fairness of `Run(d)`: the operating system runs what is
  started, and requests end while a daemon drains. Commands are not fair.

### What the violations show

* Deleting a project fails with a foreign key error, and deletes nothing, once
  one of its events was superseded by one that is still there:
  `supersedes_event_id` is `ON DELETE RESTRICT` (`store/writer.rs:901`).
* A prepare may join an observation that a completion is taking out of the map.
  The next prepare creates another one, and each credits its own only session
  with every change (`daemon/coordinator.rs:370`).
* A poll replaces the known processes before anyone asks whether one that exited
  descended from a root, and it is looked for among the new ones: of a subtree only the
  root's own exit is recorded (`platform/processes.rs:89` and `:104`).

`verify_chain_sync` reads entries first and the root last, so a chain that grows
and is finalized in between is reported with a mismatch (`store/lib.rs:2198`).
`MismatchOnlyIfMoved` says that this is the only way to a false one.

### Stated, but not holding

Each of these formulas says what one could expect of the code; none holds, and
no run lists it. TLC finds the trace when it is added to the named configuration.

| Formula | Configuration | Why not |
|---|---|---|
| `ActiveRootIsWatched` | `Wrapper.cfg` | a prepare publishes its observation before steps that may fail; then nobody spawns its watcher and later sessions join it (`daemon/coordinator.rs:178`, `:193`) |
| `CompletionTerminates` without `Hangs` (property) | `Wrapper.cfg` | the answer to a flush request has a timeout, the wait for room in the channel has none, and the channel outlives a watcher that failed or never came (`daemon/coordinator.rs:167`, `:362`) |
| `BaselineRestorable` | `Wrapper.cfg` | a file changes between its hash and its content (`daemon/coordinator.rs:487`) |
| `FinalStateRecovered` | `Observers.cfg` | removals drained with an overflow are applied after its scan, also to files that are back |
| `ChangedFilesRefused` (property) | `Recovery.cfg` | a restore compares files with the plan and reads them again for the backup; what was saved in between is overwritten, and backed up (`recovery/lib.rs:344`) |
| `ImportedOnce` | `AdapterImport.cfg` | a record read before its newline, in a batch whose cursor is not saved, is read again under the identity of its newline (`adapters/codex.rs:283`) |

## 4. The proofs

`EvidenceStoreProofs` shows for every set of sessions, projects, sources,
envelopes and batches, and any number of ids:

* `TypeCorrect`: `Spec => []TypeOK`.
* `ChainsStaySound`: every chain counts from one and links each entry to its
  predecessor, in the committed and the open database, and a root stays the count and
  the hash of its whole chain.

The inductive invariant `ChainInv` adds two things to types and chains. The cursors
a batch has cached equal the end of the working chain (`CursorsAgree`), without
which an append could fork it; and both databases satisfy the root invariant
(`SoundChains`), since a commit moves one into the other. Each action is a
lemma, and operators on databases (`PersistNewEvent`, `PersistPair`, `Purged`) have
lemmas for their types and chains.

It goes on from there to every other property of the store that the runs of
`EvidenceStore` check:

* `VersionsAgree`: `Spec => []SourceVersions`.
* `DeletionIsExact`: `Spec => DeletionExact`, an action property.
* `ReferencesStayCovered`: `Spec => []ReferencesCovered`.
* `StoreImplementsLog`: `Spec => ImplementsLog`, the refinement of `EvidenceLog`.

`HistoryInv` has three parts. `Consistent` holds of both databases whatever the callers
do: ids were handed out before (`Issued`), events and source rows come in pairs
(`Paired`), the project of an event is there (`Housed`). A deletion revives the version
that a deleted event superseded; no other is live then, because the deleted one was,
and it was since nothing superseded it, or the foreign key had refused the deletion.
`Accounted` holds while the contract is kept: an event is in the project of its session
and in the chain of its scope alone, so that a deletion takes events and entries
together or marks them. `Grows` says that a batch goes on from the committed database
as the log does, with targets that it has nowhere; it is what makes a commit, after any
number of invisible steps, one `Extend`.

The reader beside the writer (`ChainVerification`) is proved on top of that:

* `VerificationIsFair`: `VerifySpec => AccusesOnlyMoved`, an action property.

Whatever is committed, corrected, rolled back or deleted between its queries, what the reader has
read is still the beginning of the chain, or has `Parted` from it: a chain that is
started anew after a deletion begins with a target handed out later, and targets are
never reused. Markers and records of blobs only grow, and under the contract the payload
of every event is recorded (`StoreInv`), so a row that is accused has parted (`ReaderInv`). The root
and the tail of the rows are compared by `SoundChains`.

`WrapperProofs` shows of the coordinator, for any number of sessions, observations and changes,
any capacity of the flush channel, and in every mode:

* `CreditIsSound`: `Spec => []AttributionSound`.
* `AgentsAreWatched`: `Spec => []RunningIsWatched`.
* `ChangesAreKept`: `Spec => []ObservedIsStored`.

Types hold in every mode, the rest (`Orderly`) in the modes the properties speak of. Its
parts: one session at a time prepares or completes (`TakingTurns`); a session holds an
observation that exists, and every observation in use is the mapped one (`Holding`, `Mapping`);
who is inside is counted in it (`Counting`), so it is cancelled only when nobody is
(`Cancelling`), and its watcher then ends with nothing of theirs (`Watching`). A session
waits in the channel, or is answered, only while it flushes (`Asking`). `Covering` is
the heart: a change made while the agent of a session ran is with the watcher of its
observation only until the session has been answered, because the watcher takes a
request and drains what it was told before in one step. `Crediting` follows a change from its
making to its record: the only session of the observation then is the only one that ran.

and of runs of the command, for any number of runs, files, contents, chunks of output and
edits, and in all circumstances `given` may name:

* `RunsAreTyped`: `RunSpec => []RunTypes`.
* `RecordsAreBacked`: `RunSpec => []RecordsBacked`.
* `RecordsAreComplete`: `RunSpec => []RecordsComplete`.
* `OutputIsStored`: `RunSpec => []OutputStored`.

`RunInv` has three layers. The blob store comes first: whatever several puts of one content
do at once, a file that was whole stays so unless the disk damages it, and a put that is
through has its file (`BlobsKept`). On it rest the rows: a request puts only what it is
about to name, which is what it hashed unless the file was changed since (`Follows`), so a row
names only what is there (`Backed`). Then the order of things, per run: where the command
stands while a request of it is under way (`Requested`), that the agent is launched
once and the result is its own (`Launched`), what each step of `prepare_wrapper` and
`complete_wrapper` finds stored by those before it (`Prepares`, `Completes`), and as long as
which the session is open (`Opened`). A request whose client has gone still runs; the clauses
therefore allow `failed` beside `preparing` and `completing`, and a row may be
completed after the command has failed. Last the transcript: completion is asked for only
after its end (`TapeEnds`), which comes when everything forwarded was taken, and all that was
taken is stored but for a chunk still on its way, unless one was lost and the run is `cut` (`TapeStored`).

`RecoveryProofs` shows for every set of paths, contents, snapshots and selections
and any bounds:

* `TypeCorrect`: `Spec => []TypeOK`.
* `OverwritesAreBackedUp`: `Spec => OverwritesOnlyBackedUp`.
* `DamagedPlansWriteNothing`: `Spec => NoWriteFromDamagedPlan`.
* `SuccessMeansRestored`: `Spec => []SucceededMeansRestored`.
* `UndoStaysPossible`: `Spec => []UndoPossible`.

These are all properties of recovery that a run checks. For the backup, the invariant
`RecoveryInv` adds: what is captured and what remains to be captured
cover the plan (`CaptureCovers`); from `SaveRun` on the stored backup is what was
captured (`BackupStored`) and the stored run names it (`RunStored`); what is left to
do belongs to the plan (`TodoPlanned`); and the file about to be renamed over is as
its guard found it (`GuardHolds`), which survives other users' edits because the
window is excluded. `OverwritesAreBackedUp` follows since only `Apply` changes files.

For the outcome, three invariants are stacked on `RecoveryInv`. `FormInv` is about
operations: only a
write has a content, each operation of a backup undoes the one it was captured for,
and from the check to the end of the run the blobs of the plan are sound. `RunInv` is
about runs: they name stored plans, their backups undo, the run under way is that of the
loaded plan and has no backup unless it is in place. `PlaceInv` is about files, each
clause where nobody else wrote: what was captured is still there until the run is
stored (`CapturedHeld`), what is no longer to be done is done (`DoneRestored`), and a
path holds either what its backup found or what the run puts there (`BackupsReach`).
The last is why an undo is possible in the middle of a failed run, and it is
inductive only because a step of one run touches all the others.

`AdapterImportProofs` shows for any number of producers and any drafts they send, any
log, any replacement of it, and any size of queue and batch:

* `NoReplyForgotten`: `Spec => []NobodyForgotten`.
* `FindingsAreSaved`: `Spec => []FindingsFollowEvents`.
* `PairsAreSound`: `Spec => []PairsSound`.
* `ImportIsFaithful`: `Spec => []ImportFaithful`.
* `DiscoveredIsDrained`: `Spec => DrainsDiscovered`, an action property.

The first three do not use what an import reads. Each step of the import is one of the pipeline for some
draft, or leaves the pipeline alone (`ImportDrivesPipeline`), and the pipeline keeps
its commands, job and events in shape over *some* set of drafts (`Shape`). Replies
are then inductive as they stand. Findings and pairs need `LatestInWork`: the event
in work is the last one of the log and no pair has it yet, since one worker
appends, reviews and correlates before it receives again. Replays satisfy it only
because they end at the append.

The others are about what is read. `ReadJsonl` says which lines are reached, as a set,
so no induction is needed to say what a batch holds: the records behind the offset it was read
from, as far as its end, which is no place inside a record (`BatchFacts`). A line is
torn, whole, or the rest of one that was read before its newline (`WholeLine`, `RestOfLine`). What the
importer has in the pipeline is the record it waits for, and an answer that it is
stored is true (`SentOK`), whatever fails. A batch holds records of the log only
and is sent under the session of its header, also when the batch resumes behind
it (`BatchOK`).

`LogInv` is for a log that is only appended to, and gives the order. Before the cursor, and before the
end of a batch, every record is persisted or still in the batch (`Done`); and each one that is to be read again
is persisted under the very offset it will be read with, or behind all that is
(`InOrder`, `Fresh`), so that a replay after a crash adds nothing out of order. A torn last record and
one read before its newline are the reasons for `ReadAs`.

`ResumeInv` is for any log, whenever it is replaced. A cursor stands for what was read before it
(`seen`), whatever the file is now: every record of that is persisted (`PrefixOK`), since each batch
adds to it exactly what it has read of the file it read (`SpliceFacts`, `BatchHeld`). When the digest of
the file is that of `seen`, and the file begins with it, the run resumes where it should
(`PrefixHolds`); when the digest differs it starts again; the third case is `Unnoticed`.
A batch goes out under the session of the file it was read from, or its contents are in
`strayed` (`Titled`, `EventsNamed`). `DiscoveredIsDrained` follows from `GotOn` at the end of a run:
the loop ends only at the size it found, or where a batch got no further.
No theorem assumes anything of the log's length or of when it is replaced.

`NativeImportProofs` shows for any set of agents, messages, batches, sessions, wrappers and
directories:

* `NothingIsMissed`: `Spec => []NothingMissed`.
* `SessionsStayMatched`: `Spec => SessionsMatched`, an action property.

Every step is a reading, one of the sink, the end or beginning of a run, a write of an agent, or one of
the wrapper or the user (`StepKinds`); the three kinds of writes are one (`Grown`), and so are the
three ways to read a batch behind a position (`Takes`).

For the first, `SavedInv` says what is wanted of the saved cursor. It is inductive only with
`RunInv`: what the run has passed is accounted for or in hand, so when nothing is in hand the cursor may be
saved. A key may come back with another content when Gemini's file is written anew, so revisions are
compared: what is stored or in hand is never newer than the source has (`EventInv`, `ItemInv`), since a
file has only revisions older than its last change (`LogInv`), which is why an event
that `Emit` supersedes was not one that counts. `CursorInv` ties size and time in a cursor to those of the file.
The report rests on `HistoryInv`, which ties worker, gate and the agents' states together, and
on `ReportInv`: an agent that is completed, or is about to be because its cursor no longer moves,
has everything that was asked for accounted for or passed.

For the second, `RowInv` says that rows and native sessions are joined one to one where the directory
stays, that a session the run has ensured is joined, and that events lie in the row of
their session. The lookup and the upsert are two calls; `TargetInv` says why the answer is still right at the second
one: meanwhile others may add a wrapper's session or complete one, but not join any, because
there is one import at a time. A native session whose directory moved is exempt from then on (`moved`).

`DaemonLifecycleProofs` shows for any daemons, releases, commands and users:

* `SingleInstance`: `Spec => []OneStore`.
* `KeyIsKept`: `Spec => []KeyOpensBlobs`.
* `DataIsKept`: `Spec => DataKept`, an action property.
* `StartsAreUnopposed`: `Spec => StartsUnopposed`, an action property.

For the first two, the invariant is `TypeOK /\ OneStore /\ KeyInv`. The lock is never taken from one who has it,
and metadata is published under it. `KeyInv` ties the three places of a key together:
whoever is past `LoadKey` uses the key file if there is one and the entry in the keyring
otherwise, and blobs are under that key. A new key is made only on a first run (`FirstRun`), where
there is no blob to lose.

The other two are about the orderly mode, and rest on `OrderInv`. One daemon starts at a time, when
no other is past its start, and one that leaves is alone (`OneAtATime`). There is one
command, and what it has waited for is so: nobody starts once it has looked, nobody serves when it
waits, nobody is there when it copies (`Waits`, `Fits`). Metadata and lock name a daemon that
has them or died with them (`Held`), so a log that a dead daemon left is announced by
its metadata (`LogKept`), which the restore trusts. A database that is being migrated has
been backed up with all it holds (`BackedUp`). `LegacyAssumption` says that at the beginning
at most one daemon of the earlier release starts.

`ServicesProofs` shows for any number of digests, rows, users, requests, installs and events,
any page size, and any damage to a table:

* `VerdictsAreExact`: `Spec => []ReportExact`.
* `ReceiptsAgree`: `HookSpec => []ReceiptAgrees`.
* `SettingsAreSafe`: `HookSpec => SettingsSafe`, an action property.
* `DemosAreWhole`: `ApiSpec => []InstalledIsWhole`.
* `ExportsAreSound`: `ApiSpec => []ExportSound`.
* `NothingIsSkipped`: `ApiSpec => []PagesSkipNothing`.

The verifier is proved as a loop. `Expecting` says what it carries from row to row,
`Reporting` what its report says of the rows it has passed; `Stages` ties both to the end of
the table. That a table with the root's count and hash is the chain that was written
(`TailFixesChain`) would be an induction along the chain; instead, the last row that
differs has a successor with the same hash on both sides, or the root.

Of the hooks, the invariant says that one request at a time is at work unless the receipt
is in doubt (`Alone`), what a request has prepared (`Prepared`), that an entry with our
tag has our command (`Tagged`), and which step a receipt waits for (`Receipted`).
The demo dataset has one owner while no removal overlapped (`OneOwner`): whoever
inserted the session, because a second insert fails; its rows are a function of where that
install is (`WrittenBy`). So a complete session is `Full`, and an export that read the summary
first reads, after it, a full part, of the events the earliest up to the limit (`Reads`, `EarliestRead`).

Pages are proved by ranks: an event that was there at the beginning and whose rank is below
the offset has been read (`PagesInv`). Arrivals only raise ranks, a page is an interval of
them, ranks have no gaps (`RankTaken`), so a short page reaches the end (`PageCount`), and what was
read, being an interval from the first rank, leaves out nothing before its last event.

`ObserversProofs` shows for any number of files, contents, changes, sessions, pids and
polls:

* `ManifestsCatchUp`: `Spec => []CaughtUp`.
* `LifecycleIsOrdered`: `Spec => []LifecycleOrdered`.
* `ObservedProcessesAreSound`: `ProcessSpec => []ProcessesSound`.

Of a file the invariant says what is left to record: either nothing removes it any more and
the manifest has its content, or a write of it is still to be read; or it is put there after
its last removal; or, when it is gone, a removal is on its way or the manifest does not
have it (`Settles`). Each kind of notification settles its path in its own way, and a fold
drops nothing that another does not tell (`FoldedTells`). A scan under way counts as the
manifest already (`Base`), because what is notified after it tells all that it missed
(`Retold`). The order of what is owed is proved by ranks (`Ordered`).

Of processes: a process whose parent descends from a root descends from it too, in the
table and in the last poll (`Inherited`), and where the pid of the root was not reused, the
process that has it is the root (`OnlyRoot`). The walk of `is_descendant` is stated as
the least set closed under children, so that the known descendants, being closed,
contain whatever it accepts (`LeadsUp`). `RootsStarted` follows the start of a root
through both ways in which it is found: by the poll, or by its registration.

The proofs assume what the modules' `ASSUME`s say of the constants, no more: model values
differ from data, batches are sequences of envelopes, snapshots and selections
have the right types, bounds are numbers. TLC evaluates these on every run.

Every safety property that a passing run checks is stated by a theorem. Only model-checked, and
out of the prover's reach, is what speaks of the future: liveness (`SessionsEnd`, `RunsEnd`,
`HistoryEnds`, `Settles`) and `ENABLED`.

## 5. Not modelled

* Agent formats other than those named, Git inspection, ignore rules, terminal sizes and input,
  start-up registration, search, export rendering, risk rules, configuration and types,
  authentication, views of the desktop: parsing, rendering or
  operating system calls without a state of their own that others depend on.
* Handlers of the API and commands of the CLI that make one call: the call is an
  action of the component called.
* Crash inside SQLite: its transactions are taken to be atomic and durable.
* Reconciliation of sessions left active by a crash: the code has none.

## 6. Plan

All planned modules are there, and every safety property a run checks is proved. What would come next
is more of the code: the remaining queries of the store, the handlers of the API that are
more than one call, and the adapters' parsers where they decide what a record is.
