---------------------------- MODULE ProjectObserver ----------------------------
(* The watcher task of a project and the manifest it keeps: notifications are   *)
(* drained and folded, each is recorded with what the file holds by then, and a *)
(* reported loss makes the task scan the project.  Files change at any time, and *)
(* further sessions replace the manifest.                                       *)
EXTENDS Naturals, Sequences, FiniteSets

CONSTANTS
    Paths,      \* files of the project
    Folder,     \* a directory
    Inside,     \* the files in it
    Ignored,    \* matched by an ignore rule
    Tracked,    \* in Git's index
    Contents,   \* hashes
    Absent,
    Unread,     \* after hash of an event without hashes
    MaxChanges, \* bound: changes made
    MaxPrepares \* bound: later sessions of the project

ASSUME ObserverAssumption ==
    /\ Inside \subseteq Paths /\ Ignored \subseteq Paths /\ Tracked \subseteq Paths
    /\ Folder \notin Paths /\ Absent \notin Contents /\ Unread \notin Contents \cup {Absent}

VARIABLES
    disk,       \* disk[p]: content of the file, or Absent
    watching,   \* the native watcher is installed
    notices,    \* notifications delivered, and errors
    batch,      \* what the task has drained
    todo,       \* positions in batch of what it is still to record
    task,       \* where the watcher task is
    scan,       \* the manifest a reconciliation has captured
    manifest,   \* the shared manifest
    prepared,   \* captures of prepares that are not yet the manifest
    last,       \* last[p]: the last event recorded of p
    owed,       \* lifecycle notifications that are to be sent, in order
    astray,     \* whether something happened that notifications do not tell
    stale,      \* a removal drained before the scan is still to be recorded
    changes, prepares   \* bounds

files == <<disk, notices>>
evidence == <<last, owed>>
vars == <<files, watching, batch, todo, task, scan, manifest, prepared, evidence,
          astray, stale, changes, prepares>>

\* The scan overrides ignore rules for tracked files, the notifications do not.
Scanned == (Paths \ Ignored) \cup (Ignored \cap Tracked)
Observed == Paths \ Ignored

\* ProjectManifest::capture
Captured == [p \in Paths |-> IF p \in Scanned THEN disk[p] ELSE Absent]
Empty == [p \in Paths |-> Absent]
Agrees(m) == \A p \in Observed : m[p] = disk[p]

IsRemoval(n) == n.kind \in {"deleted", "rename_from"}
Notice(p, kind) == [path |-> p, kind |-> kind]
IsLifecycle(n) == n.kind \notin {"modified", "error"} /\ n.path \notin Ignored

Owe(o, n) == IF IsLifecycle(n) THEN Append(o, n) ELSE o

\* A change is told in one or two notifications.
Owing(told) == IF Len(told) = 1 THEN Owe(owed, told[1]) ELSE Owe(Owe(owed, told[1]), told[2])
-----------------------------------------------------------------------------
(* Files change *)

\* What is not watched goes unnoticed; what is, is told or lost, and a loss is reported.
Notify(told) ==
    \/ /\ ~watching
       /\ UNCHANGED <<notices, owed, astray>>
    \/ /\ watching
       /\ notices' = notices \o told
       /\ owed' = Owing(told)
       /\ UNCHANGED astray
    \/ /\ watching
       /\ notices' = Append(notices, Notice(Folder, "error"))
       /\ astray' = IF astray = "never" THEN "once" ELSE astray
       /\ UNCHANGED owed

\* Notifications that do not tell all there is.
NotifyAstray(told) ==
    /\ astray' = IF watching THEN "now" ELSE astray
    /\ notices' = IF watching THEN notices \o told ELSE notices
    /\ owed' = IF watching THEN Owing(told) ELSE owed

Change(after) ==
    /\ changes < MaxChanges /\ changes' = changes + 1
    /\ disk' = after
    /\ UNCHANGED <<watching, batch, todo, task, scan, manifest, prepared, last, stale,
                   prepares>>

Write(p, c) ==
    /\ disk[p] # c
    /\ Change([disk EXCEPT ![p] = c])
    /\ Notify(IF disk[p] = Absent THEN <<Notice(p, "created"), Notice(p, "modified")>>
              ELSE <<Notice(p, "modified")>>)

Delete(p) ==
    /\ disk[p] # Absent
    /\ Change([disk EXCEPT ![p] = Absent])
    /\ Notify(<<Notice(p, "deleted")>>)

\* A rename that the backend pairs, or one it does not.
Rename(p, q) ==
    /\ p # q /\ disk[p] # Absent
    /\ Change([disk EXCEPT ![p] = Absent, ![q] = disk[p]])
    /\ \/ Notify(<<Notice(p, "rename_from"), Notice(q, "rename_to")>>)
       \/ NotifyAstray(<<Notice(p, "rename"), Notice(q, "rename")>>)

\* A directory goes with all its files, and only the directory is named.
MoveFolder ==
    /\ \E p \in Inside : disk[p] # Absent
    /\ Change([p \in Paths |-> IF p \in Inside THEN Absent ELSE disk[p]])
    /\ NotifyAstray(<<Notice(Folder, "rename_from")>>)

Environment ==
    \/ \E p \in Paths, c \in Contents : Write(p, c)
    \/ \E p \in Paths : Delete(p)
    \/ \E p \in Paths, q \in Paths : Rename(p, q)
    \/ MoveFolder
-----------------------------------------------------------------------------
(* The watcher task *)

\* The baseline was captured earlier: what changed since is not noticed.
Watch ==
    /\ ~watching
    /\ watching' = TRUE
    /\ astray' = IF Agrees(manifest) THEN astray ELSE "now"
    /\ UNCHANGED <<files, batch, todo, task, scan, manifest, prepared, evidence,
                   changes, stale, prepares>>

Repeated(q, i) == \E j \in 1..(i - 1) : q[j] = q[i]

\* Faulty variant: a repeated action is folded whatever it is.
FoldAny(q) == {i \in DOMAIN q : q[i].kind # "error" /\ ~Repeated(q, i)}

\* push_debounced: only modifications are folded, into an earlier one of the path, and
\* errors are kept apart.
Debounced(q) ==
    {i \in DOMAIN q : q[i].kind # "error" /\ ~(q[i].kind = "modified" /\ Repeated(q, i))}

\* drain_now
Drain ==
    /\ watching /\ task = "idle" /\ notices # <<>>
    /\ batch' = notices /\ todo' = Debounced(notices)
    /\ task' = IF \E i \in DOMAIN notices : notices[i].kind = "error" THEN "gap" ELSE "emit"
    /\ notices' = <<>>
    /\ UNCHANGED <<disk, watching, scan, manifest, prepared, evidence, astray, changes,
                   stale, prepares>>

\* emit_gap, and the scan of reconcile_after_overflow
Scan ==
    /\ task = "gap"
    /\ scan' = [before |-> manifest, now |-> Captured]
    /\ task' = "compare"
    /\ astray' = "once"
    /\ stale' = \E i \in todo : IsRemoval(batch[i]) /\ batch[i].path \in Observed
                                  /\ disk[batch[i].path] # Absent
    /\ UNCHANGED <<files, watching, batch, todo, manifest, prepared, evidence, changes,
                   prepares>>

\* A file that vanishes under it fails the scan, and nothing is reconciled.
ScanFails ==
    /\ task = "gap"
    /\ task' = "emit"
    /\ astray' = "now"
    /\ UNCHANGED <<files, watching, batch, todo, scan, manifest, prepared, evidence,
                   changes, stale, prepares>>

ReplacedByScan == scan.now

Difference(p) ==
    CASE scan.now[p] = Absent -> "deleted"
      [] scan.before[p] = Absent -> "created"
      [] OTHER -> "modified"

\* The differences are recorded without hashes, those that the pipeline accepts.
Compare ==
    /\ task = "compare"
    /\ manifest' = ReplacedByScan
    /\ \E accepted \in SUBSET Paths :
          last' = [p \in Paths |->
                     IF scan.before[p] = scan.now[p] \/ p \notin accepted THEN last[p]
                     ELSE [kind |-> Difference(p), after |-> Unread]]
    /\ task' = "emit"
    /\ scan' = [before |-> Empty, now |-> Empty]
    /\ UNCHANGED <<files, watching, batch, todo, prepared, owed, astray, changes,
                   stale, prepares>>

\* Faulty variant: what is gone stays in the manifest.
NeverForgets(n) ==
    IF disk[n.path] = Absent THEN manifest ELSE [manifest EXCEPT ![n.path] = disk[n.path]]

\* A removal takes the entry out, whatever is there by now; otherwise a file that is
\* there replaces its entry.
ManifestAfter(n) ==
    IF IsRemoval(n) THEN [manifest EXCEPT ![n.path] = Absent]
    ELSE IF disk[n.path] # Absent THEN [manifest EXCEPT ![n.path] = disk[n.path]]
    ELSE manifest

\* emit_file_event: the file is read now, whatever it was when it was notified.
Recording(n) ==
    /\ IF n.path \in Observed
       THEN /\ manifest' = ManifestAfter(n)
            /\ last' = [last EXCEPT ![n.path] = [kind |-> n.kind, after |-> disk[n.path]]]
       ELSE UNCHANGED <<manifest, last>>
    /\ UNCHANGED astray

\* The pipeline refuses the event, which only the log tells.
Refused(n) ==
    /\ n.path \in Observed
    /\ manifest' = ManifestAfter(n)
    /\ astray' = IF astray = "never" THEN "once" ELSE astray
    /\ UNCHANGED last

\* The file cannot be read: the event has no hash, and the manifest no new entry.
Unreadable(n) ==
    /\ n.path \in Observed /\ disk[n.path] # Absent
    /\ manifest' = IF IsRemoval(n) THEN [manifest EXCEPT ![n.path] = Absent] ELSE manifest
    /\ last' \in {last, [last EXCEPT ![n.path] = [kind |-> n.kind, after |-> Unread]]}
    /\ astray' = "now"

\* The oldest that is left is next; whatever becomes of it, it is not tried again.
Emit ==
    /\ task = "emit"
    /\ \E i \in todo :
          /\ \A j \in todo : i <= j
          /\ todo' = todo \ {i}
          /\ Recording(batch[i]) \/ Refused(batch[i]) \/ Unreadable(batch[i])
          /\ owed' = IF IsLifecycle(batch[i]) /\ owed # <<>> /\ batch[i] = Head(owed)
                     THEN Tail(owed) ELSE owed
    /\ UNCHANGED <<files, watching, batch, task, scan, prepared, changes, stale, prepares>>

EndBatch ==
    /\ task = "emit" /\ todo = {}
    /\ task' = "idle" /\ batch' = <<>>
    /\ UNCHANGED <<files, watching, todo, scan, manifest, prepared, evidence, astray,
                   changes, stale, prepares>>
-----------------------------------------------------------------------------
(* prepare_wrapper of another session of the project *)

\* The baseline, or with --no-recovery-snapshot an empty manifest,
CaptureBaseline ==
    /\ prepares < MaxPrepares /\ prepares' = prepares + 1
    /\ \E m \in {Captured, Empty} : prepared' = prepared \cup {m}
    /\ UNCHANGED <<files, watching, batch, todo, task, scan, manifest, evidence,
                   astray, stale, changes>>

\* becomes the manifest of all.
ReplaceManifest ==
    /\ \E m \in prepared :
         /\ manifest' = m
         /\ prepared' = prepared \ {m}
         /\ astray' = IF Agrees(m) THEN astray ELSE "now"
    /\ UNCHANGED <<files, watching, batch, todo, task, scan, evidence, changes, stale,
                   prepares>>

Init ==
    /\ disk \in [Paths -> Contents \cup {Absent}]
    /\ watching = FALSE
    /\ notices = <<>> /\ batch = <<>> /\ todo = {} /\ task = "idle"
    /\ manifest = Captured
    /\ scan = [before |-> Empty, now |-> Empty]
    /\ prepared = {}
    /\ last = [p \in Paths |-> [kind |-> "none", after |-> Absent]]
    /\ owed = <<>>
    /\ astray = "never" /\ stale = FALSE
    /\ changes = 0 /\ prepares = 0

Next ==
    \/ Environment
    \/ Watch \/ Drain \/ Scan \/ ScanFails \/ Compare \/ Emit \/ EndBatch
    \/ CaptureBaseline \/ ReplaceManifest

Spec == Init /\ [][Next]_vars
-----------------------------------------------------------------------------
AtRest == watching /\ task = "idle" /\ notices = <<>>

\* What was not notified apart, a task that has nothing left to do knows the files:
\* the manifest holds them, after losses and refused events too, and without these the
\* last event of a path tells what it holds; a file that could not be read leaves it
\* astray (coordinator.rs:675-900).
CaughtUp ==
    AtRest /\ astray # "now" /\ ~stale =>
        \A p \in Observed :
            /\ manifest[p] = disk[p]
            /\ astray = "never" => last[p].kind = "none" \/ last[p].after = disk[p]

\* "This recovers final state" (docs/architecture/capture.md:36-40): after a loss of
\* notifications was reconciled, and what follows was notified, the manifest holds
\* the files.  The removals drained with the error are applied after the scan.
FinalStateRecovered ==
    AtRest /\ astray # "now" => \A p \in Observed : manifest[p] = disk[p]

LifeTodo == {i \in todo : IsLifecycle(batch[i])}
LifeNotices == {i \in DOMAIN notices : IsLifecycle(notices[i])}
Rank(S, i) == Cardinality({j \in S : j <= i})

\* Creations, deletions and renames are sent to the pipeline one by one and in their
\* order, however modifications between them are folded (watcher.rs:139-190).
LifecycleOrdered ==
    /\ Len(owed) = Cardinality(LifeTodo) + Cardinality(LifeNotices)
    /\ \A i \in LifeTodo : owed[Rank(LifeTodo, i)] = batch[i]
    /\ \A i \in LifeNotices : owed[Cardinality(LifeTodo) + Rank(LifeNotices, i)] = notices[i]
=============================================================================
