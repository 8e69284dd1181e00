------------------------------- MODULE LocalApi -------------------------------
(* Operations of the local API that are several calls of the store              *)
(* (crates/agenttraceback-api/src/lib.rs:1268-1867): the demo dataset, whose     *)
(* project, session, file, versions and snapshots have fixed ids, while its      *)
(* events, pair and finding get new ones; the export of a session; and the       *)
(* timeline that the desktop reads page by page while events arrive.  Each call  *)
(* is a transaction of the writer or one committed read; the request may die     *)
(* after any of them.                                                            *)
EXTENDS Naturals, FiniteSets

CONSTANTS
    Installs,       \* requests of install_demo
    MaxRemovals,    \* bound: requests of remove_demo
    DemoEvents,     \* the number of events an install appends, 5 in the code: the
                    \* dataset stands for a session of any length
    ExportLimit,    \* the events that an export reads, 500 in the code
    Occurrences,    \* events of a timeline, by the time they occurred
    PageSize,       \* 500 in the code
    TimelineLimit   \* events after which the desktop reads no other page, 100 000

ASSUME ApiAssumption == PageSize \in Nat \ {0} /\ Occurrences \subseteq Nat
ASSUME LimitsAssumption == DemoEvents \in Nat \ {0} /\ ExportLimit \in Nat \ {0}
                        /\ TimelineLimit \in Nat

VARIABLES
    project, session, eventsOf, fileRow, versions, snapshots, pairs, findings, rootRow,
                    \* rows of the demo project; what refers to events names the install
                    \* whose events they are
    installing,     \* installing[i]: what install i does next, or how it ended
    disturbed,      \* installs that a removal overlapped
    removals,
    export,         \* the export under way
    exported,       \* the files of the export directory
    timeline,       \* occurrences stored
    cleared,        \* the timeline's project was deleted
    pages,          \* what the desktop has read, and how many, those read twice included
    begun           \* the timeline when it began, or {} before it

rows == <<project, session, eventsOf, fileRow, versions, snapshots, pairs, findings, rootRow>>
demo == <<installing, disturbed, removals>>
reading == <<timeline, cleared, pages, begun>>
apiVars == <<rows, demo, export, exported, reading>>

Roles == {"before", "after"}    \* of the versions and the snapshots
Idle == [at |-> "idle"]
Over == [at |-> "over"]     \* bound: one export is requested
Pending == {i \in Installs :
                installing[i] \notin {"idle", "installed", "present", "failed", "removed"}}

\* The rows that the call leaves alone, by name.
Goto(i, from, to) ==
    /\ installing[i] = from
    /\ installing' = [installing EXCEPT ![i] = to]
    /\ UNCHANGED <<disturbed, removals, export, exported, reading>>
-----------------------------------------------------------------------------
(* install_demo: a guard is a constraint of the schema, or of the writer, that  *)
(* makes the call fail; Fail answers for it.                                    *)

Lookup(i) ==
    /\ Goto(i, "idle", IF session # "none" THEN "present" ELSE "project")
    /\ UNCHANGED rows

UpsertProject(i) ==
    /\ Goto(i, "project", "session")
    /\ project' = TRUE
    /\ UNCHANGED <<session, eventsOf, fileRow, versions, snapshots, pairs, findings, rootRow>>

\* Faulty variant: the session is upserted.
AnySession == TRUE

\* A second insert of the session fails.
NewSession == session = "none"

CreateDemoSession(i) ==
    /\ project /\ NewSession
    /\ Goto(i, "session", "events")
    /\ session' = "active"
    /\ UNCHANGED <<project, eventsOf, fileRow, versions, snapshots, pairs, findings, rootRow>>

\* All in one transaction; those of another install are superseded.
AppendDemoEvents(i) ==
    /\ session # "none" /\ ~rootRow
    /\ Goto(i, "events", "file")
    /\ eventsOf' = eventsOf \cup {i}
    /\ UNCHANGED <<project, session, fileRow, versions, snapshots, pairs, findings, rootRow>>

UpsertFile(i) ==
    /\ project
    /\ Goto(i, "file", "before")
    /\ fileRow' = TRUE
    /\ UNCHANGED <<project, session, eventsOf, versions, snapshots, pairs, findings, rootRow>>

Version(role, i) == [role |-> role, of |-> i]

InsertVersion(i, role, to) ==
    /\ fileRow /\ session # "none" /\ i \in eventsOf
    /\ \A v \in versions : v.role # role
    /\ Goto(i, role, to)
    /\ versions' = versions \cup {Version(role, i)}
    /\ UNCHANGED <<project, session, eventsOf, fileRow, snapshots, pairs, findings, rootRow>>

SaveSnapshots(i) ==
    /\ project /\ session # "none" /\ fileRow
    /\ \A role \in Roles : \E v \in versions : v.role = role
    /\ Goto(i, "snapshots", "pair")
    /\ snapshots' = Roles
    /\ UNCHANGED <<project, session, eventsOf, fileRow, versions, pairs, findings, rootRow>>

SavePair(i) ==
    /\ session # "none" /\ i \in eventsOf /\ ~rootRow
    /\ Goto(i, "pair", "finding")
    /\ pairs' = pairs \cup {i}
    /\ UNCHANGED <<project, session, eventsOf, fileRow, versions, snapshots, findings, rootRow>>

SaveFinding(i) ==
    /\ session # "none" /\ i \in eventsOf
    /\ Goto(i, "finding", "complete")
    /\ findings' = findings \cup {i}
    /\ UNCHANGED <<project, session, eventsOf, fileRow, versions, snapshots, pairs, rootRow>>

CompleteDemo(i) ==
    /\ session # "none"
    /\ Goto(i, "complete", "finalize")
    /\ session' = "complete"
    /\ UNCHANGED <<project, eventsOf, fileRow, versions, snapshots, pairs, findings, rootRow>>

\* A finalized chain is left as it is, an empty one cannot be.
FinalizeDemo(i) ==
    /\ rootRow \/ eventsOf # {}
    /\ Goto(i, "finalize", "installed")
    /\ rootRow' = TRUE
    /\ UNCHANGED <<project, session, eventsOf, fileRow, versions, snapshots, pairs, findings>>

\* The call fails, or the daemon dies: what was written stays.
Fail(i) ==
    /\ i \in Pending
    /\ installing' = [installing EXCEPT ![i] = "failed"]
    /\ UNCHANGED <<rows, disturbed, removals, export, exported, reading>>

\* delete_project_data, in one transaction
RemoveDemo ==
    /\ removals < MaxRemovals /\ removals' = removals + 1
    /\ project' = FALSE /\ session' = "none" /\ eventsOf' = {} /\ fileRow' = FALSE
    /\ versions' = {} /\ snapshots' = {} /\ pairs' = {} /\ findings' = {} /\ rootRow' = FALSE
    /\ disturbed' = disturbed \cup Pending
    /\ installing' = [i \in Installs |-> IF installing[i] = "installed" THEN "removed"
                                         ELSE installing[i]]
    /\ UNCHANGED <<export, exported, reading>>

Install(i) ==
    \/ Lookup(i) \/ UpsertProject(i) \/ CreateDemoSession(i) \/ AppendDemoEvents(i)
    \/ UpsertFile(i)
    \/ InsertVersion(i, "before", "after") \/ InsertVersion(i, "after", "snapshots")
    \/ SaveSnapshots(i) \/ SavePair(i) \/ SaveFinding(i)
    \/ CompleteDemo(i) \/ FinalizeDemo(i) \/ Fail(i)
-----------------------------------------------------------------------------
(* create_export *)

Parts == {"events", "versions", "findings"}

\* The events of the session, those of an install in the order of their occurrence.
SessionEvents == eventsOf \X (1..DemoEvents)

\* What a limited read may return of them, the earliest first: those of two installs may
\* be interleaved.
FirstEvents ==
    {E \in SUBSET SessionEvents :
        /\ \A x \in E : \A n \in 1..x[2] : <<x[1], n>> \in E
        /\ Cardinality(E) <= ExportLimit
        /\ E = SessionEvents \/ Cardinality(E) = ExportLimit}

PartOf(part) == CASE part = "events" -> FirstEvents
                  [] part = "versions" -> {{v.role : v \in versions}}
                  [] part = "findings" -> {findings}

\* Faulty variant: the summary is that of the last read.
LatestSummary(part) == session

\* The summary was read before the parts.
SummaryOf(part) == export.session

StartExport ==
    /\ export = Idle /\ session # "none"
    /\ export' = [at |-> "reading", session |-> session, since |-> removals,
                  parts |-> [p \in Parts |-> {}], left |-> Parts]
    /\ UNCHANGED <<rows, demo, exported, reading>>

\* The three reads of the try_join may come in any order.
ReadPart(part) ==
    /\ export.at = "reading" /\ part \in export.left
    /\ \E found \in PartOf(part) :
          export' = [export EXCEPT !.parts[part] = found, !.left = @ \ {part},
                                   !.session = SummaryOf(part)]
    /\ UNCHANGED <<rows, demo, exported, reading>>

Bundle == [session |-> export.session, parts |-> export.parts,
           overlapped |-> removals > export.since \/ disturbed # {}]

\* The bundle is written beside its place and renamed.
WriteTemporary ==
    /\ export.at = "reading" /\ export.left = {}
    /\ export' = [export EXCEPT !.at = "written"]
    /\ exported' = [exported EXCEPT !.temporary = {Bundle}]
    /\ UNCHANGED <<rows, demo, reading>>

RenameExport ==
    /\ export.at = "written"
    /\ export' = Over
    /\ exported' = [temporary |-> {}, final |-> exported.temporary]
    /\ UNCHANGED <<rows, demo, reading>>

AbandonExport ==
    /\ export \notin {Idle, Over}
    /\ export' = Over
    /\ UNCHANGED <<rows, demo, exported, reading>>
-----------------------------------------------------------------------------
(* The timeline of another session, read by the desktop in pages *)

Before(n) == {m \in timeline : m < n}

\* A page of the events in their order: limit and offset.
Page(offset) == {n \in timeline : Cardinality(Before(n)) \in offset..(offset + PageSize - 1)}

\* An event arrives, as late as an import may bring it.
Arrive(n) ==
    /\ n \notin timeline /\ ~cleared
    /\ timeline' = timeline \cup {n}
    /\ UNCHANGED <<rows, demo, export, exported, cleared, pages, begun>>

\* delete_project_data
Clear ==
    /\ timeline # {} /\ ~cleared
    /\ timeline' = {} /\ cleared' = TRUE
    /\ UNCHANGED <<rows, demo, export, exported, pages, begun>>

\* Faulty variant: a full page is taken for the last.
FullIsLast(page) == Cardinality(page) <= PageSize

LastPage(page) == Cardinality(page) < PageSize

\* session_events of the desktop: the next page begins where the events read end, and
\* is the last when there are as many as it cares for.
ReadPage ==
    /\ pages.more
    /\ begun' = IF pages.offset = 0 THEN timeline ELSE begun
    /\ LET page == Page(pages.offset)
       IN pages' = [got |-> pages.got \cup page, offset |-> pages.offset + Cardinality(page),
                    more |-> /\ ~LastPage(page)
                             /\ pages.offset + Cardinality(page) < TimelineLimit]
    /\ UNCHANGED <<rows, demo, export, exported, timeline, cleared>>

ApiInit ==
    /\ project = FALSE /\ session = "none" /\ eventsOf = {} /\ fileRow = FALSE
    /\ versions = {} /\ snapshots = {} /\ pairs = {} /\ findings = {} /\ rootRow = FALSE
    /\ installing = [i \in Installs |-> "idle"]
    /\ disturbed = {} /\ removals = 0
    /\ export = Idle
    /\ exported = [temporary |-> {}, final |-> {}]
    /\ timeline = {} /\ cleared = FALSE
    /\ pages = [got |-> {}, offset |-> 0, more |-> TRUE]
    /\ begun = {}

DemoNext ==
    \/ \E i \in Installs : Install(i)
    \/ RemoveDemo
    \/ StartExport \/ \E part \in Parts : ReadPart(part)
    \/ WriteTemporary \/ RenameExport \/ AbandonExport

TimelineNext == Clear \/ ReadPage \/ \E n \in Occurrences : Arrive(n)

ApiSpec == ApiInit /\ [][DemoNext \/ TimelineNext]_apiVars
-----------------------------------------------------------------------------
\* Where no removal overlapped an install, one that got to its end has left the whole
\* dataset, and all of it its own, until it is removed, whatever other installs were
\* doing: the constraints of the schema make the others fail
\* (agenttraceback-api/src/lib.rs:1487-1843).
InstalledIsWhole ==
    \A i \in Installs :
        disturbed = {} /\ installing[i] = "installed" =>
            /\ session = "complete" /\ rootRow
            /\ versions = {Version(role, i) : role \in Roles} /\ snapshots = Roles
            /\ pairs = {i} /\ findings = {i}

\* An exported file is a whole bundle, and one that says the session was complete has
\* both versions, the finding and the events of the one install that completed it: all
\* of them, or exactly the earliest that fit the limit of the read.  So it is because the
\* summary is read first; a removal that overlaps the export or an install undoes it
\* (agenttraceback-api/src/lib.rs:1285-1303).
ExportSound ==
    \A b \in exported.final :
        b.session = "complete" /\ ~b.overlapped =>
            /\ b.parts.versions = Roles
            /\ \E i \in Installs :
                  /\ b.parts.findings = {i}
                  /\ b.parts.events = {i} \X {n \in 1..DemoEvents : n <= ExportLimit}

\* What was in the timeline when the desktop began to read it is in what it has read,
\* though events arrive before the offset meanwhile, unless the project was deleted; of a
\* timeline beyond the limit it has all that was there before the last event it read
\* (apps/desktop/src-tauri/src/lib.rs:144-173).
PagesSkipNothing ==
    ~cleared =>
        /\ \A n \in pages.got, m \in begun : m < n => m \in pages.got
        /\ ~pages.more => begun \subseteq pages.got \/ pages.offset >= TimelineLimit
=============================================================================
