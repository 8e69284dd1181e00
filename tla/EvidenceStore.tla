---------------------------- MODULE EvidenceStore ----------------------------
(***************************************************************************)
(* The single writer of the evidence store                                 *)
(* (crates/agenttraceback-store/src/writer.rs) over its SQLite database.   *)
(* db is the committed database, work the writer connection's view of it:  *)
(* they differ only inside the transaction of an append batch, which is    *)
(* modelled event by event so that a failing event, or a crash, rolls the  *)
(* whole batch back.  Every other command is one transaction, one step.    *)
(*                                                                         *)
(* Tables are sets of rows.  A chain is the sequence of the rows of one    *)
(* scope in ascending sequence number; each row still carries the number   *)
(* and the previous hash the code wrote into it.  SHA-256 is injective on  *)
(* entries, whose canonical form contains a fresh id, so the id of the     *)
(* target stands for the entry's hash and 0 for the zero hash.             *)
(***************************************************************************)
EXTENDS Naturals, Sequences, FiniteSets

CONSTANTS
    Sessions,           \* session ids
    Projects,           \* projects, identified by their comparison root
    Sources,            \* source identities (kind, adapter, native event id)
    Bodies,             \* what else an envelope says: time, action, content
    Blobs,              \* encrypted payloads
    None,               \* SQL NULL: no session (global scope), project, blob
    Envelopes,          \* the events callers submit
    Batches,            \* the batches of events callers submit
    MaxIds              \* bound on the ids EntityId::new() hands out

Scopes == Sessions \cup {None}
Ids == Nat \ {0}
ZeroHash == 0
NoEvent == 0

Envelope == [session : Scopes, project : Projects \cup {None},
             source : Sources, body : Bodies, blob : Blobs \cup {None}]

ASSUME NoneAssumption == None \notin Sessions \cup Projects \cup Blobs
ASSUME EnvelopesAssumption == Envelopes \subseteq Envelope
ASSUME BatchesAssumption == Batches \subseteq Seq(Envelopes)
ASSUME MaxIdsAssumption == MaxIds \in Nat

VARIABLES
    db,         \* the committed database
    work,       \* the database as the writer's connection sees it
    inTxn,      \* an append transaction is open
    pending,    \* the events of the open batch not yet processed
    cursors,    \* chain_cursors: the chain positions cached by the batch
    nextId,     \* the next fresh id
    refused,    \* projects whose deletion command returned an error
    agreed      \* history: every caller has kept the contract so far

vars == <<db, work, inTxn, pending, cursors, nextId, refused, agreed>>
-----------------------------------------------------------------------------
(* Rows *)

EventRow == [id : Ids, session : Scopes, project : Projects \cup {None},
             source : Sources, body : Bodies, blob : Blobs \cup {None},
             supersedes : Nat]
SourceRow == [event : Ids, source : Sources, supersededBy : Nat]
LinkRow == [event : Ids, session : Sessions]
Entry == [sequence : Nat, previous : Nat,
          kind : {"source_event", "correlation", "conflict"}, target : Ids]
RootRow == [count : Nat, hash : Nat]
PairRow == [id : Ids, kind : {"correlation", "conflict"}, session : Scopes,
            left : Ids, right : Ids]
FindingRow == [event : Ids, session : Scopes]
SessionState == {"absent", "active", "imported", "complete"}
Cursor == [known : BOOLEAN, sequence : Nat, hash : Nat]

NoRoot == [count |-> 0, hash |-> ZeroHash]
NoCursor == [known |-> FALSE, sequence |-> 0, hash |-> ZeroHash]

Database == [projects : SUBSET Projects,
             sessions : [Sessions -> SessionState],
             owner    : [Sessions -> Projects \cup {None}],
             events   : SUBSET EventRow,
             sources  : SUBSET SourceRow,
             links    : SUBSET LinkRow,
             chain    : [Scopes -> Seq(Entry)],
             roots    : [Scopes -> RootRow],
             pairs    : SUBSET PairRow,
             findings : SUBSET FindingRow,
             deleted  : SUBSET Ids,
             recorded : SUBSET Blobs,
             refs     : [Blobs -> Nat]]

EmptyDatabase ==
    [projects |-> {},
     sessions |-> [s \in Sessions |-> "absent"],
     owner    |-> [s \in Sessions |-> None],
     events   |-> {},
     sources  |-> {},
     links    |-> {},
     chain    |-> [s \in Scopes |-> <<>>],
     roots    |-> [s \in Scopes |-> NoRoot],
     pairs    |-> {},
     findings |-> {},
     deleted  |-> {},
     recorded |-> {},
     refs     |-> [b \in Blobs |-> 0]]
-----------------------------------------------------------------------------
(* Reading the database *)

HasSession(d, s) == s # None => d.sessions[s] # "absent"
HasProject(d, p) == p # None => p \in d.projects
HasEvent(d, id) == \E e \in d.events : e.id = id
ChainRootExists(d, s) == d.roots[s].count > 0

\* The position after which the next entry of a chain goes.
LastChainPosition(rows) ==
    IF rows = <<>> THEN [known |-> TRUE, sequence |-> 0, hash |-> ZeroHash]
    ELSE [known |-> TRUE, sequence |-> rows[Len(rows)].sequence,
          hash |-> rows[Len(rows)].target]

\* The chain position inside a batch: the cached one, or the table's.
NextChainPosition(d, s) ==
    IF cursors[s].known THEN cursors[s] ELSE LastChainPosition(d.chain[s])

\* The events whose source row is the live one of env's source identity.
ExistingSource(d, env) ==
    {e \in d.events : \E r \in d.sources : /\ r.event = e.id
                                           /\ r.source = env.source
                                           /\ r.supersededBy = NoEvent}

\* source_identity_value: equality of envelopes up to id, observation time
\* and finding ids; the session and the project take part in it.
SameIdentity(e, env) ==
    /\ e.session = env.session
    /\ e.project = env.project
    /\ e.body = env.body
    /\ e.blob = env.blob

\* The callers' contract: a session event names the project its session has
\* now, and the payload of an event is recorded before the event is.  Nothing
\* in the store enforces it.
Agrees(d, env) ==
    /\ env.session # None => env.project = d.owner[env.session]
    /\ env.blob # None => env.blob \in d.recorded
-----------------------------------------------------------------------------
(* Writing it *)

\* The chain row written after position last.
NextEntry(last, kind, id) ==
    [sequence |-> last.sequence + 1, previous |-> last.hash,
     kind |-> kind, target |-> id]

\* Faulty variant: the cache keeps the position that was read, not the new one.
CursorNotAdvanced(last, id) == last

\* The cached chain position after an event has been persisted at last.
CursorAfter(last, id) ==
    [known |-> TRUE, sequence |-> last.sequence + 1, hash |-> id]

\* Faulty variant: the superseded version stays live.
MarkNothing(rows, previous, id) == rows

MarkSuperseded(rows, previous, id) ==
    {IF r.event = previous /\ r.supersededBy = NoEvent
     THEN [r EXCEPT !.supersededBy = id] ELSE r : r \in rows}

\* chain_scope: the session's own chain, or the global one.
ScopeOf(env) == env.session

\* persist_new_event: the event, its source identity, its session link, its
\* chain entry and the reference count of its blob, in one transaction.
PersistNewEvent(d, env, id, previous) ==
    [d EXCEPT
        !.events = @ \cup {[id |-> id, session |-> env.session,
                            project |-> env.project, source |-> env.source,
                            body |-> env.body, blob |-> env.blob,
                            supersedes |-> previous]},
        !.sources = MarkSuperseded(@, previous, id)
                      \cup {[event |-> id, source |-> env.source,
                             supersededBy |-> NoEvent]},
        !.refs = [b \in Blobs |->
                    IF b = env.blob /\ b \in d.recorded
                    THEN d.refs[b] + 1 ELSE d.refs[b]],
        !.links = @ \cup {[event |-> id, session |-> s] :
                             s \in {env.session} \ {None}},
        !.chain[ScopeOf(env)] =
            Append(@, NextEntry(NextChainPosition(d, ScopeOf(env)), "source_event", id))]

\* A correlation or conflict row (a correlation of a known pair is not
\* inserted again) and its chain entry, which is appended in either case.
PersistPair(d, kind, s, left, right, id) ==
    [d EXCEPT
        !.pairs = IF kind = "correlation" /\ \E q \in d.pairs :
                        /\ q.kind = kind /\ q.left = left /\ q.right = right
                  THEN @
                  ELSE @ \cup {[id |-> id, kind |-> kind, session |-> s,
                                left |-> left, right |-> right]},
        !.chain[s] = Append(@, NextEntry(LastChainPosition(@), kind, id))]

ProjectSessions(d, p) == {s \in Sessions : /\ d.sessions[s] # "absent"
                                           /\ d.owner[s] = p}

ProjectEvents(d, p) == {e \in d.events : e.project = p}
ProjectEventIds(d, p) == {e.id : e \in ProjectEvents(d, p)}

\* DELETE FROM events visits rows in insertion order, and the foreign key of
\* supersedes_event_id is ON DELETE RESTRICT: a superseded event cannot go
\* while the event that superseded it is still there.
DeletionRestricted(d, p) ==
    \E e \in ProjectEvents(d, p), f \in d.events : f.supersedes = e.id

SourceEventTargets(rows) ==
    {rows[i].target : i \in {j \in DOMAIN rows : rows[j].kind = "source_event"}}

\* The source rows of the remaining events; ON DELETE SET NULL makes a row
\* live again when the event that superseded it goes.
SourcesWithout(d, gone) ==
    {IF r.supersededBy \in gone THEN [r EXCEPT !.supersededBy = NoEvent] ELSE r :
       r \in {q \in d.sources : q.event \notin gone}}

\* Deleted with either event, or by the cascade from the session.
PairsWithout(d, gone, closed) ==
    {q \in d.pairs : q.left \notin gone /\ q.right \notin gone /\ q.session \notin closed}

\* Faulty variant: the global chain gets no markers.
NoMarkers(d, gone) == {}

\* deleted_chain_targets: the deleted events that have a global chain entry.
DeletionMarkers(d, gone) == gone \cap SourceEventTargets(d.chain[None])

\* delete_project_data, with the cascades of the schema: the rows of the
\* project's events and of its sessions go, global chain rows stay and their
\* targets are marked deleted, a source row whose superseding event went is
\* live again.
Purged(d, p) ==
    LET gone == ProjectEventIds(d, p)
        closed == ProjectSessions(d, p)
    IN [d EXCEPT
          !.projects = @ \ {p},
          !.sessions = [s \in Sessions |-> IF s \in closed THEN "absent"
                                           ELSE d.sessions[s]],
          !.owner = [s \in Sessions |-> IF s \in closed THEN None
                                        ELSE d.owner[s]],
          !.events = d.events \ ProjectEvents(d, p),
          !.sources = SourcesWithout(d, gone),
          !.links = {r \in d.links : r.event \notin gone /\ r.session \notin closed},
          !.chain = [s \in Scopes |-> IF s \in closed THEN <<>> ELSE d.chain[s]],
          !.roots = [s \in Scopes |-> IF s \in closed THEN NoRoot ELSE d.roots[s]],
          !.pairs = PairsWithout(d, gone, closed),
          !.findings = {f \in d.findings : /\ f.event \notin gone
                                           /\ f.session \notin closed},
          !.deleted = @ \cup DeletionMarkers(d, gone)]
-----------------------------------------------------------------------------
Init ==
    /\ db = EmptyDatabase
    /\ work = EmptyDatabase
    /\ inTxn = FALSE
    /\ pending = <<>>
    /\ cursors = [s \in Scopes |-> NoCursor]
    /\ nextId = 1
    /\ refused = {}
    /\ agreed = TRUE

\* A command that is one transaction: it commits d.
Commit(d) ==
    /\ ~inTxn
    /\ work' = d
    /\ db' = d
    /\ UNCHANGED <<inTxn, pending, cursors>>

FreshId == nextId <= MaxIds /\ nextId' = nextId + 1

UpsertProject(p) ==
    /\ Commit([work EXCEPT !.projects = @ \cup {p}])
    /\ UNCHANGED <<nextId, refused, agreed>>

CreateSession(s, p) ==
    /\ work.sessions[s] = "absent"
    /\ HasProject(work, p)
    /\ Commit([work EXCEPT !.sessions[s] = "active", !.owner[s] = p])
    /\ UNCHANGED <<nextId, refused, agreed>>

\* upsert_session of an import: an existing session keeps its state and, when
\* the import knows no project, its project; otherwise it moves to p.
UpsertSession(s, p) ==
    /\ HasProject(work, p)
    /\ Commit([work EXCEPT
                 !.sessions[s] = IF @ = "absent" THEN "imported" ELSE @,
                 !.owner[s] = IF p = None THEN @ ELSE p])
    /\ agreed' = (agreed /\ (work.sessions[s] # "absent" => p \in {None, work.owner[s]}))
    /\ UNCHANGED <<nextId, refused>>

CompleteSession(s) ==
    /\ work.sessions[s] # "absent"
    /\ Commit([work EXCEPT !.sessions[s] = "complete"])
    /\ UNCHANGED <<nextId, refused, agreed>>

\* Faulty variant: recording a known blob again resets its reference count.
RecordBlobAfresh(b) ==
    /\ Commit([work EXCEPT !.recorded = @ \cup {b}, !.refs[b] = 0])
    /\ UNCHANGED <<nextId, refused, agreed>>

\* A known blob keeps its reference count.
RecordBlob(b) ==
    /\ Commit([work EXCEPT !.recorded = @ \cup {b}])
    /\ UNCHANGED <<nextId, refused, agreed>>

SaveRiskFinding(e) ==
    /\ e \in work.events
    /\ Commit([work EXCEPT !.findings =
                 @ \cup {[event |-> e.id, session |-> e.session]}])
    /\ UNCHANGED <<nextId, refused, agreed>>

\* Faulty variant: the root of the session is not looked at.
SaveCorrelationLate(kind, s, left, right) ==
    /\ HasSession(work, s)
    /\ HasEvent(work, left) /\ HasEvent(work, right)
    /\ FreshId
    /\ Commit(PersistPair(work, kind, s, left, right, nextId))
    /\ UNCHANGED <<refused, agreed>>

\* The pair is of two persisted events; the session's chain is still open.
SaveCorrelation(kind, s, left, right) ==
    /\ HasSession(work, s)
    /\ HasEvent(work, left) /\ HasEvent(work, right)
    /\ ~ChainRootExists(work, s)
    /\ FreshId
    /\ Commit(PersistPair(work, kind, s, left, right, nextId))
    /\ UNCHANGED <<refused, agreed>>

\* A chain that has a root keeps it, an empty chain gets none.
FinalizeChain(s) ==
    /\ ~ChainRootExists(work, s)
    /\ work.chain[s] # <<>>
    /\ Commit([work EXCEPT !.roots[s] =
                 LET last == LastChainPosition(work.chain[s])
                 IN [count |-> last.sequence, hash |-> last.hash]])
    /\ UNCHANGED <<nextId, refused, agreed>>

DeleteProject(p) ==
    /\ ~DeletionRestricted(work, p)
    /\ Commit(Purged(work, p))
    /\ UNCHANGED <<nextId, refused, agreed>>

\* The foreign key error rolls the whole deletion back.
DeleteProjectRefused(p) ==
    /\ ~inTxn
    /\ DeletionRestricted(work, p)
    /\ refused' = refused \cup {p}
    /\ UNCHANGED <<db, work, inTxn, pending, cursors, nextId, agreed>>

(* append_events, event by event *)

AppendBegin(batch) ==
    /\ ~inTxn
    /\ inTxn' = TRUE
    /\ pending' = batch
    /\ cursors' = [s \in Scopes |-> NoCursor]
    /\ agreed' = (agreed /\ \A i \in DOMAIN batch : Agrees(work, batch[i]))
    /\ UNCHANGED <<db, work, nextId, refused>>

\* The live version of the source says the same: it is returned, not stored.
AppendDuplicate ==
    /\ inTxn /\ pending # <<>>
    /\ \E e \in ExistingSource(work, Head(pending)) : SameIdentity(e, Head(pending))
    /\ pending' = Tail(pending)
    /\ UNCHANGED <<db, work, inTxn, cursors, nextId, refused, agreed>>

\* The constraints persist_new_event meets: an open chain, a session row.
Persistable(d, env) ==
    /\ ~ChainRootExists(d, env.session)
    /\ HasSession(d, env.session)
    /\ HasProject(d, env.project)

\* A new source event, or a changed version that supersedes the live one.
AppendNew ==
    /\ inTxn /\ pending # <<>>
    /\ LET env == Head(pending)
           existing == ExistingSource(work, env)
       IN /\ \A e \in existing : ~SameIdentity(e, env)
          /\ Persistable(work, env)
          /\ FreshId
          /\ \E previous \in IF existing = {} THEN {NoEvent}
                             ELSE {e.id : e \in existing} :
                work' = PersistNewEvent(work, env, nextId, previous)
          /\ cursors' = [cursors EXCEPT ![ScopeOf(env)] =
                           CursorAfter(NextChainPosition(work, ScopeOf(env)), nextId)]
    /\ pending' = Tail(pending)
    /\ UNCHANGED <<db, inTxn, refused, agreed>>

\* An error in one event, or a crash, discards the batch.
AppendRollback ==
    /\ inTxn
    /\ inTxn' = FALSE
    /\ pending' = <<>>
    /\ work' = db
    /\ cursors' = [s \in Scopes |-> NoCursor]
    /\ UNCHANGED <<db, nextId, refused, agreed>>

AppendCommit ==
    /\ inTxn /\ pending = <<>>
    /\ inTxn' = FALSE
    /\ db' = work
    /\ cursors' = [s \in Scopes |-> NoCursor]
    /\ UNCHANGED <<work, pending, nextId, refused, agreed>>

Next ==
    \/ \E p \in Projects : \/ UpsertProject(p)
                           \/ DeleteProject(p)
                           \/ DeleteProjectRefused(p)
    \/ \E s \in Sessions : \/ CompleteSession(s)
                           \/ \E p \in Projects \cup {None} : \/ CreateSession(s, p)
                                                              \/ UpsertSession(s, p)
    \/ \E b \in Blobs : RecordBlob(b)
    \/ \E e \in work.events : SaveRiskFinding(e)
    \/ \E s \in Scopes : \/ FinalizeChain(s)
                         \/ \E kind \in {"correlation", "conflict"}, left, right \in work.events :
                              left # right /\ SaveCorrelation(kind, s, left.id, right.id)
    \/ \E batch \in Batches : AppendBegin(batch)
    \/ AppendDuplicate
    \/ AppendNew
    \/ AppendRollback
    \/ AppendCommit

Spec == Init /\ [][Next]_vars
-----------------------------------------------------------------------------
(* Correctness.  The predicates on d are required of the committed database *)
(* and of the writer's view alike.                                          *)

\* Every variable has its type, and a transaction that is not open has no
\* effect: nothing is pending and the writer sees the committed database.
TypeOK ==
    /\ db \in Database
    /\ work \in Database
    /\ inTxn \in BOOLEAN
    /\ pending \in Seq(Envelope)
    /\ cursors \in [Scopes -> Cursor]
    /\ nextId \in Ids
    /\ refused \subseteq Projects
    /\ agreed \in BOOLEAN
    /\ ~inTxn => work = db /\ pending = <<>>

WellFormed(rows) ==
    \A i \in DOMAIN rows :
        /\ rows[i].sequence = i
        /\ rows[i].previous = IF i = 1 THEN ZeroHash ELSE rows[i - 1].target

\* In every scope the sequence numbers run from 1 without a gap and each entry
\* carries the hash of its predecessor, whatever batches were cut short, rolled
\* back or supersede events across sessions, and whatever was deleted: the
\* verifier finds nothing missing and nothing reordered.
ChainsWellFormed ==
    \A s \in Scopes : WellFormed(db.chain[s]) /\ WellFormed(work.chain[s])

RootMatchesTail(d) ==
    \A s \in Scopes : ChainRootExists(d, s) =>
        /\ d.roots[s].count = Len(d.chain[s])
        /\ d.chain[s] # <<>>
        /\ d.roots[s].hash = d.chain[s][Len(d.chain[s])].target

\* A published root stays the digest of the whole chain: nothing is appended
\* after it, by an event, a correlation or a conflict, and a deletion takes
\* the root away together with the entries it covers.
RootsMatchTails == RootMatchesTail(db) /\ RootMatchesTail(work)

\* Every chain has no gap and no fork, and a published root is the digest of
\* the whole of its chain.
ChainsSound == ChainsWellFormed /\ RootsMatchTails

OneLive(d) ==
    \A r, q \in d.sources :
        /\ r.event = q.event => r = q
        /\ r.source = q.source /\ r.supersededBy = NoEvent /\ q.supersededBy = NoEvent
             => r = q

\* A source identity has at most one live version, so a repeated import finds
\* it and is idempotent; corrections, also by an event of another session or
\* project whose deletion revives the version it replaced, never leave two.
OneLiveVersion == OneLive(db) /\ OneLive(work)

Linear(d) ==
    /\ \A r \in d.sources : r.supersededBy # NoEvent =>
          \E e \in d.events : /\ e.id = r.supersededBy
                              /\ e.supersedes = r.event
                              /\ e.source = r.source
    /\ \A e \in d.events : e.supersedes # NoEvent =>
          \E r \in d.sources : r.event = e.supersedes /\ r.supersededBy = e.id

\* The two records of a correction agree: the event says which event it
\* supersedes exactly when the source row of that event names it as successor,
\* also after deletions, which may take the newer version but never leave one
\* that points at an event that is gone.
SupersessionAgrees == Linear(db) /\ Linear(work)

\* However often sources are read again, corrected and deleted, a source has at
\* most one live version and the records of each correction agree.
SourceVersions == OneLiveVersion /\ SupersessionAgrees

\* While callers keep events in the project of their session, every source
\* event entry of every chain has its event or the marker of an audited
\* deletion: the verifier reports no missing row.
ChainedEventsAccounted == agreed =>
    \A d \in {db, work} : \A s \in Scopes :
        \A id \in SourceEventTargets(d.chain[s]) : HasEvent(d, id) \/ id \in d.deleted

\* Conversely, under the same contract, no event is outside the chain of its
\* scope: a deletion that empties a session's chain takes the events with it.
EventsAreChained == agreed =>
    \A d \in {db, work} : \A e \in d.events : e.id \in SourceEventTargets(d.chain[e.session])

\* The reference count of a blob covers the events that name it; deletion
\* keeps the count, so it may exceed them and no collector may trust it to be
\* exact.
ReferencesCovered == agreed =>
    \A b \in Blobs : Cardinality({e \in db.events : e.blob = b}) <= db.refs[b]

\* A correlation or conflict the timeline shows is covered by the chain of its
\* session, also after a deletion in another project.
PairsAreChained ==
    \A q \in db.pairs : \E i \in DOMAIN db.chain[q.session] :
        db.chain[q.session][i].kind = q.kind /\ db.chain[q.session][i].target = q.id

\* What the chains name is there or marked as deleted, and what is there is in
\* its chain.
DeletionAccounted == ChainedEventsAccounted /\ EventsAreChained /\ PairsAreChained

\* No step changes a committed event, and none removes one except the deletion
\* of the project it belongs to.
EventsKept == \A e \in db.events : e \in db'.events \/ e.project \in db.projects \ db'.projects

\* A deletion takes the events of its project and no others, whatever corrections
\* and correlations join them to the rows of another project, and leaves chains,
\* events and markers in agreement.
DeletionExact == [][EventsKept /\ DeletionAccounted']_vars

\* A deletion command is never refused.
DeletionNeverRefused == refused = {}

\* The store implements the evidence log: chains as logs of target ids, roots
\* as seals.
Log == INSTANCE EvidenceLog WITH
         log <- [s \in Scopes |-> [i \in DOMAIN db.chain[s] |-> db.chain[s][i].target]],
         sealed <- [s \in Scopes |-> ChainRootExists(db, s)]

ImplementsLog == Log!LogSpec
=============================================================================
