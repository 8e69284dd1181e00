------------------------- MODULE EvidenceStoreProofs -------------------------
(***************************************************************************)
(* Proofs about EvidenceStore, for every set of sessions, projects,        *)
(* sources and envelopes and without the bounds of the TLC instances:      *)
(* first about the chains, then about a history as a whole, and last about *)
(* a verification beside the writer.                                       *)
(***************************************************************************)
EXTENDS ChainVerification, SequenceTheorems, FiniteSetTheorems, TLAPS

USE NoneAssumption, EnvelopesAssumption, BatchesAssumption, MaxIdsAssumption
-----------------------------------------------------------------------------
(* Types of the operators the actions are built from *)

\* The entry after a position has the type of a chain row.
LEMMA NextEntryType ==
    ASSUME NEW last \in Cursor, NEW id \in Ids,
           NEW kind \in {"source_event", "correlation", "conflict"}
    PROVE  NextEntry(last, kind, id) \in Entry
  BY DEF NextEntry, Entry, Cursor, Ids

\* The position at the end of a chain is a cursor.
LEMMA LastChainPositionType ==
    ASSUME NEW rows \in Seq(Entry)
    PROVE  LastChainPosition(rows) \in Cursor
<1>1. CASE rows = <<>>
  BY <1>1 DEF LastChainPosition, Cursor, ZeroHash
<1>2. CASE rows # <<>>
  <2>1. rows[Len(rows)] \in Entry
    BY <1>2
  <2>2. QED
    BY <1>2, <2>1 DEF LastChainPosition, Cursor, Entry, Ids
<1>3. QED
  BY <1>1, <1>2

\* The position an event is appended at is a cursor.
LEMMA NextChainPositionType ==
    ASSUME NEW d \in Database, NEW s \in Scopes, cursors \in [Scopes -> Cursor]
    PROVE  NextChainPosition(d, s) \in Cursor
<1>1. d.chain[s] \in Seq(Entry)
  BY DEF Database
<1>2. LastChainPosition(d.chain[s]) \in Cursor
  BY <1>1, LastChainPositionType
<1>3. QED
  BY <1>2 DEF NextChainPosition

\* Persisting an event yields a database.
LEMMA PersistNewEventType ==
    ASSUME NEW d \in Database, NEW env \in Envelope, NEW id \in Ids,
           NEW previous \in Nat, cursors \in [Scopes -> Cursor]
    PROVE  PersistNewEvent(d, env, id, previous) \in Database
<1> DEFINE D == PersistNewEvent(d, env, id, previous)
           entry == NextEntry(NextChainPosition(d, ScopeOf(env)), "source_event", id)
<1>1. ScopeOf(env) \in Scopes
  BY DEF ScopeOf, Envelope
<1>2. entry \in Entry
  BY <1>1, NextChainPositionType, NextEntryType
<1>3. D.chain \in [Scopes -> Seq(Entry)]
  <2>1. d.chain \in [Scopes -> Seq(Entry)]
    BY DEF Database
  <2>2. Append(d.chain[ScopeOf(env)], entry) \in Seq(Entry)
    BY <1>1, <1>2, <2>1
  <2>3. D.chain = [d.chain EXCEPT ![ScopeOf(env)] = Append(@, entry)]
    BY DEF PersistNewEvent, Database
  <2>4. QED
    BY <2>1, <2>2, <2>3
<1>4. D.events \in SUBSET EventRow
  BY DEF PersistNewEvent, Database, EventRow, Envelope
<1>5. D.sources \in SUBSET SourceRow
  <2>1. MarkSuperseded(d.sources, previous, id) \in SUBSET SourceRow
    <3>1. \A r \in SourceRow : [r EXCEPT !.supersededBy = id] \in SourceRow
      BY DEF SourceRow, Ids
    <3>2. d.sources \subseteq SourceRow
      BY DEF Database
    <3>3. QED
      BY <3>1, <3>2 DEF MarkSuperseded
  <2>2. QED
    BY <2>1 DEF PersistNewEvent, Database, SourceRow, Envelope, NoEvent
<1>6. D.refs \in [Blobs -> Nat]
  BY DEF PersistNewEvent, Database
<1>7. D.links \in SUBSET LinkRow
  BY DEF PersistNewEvent, Database, LinkRow, Envelope, Scopes
<1>8. QED
  BY <1>3, <1>4, <1>5, <1>6, <1>7 DEF PersistNewEvent, Database

\* Recording a correlation or a conflict yields a database.
LEMMA PersistPairType ==
    ASSUME NEW d \in Database, NEW kind \in {"correlation", "conflict"},
           NEW s \in Scopes, NEW left \in Ids, NEW right \in Ids, NEW id \in Ids
    PROVE  PersistPair(d, kind, s, left, right, id) \in Database
<1> DEFINE D == PersistPair(d, kind, s, left, right, id)
           entry == NextEntry(LastChainPosition(d.chain[s]), kind, id)
<1>1. d.chain \in [Scopes -> Seq(Entry)]
  BY DEF Database
<1>2. entry \in Entry
  BY <1>1, LastChainPositionType, NextEntryType
<1>3. D.chain \in [Scopes -> Seq(Entry)]
  <2>1. Append(d.chain[s], entry) \in Seq(Entry)
    BY <1>1, <1>2
  <2>2. D.chain = [d.chain EXCEPT ![s] = Append(d.chain[s], entry)]
    BY DEF PersistPair, Database
  <2>3. QED
    BY <1>1, <2>1, <2>2
<1>4. D.pairs \in SUBSET PairRow
  BY DEF PersistPair, Database, PairRow
<1>5. QED
  BY <1>3, <1>4 DEF PersistPair, Database

\* Deleting a project yields a database.
LEMMA PurgedType ==
    ASSUME NEW d \in Database, NEW p \in Projects
    PROVE  Purged(d, p) \in Database
<1> DEFINE D == Purged(d, p)
           gone == ProjectEventIds(d, p)
<1>1. D.sources \in SUBSET SourceRow
  <2>1. \A r \in SourceRow : [r EXCEPT !.supersededBy = NoEvent] \in SourceRow
    BY DEF SourceRow, NoEvent
  <2>2. SourcesWithout(d, gone) \in SUBSET SourceRow
    BY <2>1 DEF SourcesWithout, Database
  <2>3. QED
    BY <2>2 DEF Purged, Database
<1>2. D.deleted \in SUBSET Ids
  <2>1. gone \subseteq Ids
    BY DEF ProjectEventIds, ProjectEvents, Database, EventRow
  <2>2. QED
    BY <2>1 DEF Purged, Database, DeletionMarkers
<1>3. D.chain \in [Scopes -> Seq(Entry)]
  BY EmptySeq DEF Purged, Database
<1>4. D.roots \in [Scopes -> RootRow]
  BY DEF Purged, Database, NoRoot, RootRow, ZeroHash
<1>5. D.pairs \in SUBSET PairRow
  BY DEF Purged, Database, PairsWithout
<1>6. QED
  BY <1>1, <1>2, <1>3, <1>4, <1>5 DEF Purged, Database, SessionState
-----------------------------------------------------------------------------
(* Type correctness *)

\* The empty database has its type.
LEMMA EmptyDatabaseType == EmptyDatabase \in Database
<1>1. [s \in Scopes |-> <<>>] \in [Scopes -> Seq(Entry)]
  BY EmptySeq
<1>2. QED
  BY <1>1 DEF EmptyDatabase, Database, SessionState, NoRoot, RootRow, ZeroHash

\* A command that commits a database of the right type keeps every type.
LEMMA CommitType ==
    ASSUME TypeOK, NEW d \in Database, Commit(d),
           nextId' \in Ids, refused' \subseteq Projects, agreed' \in BOOLEAN
    PROVE  TypeOK'
  BY DEF TypeOK, Commit

\* A fresh id leaves the id generator at an id.
LEMMA FreshIdType ==
    ASSUME TypeOK, FreshId
    PROVE  nextId' \in Ids
  BY DEF TypeOK, FreshId, Ids

\* Finalizing a chain that is not empty writes a root.
LEMMA FinalizedType ==
    ASSUME NEW d \in Database, NEW s \in Scopes
    PROVE  [d EXCEPT !.roots[s] =
                 LET last == LastChainPosition(d.chain[s])
                 IN [count |-> last.sequence, hash |-> last.hash]] \in Database
<1> DEFINE last == LastChainPosition(d.chain[s])
           root == [count |-> last.sequence, hash |-> last.hash]
<1>1. last \in Cursor
  BY LastChainPositionType DEF Database
<1>2. root \in RootRow
  BY <1>1 DEF Cursor, RootRow
<1>3. [d.roots EXCEPT ![s] = root] \in [Scopes -> RootRow]
  BY <1>2 DEF Database
<1>4. [d EXCEPT !.roots = [d.roots EXCEPT ![s] = root]] \in Database
  BY <1>3 DEF Database
<1>5. QED
  BY <1>4 DEF Database

\* Initially every variable has its type.
LEMMA InitType == Init => TypeOK
<1> SUFFICES ASSUME Init PROVE TypeOK
  OBVIOUS
<1>1. db \in Database /\ work \in Database
  BY EmptyDatabaseType DEF Init
<1>2. pending \in Seq(Envelope)
  BY EmptySeq DEF Init
<1>3. cursors \in [Scopes -> Cursor]
  BY DEF Init, NoCursor, Cursor, ZeroHash
<1>4. nextId \in Ids
  BY DEF Init, Ids
<1>5. /\ inTxn = FALSE /\ agreed = TRUE /\ refused \subseteq Projects
      /\ work = db /\ pending = <<>>
  BY DEF Init
<1>6. QED
  BY <1>1, <1>2, <1>3, <1>4, <1>5 DEF TypeOK

\* Every step keeps the types.
LEMMA NextType == TypeOK /\ [Next]_vars => TypeOK'
<1> SUFFICES ASSUME TypeOK, [Next]_vars PROVE TypeOK'
  OBVIOUS
<1>1. ASSUME NEW p \in Projects, UpsertProject(p) PROVE TypeOK'
  <2>1. [work EXCEPT !.projects = @ \cup {p}] \in Database
    BY DEF TypeOK, Database
  <2>2. QED
    BY <1>1, <2>1, CommitType DEF UpsertProject, TypeOK
<1>2. ASSUME NEW p \in Projects, DeleteProject(p) PROVE TypeOK'
  <2>1. Purged(work, p) \in Database
    BY PurgedType DEF TypeOK
  <2>2. QED
    BY <1>2, <2>1, CommitType DEF DeleteProject, TypeOK
<1>3. ASSUME NEW p \in Projects, DeleteProjectRefused(p) PROVE TypeOK'
  BY <1>3 DEF DeleteProjectRefused, TypeOK
<1>4. ASSUME NEW s \in Sessions, CompleteSession(s) PROVE TypeOK'
  <2>1. [work EXCEPT !.sessions[s] = "complete"] \in Database
    BY DEF TypeOK, Database, SessionState
  <2>2. QED
    BY <1>4, <2>1, CommitType DEF CompleteSession, TypeOK
<1>5. ASSUME NEW s \in Sessions, NEW p \in Projects \cup {None}, CreateSession(s, p)
      PROVE  TypeOK'
  <2>1. [work EXCEPT !.sessions[s] = "active", !.owner[s] = p] \in Database
    BY DEF TypeOK, Database, SessionState
  <2>2. QED
    BY <1>5, <2>1, CommitType DEF CreateSession, TypeOK
<1>6. ASSUME NEW s \in Sessions, NEW p \in Projects \cup {None}, UpsertSession(s, p)
      PROVE  TypeOK'
  <2> DEFINE D == [work EXCEPT
                     !.sessions[s] = IF @ = "absent" THEN "imported" ELSE @,
                     !.owner[s] = IF p = None THEN @ ELSE p]
  <2>1. D \in Database
    BY DEF TypeOK, Database, SessionState
  <2>2. QED
    BY <1>6, <2>1, CommitType DEF UpsertSession, TypeOK
<1>7. ASSUME NEW b \in Blobs, RecordBlob(b) PROVE TypeOK'
  <2>1. [work EXCEPT !.recorded = @ \cup {b}] \in Database
    BY DEF TypeOK, Database
  <2>2. QED
    BY <1>7, <2>1, CommitType DEF RecordBlob, TypeOK
<1>8. ASSUME NEW e \in work.events, SaveRiskFinding(e) PROVE TypeOK'
  <2>1. [event |-> e.id, session |-> e.session] \in FindingRow
    BY DEF TypeOK, Database, EventRow, FindingRow
  <2>2. [work EXCEPT !.findings = @ \cup {[event |-> e.id, session |-> e.session]}]
          \in Database
    BY <2>1 DEF TypeOK, Database
  <2>3. QED
    BY <1>8, <2>2, CommitType DEF SaveRiskFinding, TypeOK
<1>9. ASSUME NEW s \in Scopes, FinalizeChain(s) PROVE TypeOK'
  <2>1. work \in Database
    BY DEF TypeOK
  <2>2. QED
    BY <1>9, <2>1, FinalizedType, CommitType DEF FinalizeChain, TypeOK
<1>10. ASSUME NEW s \in Scopes, NEW kind \in {"correlation", "conflict"},
              NEW left \in work.events, NEW right \in work.events,
              SaveCorrelation(kind, s, left.id, right.id)
       PROVE  TypeOK'
  <2>1. left.id \in Ids /\ right.id \in Ids
    BY DEF TypeOK, Database, EventRow
  <2>2. PersistPair(work, kind, s, left.id, right.id, nextId) \in Database
    BY <2>1, PersistPairType DEF TypeOK
  <2>3. QED
    BY <1>10, <2>2, FreshIdType, CommitType DEF SaveCorrelation, TypeOK
<1>11. ASSUME NEW batch \in Batches, AppendBegin(batch) PROVE TypeOK'
  <2>1. batch \in Seq(Envelope)
    OBVIOUS
  <2>2. QED
    BY <1>11, <2>1 DEF AppendBegin, TypeOK, NoCursor, Cursor, ZeroHash
<1>12. CASE AppendDuplicate
  BY <1>12 DEF AppendDuplicate, TypeOK
<1>13. CASE AppendNew
  <2> DEFINE env == Head(pending)
             at == NextChainPosition(work, ScopeOf(env))
  <2>1. env \in Envelope /\ Tail(pending) \in Seq(Envelope)
    BY <1>13 DEF AppendNew, TypeOK
  <2>2. ScopeOf(env) \in Scopes
    BY <2>1 DEF ScopeOf, Envelope
  <2>3. CursorAfter(at, nextId) \in Cursor
    BY <2>2, NextChainPositionType DEF TypeOK, CursorAfter, Cursor, Ids
  <2>4. cursors' \in [Scopes -> Cursor]
    BY <1>13, <2>2, <2>3 DEF AppendNew, TypeOK
  <2>5. work' \in Database
    <3>1. PICK previous \in IF ExistingSource(work, env) = {} THEN {NoEvent}
                            ELSE {e.id : e \in ExistingSource(work, env)} :
               work' = PersistNewEvent(work, env, nextId, previous)
      BY <1>13 DEF AppendNew
    <3>2. previous \in Nat
      BY <3>1 DEF ExistingSource, NoEvent, TypeOK, Database, EventRow, Ids
    <3>3. QED
      BY <2>1, <3>1, <3>2, PersistNewEventType DEF TypeOK
  <2>6. nextId' \in Ids
    BY <1>13, FreshIdType DEF AppendNew
  <2>7. QED
    BY <1>13, <2>1, <2>4, <2>5, <2>6 DEF AppendNew, TypeOK
<1>14. CASE AppendRollback
  BY <1>14, EmptySeq DEF AppendRollback, TypeOK, NoCursor, Cursor, ZeroHash
<1>15. CASE AppendCommit
  BY <1>15 DEF AppendCommit, TypeOK, NoCursor, Cursor, ZeroHash
<1>16. CASE UNCHANGED vars
  BY <1>16 DEF vars, TypeOK
<1>17. QED
  BY <1>1, <1>2, <1>3, <1>4, <1>5, <1>6, <1>7, <1>8, <1>9, <1>10, <1>11,
     <1>12, <1>13, <1>14, <1>15, <1>16 DEF Next

\* Every reachable state has its type, and outside an append transaction the
\* writer's connection sees exactly what is committed.
THEOREM TypeCorrect == Spec => []TypeOK
  BY InitType, NextType, PTL DEF Spec
-----------------------------------------------------------------------------
(* Chains and roots                                                        *)
(*                                                                         *)
(* ChainsWellFormed is not inductive by itself: an append continues from   *)
(* the cached cursor, not from the table, and a root is sound only because *)
(* nothing is appended behind it.  The inductive invariant adds that a     *)
(* known cursor is the end of the chain the writer sees, and that no       *)
(* cursor outlives its batch.                                              *)

CursorsAgree ==
    \A s \in Scopes : cursors[s].known => /\ inTxn
                                          /\ cursors[s] = LastChainPosition(work.chain[s])

SoundChains(d) == (\A s \in Scopes : WellFormed(d.chain[s])) /\ RootMatchesTail(d)

ChainInv == TypeOK /\ SoundChains(db) /\ SoundChains(work) /\ CursorsAgree

\* Appending the next entry keeps a chain well formed, and the position after
\* it is the new end of the chain.
LEMMA AppendWellFormed ==
    ASSUME NEW rows \in Seq(Entry), WellFormed(rows), NEW id \in Ids,
           NEW kind \in {"source_event", "correlation", "conflict"}
    PROVE  LET last == LastChainPosition(rows)
               new  == Append(rows, NextEntry(last, kind, id))
           IN  WellFormed(new) /\ LastChainPosition(new) = CursorAfter(last, id)
<1> DEFINE last == LastChainPosition(rows)
           entry == NextEntry(last, kind, id)
           new == Append(rows, entry)
<1>1. /\ last.sequence = Len(rows)
      /\ last.hash = IF rows = <<>> THEN ZeroHash ELSE rows[Len(rows)].target
  <2>1. CASE rows = <<>>
    BY <2>1 DEF LastChainPosition
  <2>2. CASE rows # <<>>
    <3>1. Len(rows) \in DOMAIN rows
      BY <2>2
    <3>2. rows[Len(rows)].sequence = Len(rows)
      BY <3>1 DEF WellFormed
    <3>3. QED
      BY <2>2, <3>2 DEF LastChainPosition
  <2>3. QED
    BY <2>1, <2>2
<1>2. entry \in Entry
  BY LastChainPositionType, NextEntryType
<1>3. /\ new \in Seq(Entry)
      /\ Len(new) = Len(rows) + 1
      /\ new[Len(rows) + 1] = entry
      /\ \A i \in 1..Len(rows) : new[i] = rows[i]
  BY <1>2
<1>4. /\ entry.sequence = Len(rows) + 1
      /\ entry.target = id
      /\ entry.previous = IF rows = <<>> THEN ZeroHash ELSE rows[Len(rows)].target
  BY <1>1 DEF NextEntry
<1>5. ASSUME NEW i \in DOMAIN new
      PROVE  /\ new[i].sequence = i
             /\ new[i].previous = IF i = 1 THEN ZeroHash ELSE new[i - 1].target
  <2>1. CASE i \in 1..Len(rows)
    <3>1. /\ rows[i].sequence = i
          /\ rows[i].previous = IF i = 1 THEN ZeroHash ELSE rows[i - 1].target
      BY <2>1 DEF WellFormed
    <3>2. i # 1 => i - 1 \in 1..Len(rows)
      BY <2>1
    <3>3. QED
      BY <1>3, <2>1, <3>1, <3>2
  <2>2. CASE i = Len(rows) + 1
    <3>1. new[i] = entry
      BY <1>3, <2>2
    <3>2. rows = <<>> <=> i = 1
      BY <2>2
    <3>3. i # 1 => new[i - 1] = rows[Len(rows)]
      BY <1>3, <2>2
    <3>4. QED
      BY <1>4, <2>2, <3>1, <3>2, <3>3
  <2>3. QED
    BY <1>3, <2>1, <2>2
<1>6. WellFormed(new)
  BY <1>5 DEF WellFormed
<1>7. LastChainPosition(new) = CursorAfter(last, id)
  <2>1. new # <<>> /\ new[Len(new)] = entry
    BY <1>3
  <2>2. QED
    BY <1>1, <1>4, <2>1 DEF LastChainPosition, CursorAfter
<1>8. QED
  BY <1>6, <1>7

\* Appending to an open chain keeps chains and roots sound.
LEMMA AppendSound ==
    ASSUME NEW d \in Database, NEW D \in Database, SoundChains(d),
           NEW s \in Scopes, ~ChainRootExists(d, s), NEW id \in Ids,
           NEW kind \in {"source_event", "correlation", "conflict"},
           D.roots = d.roots,
           D.chain = [d.chain EXCEPT ![s] =
                        Append(d.chain[s], NextEntry(LastChainPosition(d.chain[s]), kind, id))]
    PROVE  SoundChains(D)
<1>1. d.chain \in [Scopes -> Seq(Entry)]
  BY DEF Database
<1>2. \A t \in Scopes : WellFormed(D.chain[t])
  <2>1. WellFormed(D.chain[s])
    BY <1>1, AppendWellFormed DEF SoundChains
  <2>2. \A t \in Scopes \ {s} : D.chain[t] = d.chain[t]
    BY <1>1
  <2>3. QED
    BY <2>1, <2>2 DEF SoundChains
<1>3. RootMatchesTail(D)
  <2>1. \A t \in Scopes : ChainRootExists(D, t) => t # s /\ D.chain[t] = d.chain[t]
    BY <1>1 DEF ChainRootExists
  <2>2. QED
    BY <2>1 DEF SoundChains, RootMatchesTail, ChainRootExists
<1>4. QED
  BY <1>2, <1>3 DEF SoundChains

\* A command that changes neither chains nor roots keeps them sound.
LEMMA UntouchedSound ==
    ASSUME NEW d, NEW D, SoundChains(d), D.chain = d.chain, D.roots = d.roots
    PROVE  SoundChains(D)
  BY DEF SoundChains, RootMatchesTail, ChainRootExists

\* A deletion takes the chain of a session together with its root.
LEMMA PurgedSound ==
    ASSUME NEW d \in Database, NEW p \in Projects, SoundChains(d)
    PROVE  SoundChains(Purged(d, p))
<1> DEFINE D == Purged(d, p)
           closed == ProjectSessions(d, p)
<1>1. \A s \in Scopes : \/ D.chain[s] = <<>> /\ D.roots[s] = NoRoot
                        \/ D.chain[s] = d.chain[s] /\ D.roots[s] = d.roots[s]
  BY DEF Purged, Database
<1>2. WellFormed(<<>>) /\ ~(NoRoot.count > 0)
  BY DEF WellFormed, NoRoot
<1>3. \A s \in Scopes : WellFormed(D.chain[s])
  BY <1>1, <1>2 DEF SoundChains
<1>4. RootMatchesTail(D)
  BY <1>1, <1>2 DEF SoundChains, RootMatchesTail, ChainRootExists
<1>5. QED
  BY <1>3, <1>4 DEF SoundChains

\* A new root is the digest of the chain it is published for.
LEMMA FinalizedSound ==
    ASSUME NEW d \in Database, NEW s \in Scopes, SoundChains(d), d.chain[s] # <<>>
    PROVE  SoundChains([d EXCEPT !.roots[s] =
                          LET last == LastChainPosition(d.chain[s])
                          IN [count |-> last.sequence, hash |-> last.hash]])
<1> DEFINE last == LastChainPosition(d.chain[s])
           root == [count |-> last.sequence, hash |-> last.hash]
           D == [d EXCEPT !.roots[s] = root]
<1>1. d.chain[s] \in Seq(Entry) /\ Len(d.chain[s]) \in DOMAIN d.chain[s]
  BY DEF Database
<1>2. d.chain[s][Len(d.chain[s])].sequence = Len(d.chain[s])
  BY <1>1 DEF SoundChains, WellFormed
<1>3. root.count = Len(d.chain[s]) /\ root.hash = d.chain[s][Len(d.chain[s])].target
  BY <1>2 DEF LastChainPosition
<1>4. D.chain = d.chain /\ D.roots = [d.roots EXCEPT ![s] = root]
  BY DEF Database
<1>5. RootMatchesTail(D)
  BY <1>3, <1>4 DEF SoundChains, RootMatchesTail, ChainRootExists, Database
<1>6. QED
  BY <1>4, <1>5 DEF SoundChains

\* A command that commits a sound database keeps the invariant.
LEMMA CommitSound ==
    ASSUME ChainInv, NEW d, Commit(d), SoundChains(d)
    PROVE  SoundChains(db') /\ SoundChains(work') /\ CursorsAgree'
<1>1. \A s \in Scopes : ~cursors'[s].known
  BY DEF ChainInv, CursorsAgree, Commit
<1>2. QED
  BY <1>1 DEF Commit, CursorsAgree

\* A position read inside a batch is the end of the chain the writer sees.
LEMMA CursorIsTail ==
    ASSUME ChainInv, NEW s \in Scopes
    PROVE  NextChainPosition(work, s) = LastChainPosition(work.chain[s])
  BY DEF ChainInv, CursorsAgree, NextChainPosition

\* Persisting an event in an open chain keeps everything sound, and the new
\* cursor is the new end of the chain.
LEMMA AppendNewSound ==
    ASSUME ChainInv, TypeOK', AppendNew
    PROVE  SoundChains(db') /\ SoundChains(work') /\ CursorsAgree'
<1> DEFINE env == Head(pending)
           s == ScopeOf(env)
           last == LastChainPosition(work.chain[s])
           new == Append(work.chain[s], NextEntry(last, "source_event", nextId))
<1>1. env \in Envelope
  BY DEF AppendNew, ChainInv, TypeOK
<1>2. s \in Scopes /\ work.chain \in [Scopes -> Seq(Entry)] /\ nextId \in Ids
  BY <1>1 DEF ScopeOf, Envelope, ChainInv, TypeOK, Database
<1>3. NextChainPosition(work, s) = last
  BY <1>2, CursorIsTail
<1>4. PICK previous : work' = PersistNewEvent(work, env, nextId, previous)
  BY DEF AppendNew
<1>5. work'.roots = work.roots /\ work'.chain = [work.chain EXCEPT ![s] = new]
  BY <1>3, <1>4 DEF PersistNewEvent, ChainInv, TypeOK, Database
<1>6. ~ChainRootExists(work, s)
  BY DEF AppendNew, Persistable, ScopeOf
<1>7. SoundChains(work')
  BY <1>2, <1>5, <1>6, AppendSound DEF ChainInv, TypeOK
<1>8. CursorsAgree'
  <2>1. LastChainPosition(new) = CursorAfter(last, nextId)
    BY <1>2, AppendWellFormed DEF ChainInv, SoundChains
  <2>2. cursors' = [cursors EXCEPT ![s] = CursorAfter(last, nextId)] /\ inTxn'
    BY <1>3 DEF AppendNew
  <2>3. ASSUME NEW t \in Scopes, cursors'[t].known
        PROVE  cursors'[t] = LastChainPosition(work'.chain[t])
    <3>1. CASE t = s
      BY <1>2, <1>5, <2>1, <2>2, <3>1 DEF ChainInv, TypeOK
    <3>2. CASE t # s
      <4>1. cursors'[t] = cursors[t] /\ work'.chain[t] = work.chain[t]
        BY <1>2, <1>5, <2>2, <3>2 DEF ChainInv, TypeOK
      <4>2. QED
        BY <2>3, <4>1 DEF ChainInv, CursorsAgree
    <3>3. QED
      BY <3>1, <3>2
  <2>4. QED
    BY <2>2, <2>3 DEF CursorsAgree
<1>9. SoundChains(db')
  BY DEF AppendNew, ChainInv
<1>10. QED
  BY <1>7, <1>8, <1>9

\* Initially all chains are empty and nothing is cached.
LEMMA InitChainInv == Init => ChainInv
<1> SUFFICES ASSUME Init PROVE ChainInv
  OBVIOUS
<1>1. SoundChains(EmptyDatabase)
  BY DEF SoundChains, WellFormed, RootMatchesTail, ChainRootExists, EmptyDatabase, NoRoot
<1>2. CursorsAgree
  BY DEF Init, CursorsAgree, NoCursor
<1>3. QED
  BY <1>1, <1>2, InitType DEF Init, ChainInv

\* Every step keeps chains, roots and cursors sound.
LEMMA NextChainInv == ChainInv /\ [Next]_vars => ChainInv'
<1> SUFFICES ASSUME ChainInv, [Next]_vars
             PROVE  SoundChains(db') /\ SoundChains(work') /\ CursorsAgree'
  BY NextType DEF ChainInv
<1> TypeOK /\ TypeOK' /\ work \in Database /\ SoundChains(work)
  BY NextType DEF ChainInv, TypeOK
<1> DEFINE Sound == SoundChains(db') /\ SoundChains(work') /\ CursorsAgree'
<1>1. ASSUME NEW p \in Projects, UpsertProject(p) PROVE Sound
  <2>1. SoundChains([work EXCEPT !.projects = @ \cup {p}])
    BY UntouchedSound DEF Database
  <2>2. QED
    BY <1>1, <2>1, CommitSound DEF UpsertProject
<1>2. ASSUME NEW p \in Projects, DeleteProject(p) PROVE Sound
  BY <1>2, PurgedSound, CommitSound DEF DeleteProject
<1>3. ASSUME NEW p \in Projects, DeleteProjectRefused(p) PROVE Sound
  BY <1>3 DEF DeleteProjectRefused, ChainInv, CursorsAgree
<1>4. ASSUME NEW s \in Sessions, CompleteSession(s) PROVE Sound
  <2>1. SoundChains([work EXCEPT !.sessions[s] = "complete"])
    BY UntouchedSound DEF Database
  <2>2. QED
    BY <1>4, <2>1, CommitSound DEF CompleteSession
<1>5. ASSUME NEW s \in Sessions, NEW p \in Projects \cup {None}, CreateSession(s, p)
      PROVE  Sound
  <2>1. SoundChains([work EXCEPT !.sessions[s] = "active", !.owner[s] = p])
    BY UntouchedSound DEF Database
  <2>2. QED
    BY <1>5, <2>1, CommitSound DEF CreateSession
<1>6. ASSUME NEW s \in Sessions, NEW p \in Projects \cup {None}, UpsertSession(s, p)
      PROVE  Sound
  <2>1. SoundChains([work EXCEPT
                       !.sessions[s] = IF @ = "absent" THEN "imported" ELSE @,
                       !.owner[s] = IF p = None THEN @ ELSE p])
    BY UntouchedSound DEF Database
  <2>2. QED
    BY <1>6, <2>1, CommitSound DEF UpsertSession
<1>7. ASSUME NEW b \in Blobs, RecordBlob(b) PROVE Sound
  <2>1. SoundChains([work EXCEPT !.recorded = @ \cup {b}])
    BY UntouchedSound DEF Database
  <2>2. QED
    BY <1>7, <2>1, CommitSound DEF RecordBlob
<1>8. ASSUME NEW e \in work.events, SaveRiskFinding(e) PROVE Sound
  <2>1. SoundChains([work EXCEPT !.findings =
                       @ \cup {[event |-> e.id, session |-> e.session]}])
    BY UntouchedSound DEF Database
  <2>2. QED
    BY <1>8, <2>1, CommitSound DEF SaveRiskFinding
<1>9. ASSUME NEW s \in Scopes, FinalizeChain(s) PROVE Sound
  BY <1>9, FinalizedSound, CommitSound DEF FinalizeChain
<1>10. ASSUME NEW s \in Scopes, NEW kind \in {"correlation", "conflict"},
              NEW left \in work.events, NEW right \in work.events,
              SaveCorrelation(kind, s, left.id, right.id)
       PROVE  Sound
  <2> DEFINE D == PersistPair(work, kind, s, left.id, right.id, nextId)
  <2>1. left.id \in Ids /\ right.id \in Ids /\ nextId \in Ids
    BY DEF TypeOK, Database, EventRow
  <2>2. D \in Database
    BY <2>1, PersistPairType
  <2>3. /\ D.roots = work.roots
        /\ D.chain = [work.chain EXCEPT ![s] =
             Append(work.chain[s], NextEntry(LastChainPosition(work.chain[s]), kind, nextId))]
    BY DEF PersistPair, Database
  <2>4. SoundChains(D)
    BY <1>10, <2>1, <2>2, <2>3, AppendSound DEF SaveCorrelation
  <2>5. QED
    BY <1>10, <2>4, CommitSound DEF SaveCorrelation
<1>11. ASSUME NEW batch \in Batches, AppendBegin(batch) PROVE Sound
  BY <1>11 DEF AppendBegin, ChainInv, CursorsAgree, NoCursor
<1>12. CASE AppendDuplicate
  BY <1>12 DEF AppendDuplicate, ChainInv, CursorsAgree
<1>13. CASE AppendNew
  BY <1>13, AppendNewSound
<1>14. CASE AppendRollback
  BY <1>14 DEF AppendRollback, ChainInv, CursorsAgree, NoCursor
<1>15. CASE AppendCommit
  BY <1>15 DEF AppendCommit, ChainInv, CursorsAgree, NoCursor
<1>16. CASE UNCHANGED vars
  BY <1>16 DEF vars, ChainInv, CursorsAgree
<1>17. QED
  BY <1>1, <1>2, <1>3, <1>4, <1>5, <1>6, <1>7, <1>8, <1>9, <1>10, <1>11,
     <1>12, <1>13, <1>14, <1>15, <1>16 DEF Next

\* In every reachable state, every chain of the committed database and of the
\* writer's view is gap-free and linked: no batch, rollback, correction or
\* deletion leaves a chain that the verifier would call missing or reordered.
THEOREM ChainsStayWellFormed == Spec => []ChainsWellFormed
<1>1. ChainInv => ChainsWellFormed
  BY DEF ChainInv, SoundChains, ChainsWellFormed
<1>2. QED
  BY <1>1, InitChainInv, NextChainInv, PTL DEF Spec

\* In every reachable state, a published root is the digest of the whole chain
\* it was published for.
THEOREM RootsStayTails == Spec => []RootsMatchTails
<1>1. ChainInv => RootsMatchTails
  BY DEF ChainInv, SoundChains, RootsMatchTails
<1>2. QED
  BY <1>1, InitChainInv, NextChainInv, PTL DEF Spec

\* In every reachable state all chains are well formed and all roots are those
\* of whole chains, in the database and in the batch being written.
THEOREM ChainsStaySound == Spec => []ChainsSound
  BY ChainsStayWellFormed, RootsStayTails, PTL DEF ChainsSound
-----------------------------------------------------------------------------
(* A history as a whole: the versions of a source, deletion, references to *)
(* blobs, and that the chains implement EvidenceLog.  The inductive        *)
(* invariant goes on from ChainInv.                                        *)
-----------------------------------------------------------------------------
(* The invariant, of one database d and the next fresh id n *)

\* What has been stored carries an id that was handed out before.
Issued(d, n) ==
    /\ \A e \in d.events : e.id < n
    /\ \A s \in Scopes : \A i \in DOMAIN d.chain[s] : d.chain[s][i].target < n

\* Events and source rows come in pairs.
Paired(d) ==
    /\ \A e, f \in d.events : e.id = f.id => e = f
    /\ \A r \in d.sources : \E e \in d.events : e.id = r.event /\ e.source = r.source
    /\ \A e \in d.events : \E r \in d.sources : r.event = e.id /\ r.source = e.source

\* The project of an event is there.
Housed(d) == \A e \in d.events : e.project # None => e.project \in d.projects

PairsChained(d) ==
    \A q \in d.pairs : \E i \in DOMAIN d.chain[q.session] :
        d.chain[q.session][i].kind = q.kind /\ d.chain[q.session][i].target = q.id

Consistent(d, n) ==
    /\ IsFiniteSet(d.events)
    /\ Issued(d, n)
    /\ Paired(d) /\ OneLive(d) /\ Linear(d)
    /\ Housed(d)
    /\ PairsChained(d)

\* The same where every caller has kept the contract: an event is in the project of
\* its session, which is there, and in the chain of its scope and no other.
Owned(d) == \A e \in d.events : e.session # None =>
    e.project = d.owner[e.session] /\ d.sessions[e.session] # "absent"

Chained(d) == \A e \in d.events : e.id \in SourceEventTargets(d.chain[e.session])

Named(d) == \A s \in Scopes : \A id \in SourceEventTargets(d.chain[s]) :
    (\E e \in d.events : e.id = id /\ e.session = s) \/ id \in d.deleted

NamesOf(d, b) == {e \in d.events : e.blob = b}
Covered(d) == \A b \in Blobs : Cardinality(NamesOf(d, b)) <= d.refs[b]

Accounted(d) == Owned(d) /\ Chained(d) /\ Named(d) /\ Covered(d)

\* rows go on from the chain of s in d as the abstract log does: an open chain grows at
\* its end with targets that d has nowhere, a sealed one does not.
ChainGrows(d, rows, s) ==
    /\ ChainRootExists(d, s) => rows = d.chain[s]
    /\ Len(d.chain[s]) <= Len(rows)
    /\ \A i \in DOMAIN d.chain[s] : rows[i] = d.chain[s][i]
    /\ \A i \in DOMAIN rows \ DOMAIN d.chain[s] :
          \A t \in Scopes : \A j \in DOMAIN d.chain[t] :
              rows[i].target # d.chain[t][j].target

Grows(d, w) ==
    /\ w.roots = d.roots
    /\ d.events \subseteq w.events
    /\ \A s \in Scopes : ChainGrows(d, w.chain[s], s)

\* What is still to be appended keeps the contract, too.
PendingAgrees == \A i \in DOMAIN pending : Agrees(work, pending[i])

HistoryInv ==
    /\ ChainInv
    /\ Consistent(db, nextId) /\ Consistent(work, nextId)
    /\ agreed => Accounted(db) /\ Accounted(work) /\ PendingAgrees
    /\ Grows(db, work)
-----------------------------------------------------------------------------
(* Chains *)

\* An entry appended to one chain is the last of that chain and changes no other.
LEMMA AppendedEntry ==
    ASSUME NEW chain \in [Scopes -> Seq(Entry)], NEW s \in Scopes, NEW entry \in Entry,
           NEW new, new = [chain EXCEPT ![s] = Append(chain[s], entry)]
    PROVE  /\ Len(chain[s]) + 1 \in DOMAIN new[s] /\ new[s][Len(chain[s]) + 1] = entry
           /\ \A t \in Scopes :
                 /\ Len(chain[t]) <= Len(new[t])
                 /\ \A i \in DOMAIN chain[t] : i \in DOMAIN new[t] /\ new[t][i] = chain[t][i]
                 /\ \A i \in DOMAIN new[t] \ DOMAIN chain[t] : t = s /\ new[t][i] = entry
<1>1. /\ Len(new[s]) = Len(chain[s]) + 1 /\ DOMAIN new[s] = 1..Len(chain[s]) + 1
      /\ \A i \in 1..Len(chain[s]) : new[s][i] = chain[s][i]
      /\ new[s][Len(chain[s]) + 1] = entry
  BY AppendProperties
<1>2. \A t \in Scopes : t # s => new[t] = chain[t]
  OBVIOUS
<1>3. \A t \in Scopes : DOMAIN chain[t] = 1..Len(chain[t]) /\ Len(chain[t]) \in Nat
  OBVIOUS
<1>4. Len(chain[s]) + 1 \in DOMAIN new[s]
  BY <1>1, <1>3
<1>5. ASSUME NEW t \in Scopes
      PROVE  /\ Len(chain[t]) <= Len(new[t])
             /\ \A i \in DOMAIN chain[t] : i \in DOMAIN new[t] /\ new[t][i] = chain[t][i]
             /\ \A i \in DOMAIN new[t] \ DOMAIN chain[t] : t = s /\ new[t][i] = entry
  <2>1. CASE t = s
    BY <1>1, <1>3, <2>1
  <2>2. CASE t # s
    BY <1>2, <1>3, <2>2
  <2> QED
    BY <2>1, <2>2
<1> QED
  BY <1>1, <1>4, <1>5

\* new holds the entries of rows and otherwise only copies of entry.
Continues(rows, new, entry) ==
    /\ \A i \in DOMAIN rows : i \in DOMAIN new /\ new[i] = rows[i]
    /\ \A i \in DOMAIN new \ DOMAIN rows : new[i] = entry

\* The source events a chain names after entries equal to one have been added.
LEMMA AppendedTargets ==
    ASSUME NEW rows, NEW new, NEW entry, Continues(rows, new, entry)
    PROVE  /\ SourceEventTargets(rows) \subseteq SourceEventTargets(new)
           /\ \A id \in SourceEventTargets(new) :
                 \/ id \in SourceEventTargets(rows)
                 \/ entry.kind = "source_event" /\ id = entry.target
<1>1. ASSUME NEW id \in SourceEventTargets(rows)
      PROVE  id \in SourceEventTargets(new)
  BY <1>1 DEF SourceEventTargets, Continues
<1>2. ASSUME NEW id \in SourceEventTargets(new)
      PROVE  \/ id \in SourceEventTargets(rows)
             \/ entry.kind = "source_event" /\ id = entry.target
  <2>1. PICK i \in DOMAIN new : new[i].kind = "source_event" /\ id = new[i].target
    BY <1>2 DEF SourceEventTargets
  <2>2. CASE i \in DOMAIN rows
    BY <2>1, <2>2 DEF SourceEventTargets, Continues
  <2>3. CASE i \notin DOMAIN rows
    BY <2>1, <2>3 DEF Continues
  <2> QED
    BY <2>2, <2>3
<1> QED
  BY <1>1, <1>2

\* A database goes on from itself.
LEMMA GrowsSelf ==
    ASSUME NEW d \in Database
    PROVE  Grows(d, d)
  BY DEF Grows, ChainGrows, Database

\* No chain of d names id.
Unseen(d, id) == \A t \in Scopes : \A j \in DOMAIN d.chain[t] : id # d.chain[t][j].target

\* An entry with a new target appended to an open chain goes on from wherever the
\* database went on from.
LEMMA AppendGrows ==
    ASSUME NEW d \in Database, NEW w \in Database, NEW W \in Database, Grows(d, w),
           NEW s \in Scopes, NEW entry \in Entry, ~ChainRootExists(w, s),
           Unseen(d, entry.target),
           W.chain = [w.chain EXCEPT ![s] = Append(w.chain[s], entry)],
           W.roots = w.roots, w.events \subseteq W.events
    PROVE  Grows(d, W)
<1>1. d.chain \in [Scopes -> Seq(Entry)] /\ w.chain \in [Scopes -> Seq(Entry)]
  BY DEF Database
<1>2. W.roots = d.roots /\ d.events \subseteq W.events
  BY DEF Grows
<1>3. ChainGrows(d, W.chain[s], s)
  <2>1. /\ Len(w.chain[s]) <= Len(W.chain[s])
        /\ \A i \in DOMAIN w.chain[s] : W.chain[s][i] = w.chain[s][i]
        /\ \A i \in DOMAIN W.chain[s] \ DOMAIN w.chain[s] : W.chain[s][i] = entry
    BY <1>1, AppendedEntry
  <2>2. ~ChainRootExists(d, s)
    BY DEF Grows, ChainRootExists
  <2>3. /\ Len(d.chain[s]) <= Len(w.chain[s])
        /\ \A i \in DOMAIN d.chain[s] : w.chain[s][i] = d.chain[s][i]
        /\ \A i \in DOMAIN w.chain[s] \ DOMAIN d.chain[s] :
              \A u \in Scopes : \A j \in DOMAIN d.chain[u] :
                  w.chain[s][i].target # d.chain[u][j].target
    BY DEF Grows, ChainGrows
  <2>4. /\ DOMAIN d.chain[s] = 1..Len(d.chain[s]) /\ DOMAIN w.chain[s] = 1..Len(w.chain[s])
        /\ Len(d.chain[s]) \in Nat /\ Len(w.chain[s]) \in Nat /\ Len(W.chain[s]) \in Nat
    BY <1>1 DEF Database
  <2>5. DOMAIN d.chain[s] \subseteq DOMAIN w.chain[s] /\ Len(d.chain[s]) <= Len(W.chain[s])
    BY <2>1, <2>3, <2>4
  <2>6. ASSUME NEW i \in DOMAIN W.chain[s] \ DOMAIN d.chain[s],
               NEW u \in Scopes, NEW j \in DOMAIN d.chain[u]
        PROVE  W.chain[s][i].target # d.chain[u][j].target
    <3>1. CASE i \in DOMAIN w.chain[s]
      BY <2>1, <2>3, <3>1
    <3>2. CASE i \notin DOMAIN w.chain[s]
      BY <2>1, <3>2 DEF Unseen
    <3> QED
      BY <3>1, <3>2
  <2>7. \A i \in DOMAIN d.chain[s] : W.chain[s][i] = d.chain[s][i]
    BY <2>1, <2>3, <2>5
  <2> QED
    BY <2>2, <2>5, <2>6, <2>7 DEF ChainGrows
<1>4. ASSUME NEW t \in Scopes PROVE ChainGrows(d, W.chain[t], t)
  <2>1. CASE t = s
    BY <1>3, <2>1
  <2>2. CASE t # s
    <3>1. W.chain[t] = w.chain[t] /\ ChainGrows(d, w.chain[t], t)
      BY <1>1, <2>2 DEF Grows
    <3> QED
      BY <3>1
  <2> QED
    BY <2>1, <2>2
<1> QED
  BY <1>2, <1>4 DEF Grows
-----------------------------------------------------------------------------
(* Consistency of a database after each command *)

\* What leaves events, versions, chains and pairs alone keeps them consistent.
LEMMA ConsistentKept ==
    ASSUME NEW d \in Database, NEW D \in Database, NEW n \in Nat, NEW m \in Nat, n <= m,
           Consistent(d, n), D.events = d.events, D.sources = d.sources, D.chain = d.chain,
           D.pairs = d.pairs, d.projects \subseteq D.projects
    PROVE  Consistent(D, m)
<1>1. Issued(D, m)
  <2>1. \A e \in d.events : e.id \in Nat
    BY DEF Database, EventRow, Ids
  <2>2. ASSUME NEW s \in Scopes, NEW i \in DOMAIN d.chain[s]
        PROVE  d.chain[s][i].target \in Nat
    <3>1. d.chain[s] \in Seq(Entry)
      BY DEF Database
    <3>2. d.chain[s][i] \in Entry
      BY <3>1
    <3> QED
      BY <3>2 DEF Entry, Ids
  <2>3. \A e \in D.events : e.id < m
    BY <2>1 DEF Consistent, Issued
  <2>4. ASSUME NEW s \in Scopes, NEW i \in DOMAIN D.chain[s]
        PROVE  D.chain[s][i].target < m
    <3>1. d.chain[s][i].target < n
      BY DEF Consistent, Issued
    <3> QED
      BY <2>2, <3>1
  <2> QED
    BY <2>3, <2>4 DEF Issued
<1>2. Housed(D)
  BY DEF Consistent, Housed
<1> QED
  BY <1>1, <1>2 DEF Consistent, Paired, OneLive, Linear, PairsChained

\* Pairs stay in their chains when chains only grow.
LEMMA PairsStayChained ==
    ASSUME NEW d \in Database, NEW D, PairsChained(d), D.pairs \subseteq d.pairs,
           \A s \in Scopes : \A i \in DOMAIN d.chain[s] :
               i \in DOMAIN D.chain[s] /\ D.chain[s][i] = d.chain[s][i]
    PROVE  PairsChained(D)
<1>1. \A q \in d.pairs : q.session \in Scopes
  BY DEF Database, PairRow
<1> QED
  BY <1>1 DEF PairsChained

\* The rows after the version with id previous has been superseded.
LEMMA SupersededRows ==
    ASSUME NEW rows \in SUBSET SourceRow, NEW previous, NEW id
    PROVE  /\ \A q \in MarkSuperseded(rows, previous, id) : \E r \in rows :
                 /\ q.event = r.event /\ q.source = r.source
                 /\ r.event = previous /\ r.supersededBy = NoEvent => q.supersededBy = id
                 /\ ~(r.event = previous /\ r.supersededBy = NoEvent) => q = r
           /\ \A r \in rows : \E q \in MarkSuperseded(rows, previous, id) :
                 /\ q.event = r.event /\ q.source = r.source
                 /\ r.event = previous /\ r.supersededBy = NoEvent => q.supersededBy = id
                 /\ ~(r.event = previous /\ r.supersededBy = NoEvent) => q = r
<1> DEFINE f(r) == IF r.event = previous /\ r.supersededBy = NoEvent
                   THEN [r EXCEPT !.supersededBy = id] ELSE r
<1>1. \A r \in rows : f(r).event = r.event /\ f(r).source = r.source
  BY DEF SourceRow
<1>2. \A r \in rows : r.event = previous /\ r.supersededBy = NoEvent
                         => f(r).supersededBy = id
  BY DEF SourceRow
<1>3. \A r \in rows : ~(r.event = previous /\ r.supersededBy = NoEvent) => f(r) = r
  OBVIOUS
<1>4. MarkSuperseded(rows, previous, id) = {f(r) : r \in rows}
  BY DEF MarkSuperseded
<1> HIDE DEF f
<1> QED
  BY <1>1, <1>2, <1>3, <1>4

\* The rows after the events with the ids in gone have been deleted.
LEMMA RemainingRows ==
    ASSUME NEW d \in Database, NEW gone
    PROVE  /\ \A q \in SourcesWithout(d, gone) : \E r \in d.sources :
                 /\ q.event = r.event /\ q.source = r.source /\ r.event \notin gone
                 /\ r.supersededBy \in gone => q.supersededBy = NoEvent
                 /\ r.supersededBy \notin gone => q = r
           /\ \A r \in d.sources : r.event \notin gone => \E q \in SourcesWithout(d, gone) :
                 /\ q.event = r.event /\ q.source = r.source
                 /\ r.supersededBy \in gone => q.supersededBy = NoEvent
                 /\ r.supersededBy \notin gone => q = r
<1> DEFINE f(r) == IF r.supersededBy \in gone THEN [r EXCEPT !.supersededBy = NoEvent] ELSE r
           rows == {r \in d.sources : r.event \notin gone}
<1>1. d.sources \subseteq SourceRow
  BY DEF Database
<1>2. \A r \in rows : f(r).event = r.event /\ f(r).source = r.source
  BY <1>1 DEF SourceRow
<1>3. \A r \in rows : r.supersededBy \in gone => f(r).supersededBy = NoEvent
  BY <1>1 DEF SourceRow
<1>4. \A r \in rows : r.supersededBy \notin gone => f(r) = r
  OBVIOUS
<1>5. SourcesWithout(d, gone) = {f(r) : r \in rows}
  BY DEF SourcesWithout
<1>6. rows \subseteq d.sources /\ \A r \in d.sources : r.event \notin gone <=> r \in rows
  OBVIOUS
<1> HIDE DEF f, rows
<1> QED
  BY <1>2, <1>3, <1>4, <1>5, <1>6

\* The rows of an event.
EventOf(env, id, previous) ==
    [id |-> id, session |-> env.session, project |-> env.project, source |-> env.source,
     body |-> env.body, blob |-> env.blob, supersedes |-> previous]
SourceOf(env, id) == [event |-> id, source |-> env.source, supersededBy |-> NoEvent]

\* D is d with the rows of an event.
Persisted(d, D, env, id, previous) ==
    /\ EventOf(env, id, previous) \in EventRow /\ env.session \in Scopes
    /\ D \in Database
    /\ D.events = d.events \cup {EventOf(env, id, previous)}
    /\ D.sources = MarkSuperseded(d.sources, previous, id) \cup {SourceOf(env, id)}
    /\ \E entry \in Entry :
          /\ entry.kind = "source_event" /\ entry.target = id
          /\ D.chain = [d.chain EXCEPT ![env.session] = Append(d.chain[env.session], entry)]
    /\ D.projects = d.projects /\ D.sessions = d.sessions /\ D.owner = d.owner
    /\ D.roots = d.roots /\ D.pairs = d.pairs /\ D.deleted = d.deleted
    /\ D.recorded = d.recorded
    /\ D.refs = [b \in Blobs |-> IF b = env.blob /\ b \in d.recorded
                                 THEN d.refs[b] + 1 ELSE d.refs[b]]

\* persist_new_event adds the rows of its event and changes nothing else.
LEMMA PersistedFields ==
    ASSUME NEW d \in Database, NEW env \in Envelope, NEW id \in Ids, NEW previous \in Nat,
           cursors \in [Scopes -> Cursor]
    PROVE  Persisted(d, PersistNewEvent(d, env, id, previous), env, id, previous)
<1> DEFINE D == PersistNewEvent(d, env, id, previous)
           entry == NextEntry(NextChainPosition(d, ScopeOf(env)), "source_event", id)
<1>1. /\ EventOf(env, id, previous) \in EventRow /\ env.session \in Scopes
      /\ ScopeOf(env) = env.session
  BY DEF Envelope, EventRow, ScopeOf, EventOf
<1>2. D \in Database
  BY PersistNewEventType
<1>3. entry \in Entry /\ entry.kind = "source_event" /\ entry.target = id
  BY <1>1, NextChainPositionType, NextEntryType DEF NextEntry
<1>4. D.chain = [d.chain EXCEPT ![env.session] = Append(d.chain[env.session], entry)]
  BY <1>1 DEF PersistNewEvent, Database
<1>5. /\ D.events = d.events \cup {EventOf(env, id, previous)}
      /\ D.sources = MarkSuperseded(d.sources, previous, id) \cup {SourceOf(env, id)}
      /\ D.refs = [b \in Blobs |-> IF b = env.blob /\ b \in d.recorded
                                   THEN d.refs[b] + 1 ELSE d.refs[b]]
  BY DEF PersistNewEvent, Database, EventOf, SourceOf
<1>6. /\ D.projects = d.projects /\ D.sessions = d.sessions /\ D.owner = d.owner
      /\ D.roots = d.roots /\ D.pairs = d.pairs /\ D.deleted = d.deleted
      /\ D.recorded = d.recorded
  BY DEF PersistNewEvent, Database
<1> QED
  BY <1>1, <1>2, <1>3, <1>4, <1>5, <1>6 DEF Persisted

\* A new event, which supersedes the live version of its source if there is one, keeps
\* the database consistent.
LEMMA EventConsistent ==
    ASSUME NEW d \in Database, NEW D, NEW n \in Ids, Consistent(d, n), NEW env \in Envelope,
           HasProject(d, env.project), NEW previous \in Nat, Persisted(d, D, env, n, previous),
           previous \in IF ExistingSource(d, env) = {} THEN {NoEvent}
                        ELSE {e.id : e \in ExistingSource(d, env)}
    PROVE  Consistent(D, n + 1)
<1> DEFINE row == EventOf(env, n, previous)
           live == SourceOf(env, n)
<1>1. \/ /\ previous = NoEvent
         /\ \A e \in d.events : \A r \in d.sources :
               ~(r.event = e.id /\ r.source = env.source /\ r.supersededBy = NoEvent)
      \/ \E e \in d.events : \E r \in d.sources :
            /\ e.id = previous /\ r.event = previous
            /\ r.source = env.source /\ r.supersededBy = NoEvent
  BY DEF ExistingSource
<1>2. /\ d.events \subseteq EventRow /\ d.sources \subseteq SourceRow
      /\ d.chain \in [Scopes -> Seq(Entry)]
      /\ \A e \in d.events : e.id \in Nat \ {0} /\ e.id # NoEvent
  BY DEF Database, EventRow, Ids, NoEvent
<1>3. /\ row \in EventRow /\ env.session \in Scopes /\ D \in Database
      /\ D.events = d.events \cup {row}
      /\ D.sources = MarkSuperseded(d.sources, previous, n) \cup {live}
      /\ D.projects = d.projects /\ D.pairs = d.pairs
  BY DEF Persisted
<1>4. PICK entry \in Entry :
         /\ entry.kind = "source_event" /\ entry.target = n
         /\ D.chain = [d.chain EXCEPT ![env.session] = Append(d.chain[env.session], entry)]
  BY DEF Persisted
<1>5. /\ row.id = n /\ row.source = env.source /\ row.supersedes = previous
      /\ row.project = env.project
      /\ live.event = n /\ live.source = env.source /\ live.supersededBy = NoEvent
      /\ n \in Nat /\ n # NoEvent
  BY DEF Ids, NoEvent, EventOf, SourceOf
<1> HIDE DEF row, live
<1>6. /\ \A e \in d.events : e.id < n
      /\ \A s \in Scopes : \A i \in DOMAIN d.chain[s] : d.chain[s][i].target < n
      /\ Paired(d) /\ OneLive(d) /\ Linear(d) /\ Housed(d) /\ PairsChained(d)
      /\ IsFiniteSet(d.events)
  BY DEF Consistent, Issued
<1>7. \A e \in d.events : e.id # n
  BY <1>2, <1>5, <1>6
<1>8. \A s \in Scopes :
          /\ \A i \in DOMAIN d.chain[s] :
                i \in DOMAIN D.chain[s] /\ D.chain[s][i] = d.chain[s][i]
          /\ \A i \in DOMAIN D.chain[s] \ DOMAIN d.chain[s] : D.chain[s][i] = entry
  BY <1>2, <1>3, <1>4, AppendedEntry
<1>9. Issued(D, n + 1)
  <2>1. \A e \in D.events : e.id < n + 1
    BY <1>2, <1>3, <1>5, <1>6
  <2>2. ASSUME NEW s \in Scopes, NEW i \in DOMAIN D.chain[s]
        PROVE  D.chain[s][i].target < n + 1
    <3>1. CASE i \in DOMAIN d.chain[s]
      <4>1. d.chain[s][i].target < n /\ D.chain[s][i] = d.chain[s][i]
        BY <1>6, <1>8, <3>1
      <4>2. d.chain[s][i] \in Entry
        BY <1>2, <3>1
      <4>3. d.chain[s][i].target \in Nat
        BY <4>2 DEF Entry, Ids
      <4> QED
        BY <1>5, <4>1, <4>3
    <3>2. CASE i \notin DOMAIN d.chain[s]
      BY <1>4, <1>5, <1>8, <3>2
    <3> QED
      BY <3>1, <3>2
  <2> QED
    BY <2>1, <2>2 DEF Issued
<1>10. /\ \A q \in D.sources : \/ q = live
                              \/ \E r \in d.sources :
              /\ q.event = r.event /\ q.source = r.source
              /\ r.event = previous /\ r.supersededBy = NoEvent => q.supersededBy = n
              /\ ~(r.event = previous /\ r.supersededBy = NoEvent) => q = r
       /\ live \in D.sources
       /\ \A r \in d.sources : \E q \in D.sources :
              /\ q.event = r.event /\ q.source = r.source
              /\ r.event = previous /\ r.supersededBy = NoEvent => q.supersededBy = n
              /\ ~(r.event = previous /\ r.supersededBy = NoEvent) => q = r
  <2>1. /\ \A q \in MarkSuperseded(d.sources, previous, n) : \E r \in d.sources :
                 /\ q.event = r.event /\ q.source = r.source
                 /\ r.event = previous /\ r.supersededBy = NoEvent => q.supersededBy = n
                 /\ ~(r.event = previous /\ r.supersededBy = NoEvent) => q = r
        /\ \A r \in d.sources : \E q \in MarkSuperseded(d.sources, previous, n) :
                 /\ q.event = r.event /\ q.source = r.source
                 /\ r.event = previous /\ r.supersededBy = NoEvent => q.supersededBy = n
                 /\ ~(r.event = previous /\ r.supersededBy = NoEvent) => q = r
    BY <1>2, SupersededRows
  <2> QED
    BY <1>3, <2>1, Zenon
<1>11. \A r \in d.sources : r.event # n
  BY <1>6, <1>7 DEF Paired
<1>12. Paired(D)
  <2>1. \A e, f \in D.events : e.id = f.id => e = f
    BY <1>3, <1>5, <1>6, <1>7 DEF Paired
  <2>2. \A q \in D.sources : \E e \in D.events : e.id = q.event /\ e.source = q.source
    BY <1>3, <1>5, <1>6, <1>10 DEF Paired
  <2>3. \A e \in D.events : \E q \in D.sources : q.event = e.id /\ q.source = e.source
    BY <1>3, <1>5, <1>6, <1>10 DEF Paired
  <2> QED
    BY <2>1, <2>2, <2>3 DEF Paired
<1>13. OneLive(D)
  <2>1. ASSUME NEW q1 \in D.sources, NEW q2 \in D.sources, q1.event = q2.event
        PROVE  q1 = q2
    <3>1. CASE q1 = live
      BY <1>5, <1>10, <1>11, <2>1, <3>1
    <3>2. CASE q2 = live
      BY <1>5, <1>10, <1>11, <2>1, <3>2
    <3>3. CASE q1 # live /\ q2 # live
      <4>1. q1 \in MarkSuperseded(d.sources, previous, n)
            /\ q2 \in MarkSuperseded(d.sources, previous, n)
        BY <1>3, <3>3
      <4>2. PICK r1 \in d.sources : q1 = IF r1.event = previous /\ r1.supersededBy = NoEvent
                                  THEN [r1 EXCEPT !.supersededBy = n] ELSE r1
        BY <4>1 DEF MarkSuperseded
      <4>3. PICK r2 \in d.sources : q2 = IF r2.event = previous /\ r2.supersededBy = NoEvent
                                  THEN [r2 EXCEPT !.supersededBy = n] ELSE r2
        BY <4>1 DEF MarkSuperseded
      <4>4. q1.event = r1.event /\ q2.event = r2.event
        BY <1>2, <4>2, <4>3 DEF SourceRow
      <4>5. r1 = r2
        BY <1>6, <2>1, <4>4 DEF OneLive
      <4> QED
        BY <4>2, <4>3, <4>5
    <3> QED
      BY <3>1, <3>2, <3>3
  <2>2. \A q \in D.sources : q.source = env.source /\ q.supersededBy = NoEvent => q = live
    <3> SUFFICES ASSUME NEW q \in D.sources, q.source = env.source,
                        q.supersededBy = NoEvent, q # live
                 PROVE  FALSE
      OBVIOUS
    <3>1. PICK r \in d.sources :
              /\ q.event = r.event /\ q.source = r.source
              /\ r.event = previous /\ r.supersededBy = NoEvent => q.supersededBy = n
              /\ ~(r.event = previous /\ r.supersededBy = NoEvent) => q = r
      BY <1>10
    <3>2. r.supersededBy = NoEvent /\ r.event # previous
      BY <1>5, <3>1
    <3>3. \E e \in d.events : e.id = r.event
      BY <1>6 DEF Paired
    <3>4. PICK r0 \in d.sources : /\ r0.event = previous
                                  /\ r0.source = env.source /\ r0.supersededBy = NoEvent
      BY <1>1, <3>1, <3>2, <3>3
    <3> QED
      BY <1>6, <3>1, <3>2, <3>4 DEF OneLive
  <2>3. ASSUME NEW q1 \in D.sources, NEW q2 \in D.sources, q1.source = q2.source,
               q1.supersededBy = NoEvent, q2.supersededBy = NoEvent
        PROVE  q1 = q2
    <3>1. CASE q1.source = env.source
      BY <2>2, <2>3, <3>1
    <3>2. CASE q1.source # env.source
      <4>1. q1 # live /\ q2 # live
        BY <1>5, <2>3, <3>2
      <4>2. q1 \in d.sources /\ q2 \in d.sources
        BY <1>5, <1>10, <2>3, <4>1
      <4> QED
        BY <1>6, <2>3, <4>2 DEF OneLive
    <3> QED
      BY <3>1, <3>2
  <2> QED
    BY <2>1, <2>3 DEF OneLive
<1>14. Linear(D)
  <2>1. ASSUME NEW q \in D.sources, q.supersededBy # NoEvent
        PROVE  \E e \in D.events : /\ e.id = q.supersededBy /\ e.supersedes = q.event
                                   /\ e.source = q.source
    <3>1. PICK r \in d.sources :
              /\ q.event = r.event /\ q.source = r.source
              /\ r.event = previous /\ r.supersededBy = NoEvent => q.supersededBy = n
              /\ ~(r.event = previous /\ r.supersededBy = NoEvent) => q = r
      BY <1>5, <1>10, <2>1
    <3>2. CASE r.event = previous /\ r.supersededBy = NoEvent
      <4>1. PICK e \in d.events : e.id = r.event /\ e.source = r.source
        BY <1>6 DEF Paired
      <4>2. r.source = env.source
        <5>1. previous # NoEvent
          BY <1>2, <3>2, <4>1
        <5>2. PICK r0 \in d.sources : r0.event = previous /\ r0.source = env.source
          BY <1>1, <5>1
        <5> QED
          BY <1>6, <3>2, <5>2 DEF OneLive
      <4> QED
        BY <1>3, <1>5, <3>1, <3>2, <4>2
    <3>3. CASE ~(r.event = previous /\ r.supersededBy = NoEvent)
      BY <1>3, <1>6, <2>1, <3>1, <3>3 DEF Linear
    <3> QED
      BY <3>2, <3>3
  <2>2. ASSUME NEW e \in D.events, e.supersedes # NoEvent
        PROVE  \E q \in D.sources : q.event = e.supersedes /\ q.supersededBy = e.id
    <3>1. CASE e = row
      <4>1. PICK r \in d.sources : r.event = previous /\ r.supersededBy = NoEvent
        BY <1>1, <1>5, <2>2, <3>1
      <4> QED
        BY <1>5, <1>10, <3>1, <4>1
    <3>2. CASE e \in d.events
      <4>1. PICK r \in d.sources : r.event = e.supersedes /\ r.supersededBy = e.id
        BY <1>6, <2>2, <3>2 DEF Linear
      <4>2. r.supersededBy # NoEvent
        BY <1>2, <3>2, <4>1
      <4> QED
        BY <1>10, <4>1, <4>2
    <3> QED
      BY <1>3, <3>1, <3>2
  <2> QED
    BY <2>1, <2>2 DEF Linear
<1>15. Housed(D)
  BY <1>3, <1>5, <1>6 DEF Housed, HasProject
<1>16. PairsChained(D)
  BY <1>3, <1>6, <1>8, PairsStayChained
<1>17. IsFiniteSet(D.events)
  <2>1. IsFiniteSet(d.events)
    BY <1>6
  <2>2. IsFiniteSet(d.events \cup {row})
    BY <2>1, FS_AddElement, Zenon
  <2> QED
    BY <1>3, <2>2
<1> QED
  BY <1>9, <1>12, <1>13, <1>14, <1>15, <1>16, <1>17 DEF Consistent

\* A correlation or conflict keeps the database consistent.
LEMMA PairConsistent ==
    ASSUME NEW d \in Database, NEW n \in Ids, Consistent(d, n),
           NEW kind \in {"correlation", "conflict"}, NEW s \in Scopes,
           NEW left \in Ids, NEW right \in Ids
    PROVE  Consistent(PersistPair(d, kind, s, left, right, n), n + 1)
<1> DEFINE D == PersistPair(d, kind, s, left, right, n)
           entry == NextEntry(LastChainPosition(d.chain[s]), kind, n)
           pair == [id |-> n, kind |-> kind, session |-> s, left |-> left, right |-> right]
<1>1. d.chain \in [Scopes -> Seq(Entry)] /\ n \in Nat
  BY DEF Database, Ids
<1>2. entry \in Entry /\ entry.kind = kind /\ entry.target = n
  BY <1>1, LastChainPositionType, NextEntryType DEF NextEntry
<1>3. /\ D.chain = [d.chain EXCEPT ![s] = Append(d.chain[s], entry)]
      /\ D.events = d.events /\ D.sources = d.sources /\ D.projects = d.projects
      /\ D.pairs \subseteq d.pairs \cup {pair}
  BY DEF PersistPair, Database
<1>4. pair.session = s /\ pair.kind = kind /\ pair.id = n
  OBVIOUS
<1> HIDE DEF D, entry, pair
<1>5. /\ Len(d.chain[s]) + 1 \in DOMAIN D.chain[s] /\ D.chain[s][Len(d.chain[s]) + 1] = entry
      /\ \A t \in Scopes :
            /\ \A i \in DOMAIN d.chain[t] :
                  i \in DOMAIN D.chain[t] /\ D.chain[t][i] = d.chain[t][i]
            /\ \A i \in DOMAIN D.chain[t] \ DOMAIN d.chain[t] : D.chain[t][i] = entry
  BY <1>1, <1>2, <1>3, AppendedEntry
<1>6. Issued(D, n + 1)
  <2>1. ASSUME NEW e \in D.events
        PROVE  e.id < n + 1
    <3>1. e.id < n
      BY <1>3 DEF Consistent, Issued
    <3>2. e.id \in Nat
      BY <1>3 DEF Database, EventRow, Ids
    <3> QED
      BY <1>1, <3>1, <3>2
  <2>2. ASSUME NEW t \in Scopes, NEW i \in DOMAIN D.chain[t]
        PROVE  D.chain[t][i].target < n + 1
    <3>1. CASE i \in DOMAIN d.chain[t]
      <4>1. d.chain[t][i].target < n /\ D.chain[t][i] = d.chain[t][i]
        BY <1>5, <3>1 DEF Consistent, Issued
      <4>2. d.chain[t][i] \in Entry
        BY <1>1, <3>1
      <4>3. d.chain[t][i].target \in Nat
        BY <4>2 DEF Entry, Ids
      <4> QED
        BY <1>1, <4>1, <4>3
    <3>2. CASE i \notin DOMAIN d.chain[t]
      BY <1>1, <1>2, <1>5, <3>2
    <3> QED
      BY <3>1, <3>2
  <2> QED
    BY <2>1, <2>2 DEF Issued
<1>7. PairsChained(D)
  <2>1. ASSUME NEW q \in d.pairs
        PROVE  \E i \in DOMAIN D.chain[q.session] :
                 D.chain[q.session][i].kind = q.kind /\ D.chain[q.session][i].target = q.id
    <3>1. q.session \in Scopes
      BY DEF Database, PairRow
    <3>2. PICK i \in DOMAIN d.chain[q.session] :
             d.chain[q.session][i].kind = q.kind /\ d.chain[q.session][i].target = q.id
      BY DEF Consistent, PairsChained
    <3> QED
      BY <1>5, <3>1, <3>2
  <2>2. \E i \in DOMAIN D.chain[pair.session] :
           /\ D.chain[pair.session][i].kind = pair.kind
           /\ D.chain[pair.session][i].target = pair.id
    BY <1>2, <1>4, <1>5
  <2> QED
    BY <1>3, <2>1, <2>2 DEF PairsChained
<1>8. Housed(D) /\ Paired(D) /\ OneLive(D) /\ Linear(D) /\ IsFiniteSet(D.events)
  BY <1>3 DEF Consistent, Housed, Paired, OneLive, Linear
<1> QED
  BY <1>6, <1>7, <1>8 DEF Consistent, D

\* D is d without the rows of a project's events and sessions.
Cleared(d, D, p) ==
    /\ D \in Database
    /\ D.projects = d.projects \ {p}
    /\ D.events = d.events \ ProjectEvents(d, p)
    /\ D.sources = SourcesWithout(d, ProjectEventIds(d, p))
    /\ \A s \in Scopes :
          /\ s \in ProjectSessions(d, p) => D.chain[s] = <<>>
          /\ s \notin ProjectSessions(d, p) => D.chain[s] = d.chain[s]
    /\ \A s \in Sessions : s \notin ProjectSessions(d, p) =>
          D.sessions[s] = d.sessions[s] /\ D.owner[s] = d.owner[s]
    /\ D.pairs = PairsWithout(d, ProjectEventIds(d, p), ProjectSessions(d, p))
    /\ D.deleted = d.deleted \cup DeletionMarkers(d, ProjectEventIds(d, p))
    /\ D.recorded = d.recorded /\ D.refs = d.refs

\* delete_project_data clears the project.
LEMMA PurgedFields ==
    ASSUME NEW d \in Database, NEW p \in Projects
    PROVE  Cleared(d, Purged(d, p), p)
<1> DEFINE D == Purged(d, p)
<1>1. D \in Database
  BY PurgedType
<1>2. /\ D.projects = d.projects \ {p}
      /\ D.events = d.events \ ProjectEvents(d, p)
      /\ D.sources = SourcesWithout(d, ProjectEventIds(d, p))
      /\ D.pairs = PairsWithout(d, ProjectEventIds(d, p), ProjectSessions(d, p))
      /\ D.deleted = d.deleted \cup DeletionMarkers(d, ProjectEventIds(d, p))
      /\ D.recorded = d.recorded /\ D.refs = d.refs
  BY DEF Purged, Database
<1>3. \A s \in Scopes :
          /\ s \in ProjectSessions(d, p) => D.chain[s] = <<>>
          /\ s \notin ProjectSessions(d, p) => D.chain[s] = d.chain[s]
  BY DEF Purged, Database
<1>4. \A s \in Sessions : s \notin ProjectSessions(d, p) =>
          D.sessions[s] = d.sessions[s] /\ D.owner[s] = d.owner[s]
  BY DEF Purged, Database
<1> QED
  BY <1>1, <1>2, <1>3, <1>4 DEF Cleared

\* An audited deletion keeps the database consistent: it revives the version that a
\* deleted correction replaced, and only where no other is live.
LEMMA DeletionConsistent ==
    ASSUME NEW d \in Database, NEW p \in Projects, NEW D, Cleared(d, D, p), NEW n \in Nat,
           Consistent(d, n), ~DeletionRestricted(d, p)
    PROVE  Consistent(D, n)
<1> DEFINE gone == ProjectEventIds(d, p)
<1>1. /\ d.events \subseteq EventRow /\ d.sources \subseteq SourceRow
      /\ d.chain \in [Scopes -> Seq(Entry)] /\ D \in Database
      /\ \A e \in d.events : e.id \in Nat \ {0} /\ e.id # NoEvent
  BY DEF Database, EventRow, Ids, NoEvent, Cleared
<1>2. /\ \A e \in d.events : e.id < n
      /\ \A s \in Scopes : \A i \in DOMAIN d.chain[s] : d.chain[s][i].target < n
      /\ Paired(d) /\ OneLive(d) /\ Linear(d) /\ Housed(d) /\ PairsChained(d)
      /\ IsFiniteSet(d.events)
  BY DEF Consistent, Issued
<1>3. \A e \in d.events : e \in D.events <=> e.id \notin gone
  BY <1>2 DEF Cleared, ProjectEvents, ProjectEventIds, Paired
<1>4. D.events \subseteq d.events
  BY DEF Cleared
<1>5. \A id \in gone : \E e \in d.events : e.id = id
  BY DEF ProjectEventIds, ProjectEvents
<1>6. NoEvent \notin gone
  BY <1>1, <1>5
<1>7. \A e \in d.events : e.supersedes \notin gone
  BY DEF DeletionRestricted, ProjectEventIds
<1>8. D.sources = SourcesWithout(d, gone)
  BY DEF Cleared
<1>9. /\ \A q \in D.sources : \E r \in d.sources :
            /\ q.event = r.event /\ q.source = r.source /\ r.event \notin gone
            /\ r.supersededBy \in gone => q.supersededBy = NoEvent
            /\ r.supersededBy \notin gone => q = r
      /\ \A r \in d.sources : r.event \notin gone => \E q \in D.sources :
            /\ q.event = r.event /\ q.source = r.source
            /\ r.supersededBy \in gone => q.supersededBy = NoEvent
            /\ r.supersededBy \notin gone => q = r
  <2>1. /\ \A q \in SourcesWithout(d, gone) : \E r \in d.sources :
              /\ q.event = r.event /\ q.source = r.source /\ r.event \notin gone
              /\ r.supersededBy \in gone => q.supersededBy = NoEvent
              /\ r.supersededBy \notin gone => q = r
        /\ \A r \in d.sources : r.event \notin gone => \E q \in SourcesWithout(d, gone) :
              /\ q.event = r.event /\ q.source = r.source
              /\ r.supersededBy \in gone => q.supersededBy = NoEvent
              /\ r.supersededBy \notin gone => q = r
    BY RemainingRows
  <2> HIDE DEF gone
  <2> QED
    BY <1>8, <2>1
<1>10. D.sources = {IF r.supersededBy \in gone THEN [r EXCEPT !.supersededBy = NoEvent] ELSE r :
                      r \in {q \in d.sources : q.event \notin gone}}
  BY <1>8 DEF SourcesWithout
<1> HIDE DEF gone
<1>11. Issued(D, n)
  <2>1. \A s \in Scopes : D.chain[s] = d.chain[s] \/ D.chain[s] = <<>>
    BY DEF Cleared
  <2> QED
    BY <1>2, <1>4, <2>1 DEF Issued
<1>12. Paired(D)
  <2>1. \A e, f \in D.events : e.id = f.id => e = f
    BY <1>2, <1>4 DEF Paired
  <2>2. \A q \in D.sources : \E e \in D.events : e.id = q.event /\ e.source = q.source
    BY <1>2, <1>3, <1>9 DEF Paired
  <2>3. \A e \in D.events : \E q \in D.sources : q.event = e.id /\ q.source = e.source
    BY <1>2, <1>3, <1>4, <1>9 DEF Paired
  <2> QED
    BY <2>1, <2>2, <2>3 DEF Paired
<1>13. \* What a deleted event superseded becomes live, and the deleted version was live.
       ASSUME NEW r \in d.sources, r.supersededBy \in gone
       PROVE  \E q \in d.sources : /\ q.event = r.supersededBy /\ q.source = r.source
                                   /\ q.supersededBy = NoEvent
  <2>1. r.supersededBy # NoEvent
    BY <1>6, <1>13
  <2>2. PICK e \in d.events : e.id = r.supersededBy /\ e.source = r.source
    BY <1>2, <2>1 DEF Linear
  <2>3. PICK q \in d.sources : q.event = e.id /\ q.source = e.source
    BY <1>2 DEF Paired
  <2>4. q.supersededBy = NoEvent
    <3> SUFFICES ASSUME q.supersededBy # NoEvent PROVE FALSE
      OBVIOUS
    <3>1. \E f \in d.events : f.supersedes = q.event
      BY <1>2 DEF Linear
    <3> QED
      BY <1>7, <1>13, <2>2, <2>3, <3>1
  <2> QED
    BY <2>2, <2>3, <2>4
<1>14. OneLive(D)
  <2>1. ASSUME NEW q1 \in D.sources, NEW q2 \in D.sources, q1.event = q2.event
        PROVE  q1 = q2
    <3>1. PICK r1 \in d.sources : q1 = IF r1.supersededBy \in gone
                                       THEN [r1 EXCEPT !.supersededBy = NoEvent] ELSE r1
      BY <1>10
    <3>2. PICK r2 \in d.sources : q2 = IF r2.supersededBy \in gone
                                       THEN [r2 EXCEPT !.supersededBy = NoEvent] ELSE r2
      BY <1>10
    <3>3. q1.event = r1.event /\ q2.event = r2.event
      BY <1>1, <3>1, <3>2 DEF SourceRow
    <3>4. r1 = r2
      BY <1>2, <2>1, <3>3 DEF OneLive
    <3> QED
      BY <3>1, <3>2, <3>4
  <2>2. ASSUME NEW q1 \in D.sources, NEW q2 \in D.sources, q1.source = q2.source,
               q1.supersededBy = NoEvent, q2.supersededBy = NoEvent
        PROVE  q1.event = q2.event
    <3>1. PICK r1 \in d.sources :
            /\ q1.event = r1.event /\ q1.source = r1.source /\ r1.event \notin gone
            /\ r1.supersededBy \in gone => q1.supersededBy = NoEvent
            /\ r1.supersededBy \notin gone => q1 = r1
      BY <1>9
    <3>2. PICK r2 \in d.sources :
            /\ q2.event = r2.event /\ q2.source = r2.source /\ r2.event \notin gone
            /\ r2.supersededBy \in gone => q2.supersededBy = NoEvent
            /\ r2.supersededBy \notin gone => q2 = r2
      BY <1>9
    <3>3. CASE r1.supersededBy \notin gone /\ r2.supersededBy \notin gone
      BY <1>2, <2>2, <3>1, <3>2, <3>3 DEF OneLive
    <3>4. CASE r1.supersededBy \in gone /\ r2.supersededBy \notin gone
      <4>1. PICK q \in d.sources : /\ q.event = r1.supersededBy /\ q.source = r1.source
                                   /\ q.supersededBy = NoEvent
        BY <1>13, <3>4
      <4>2. r2 = q
        BY <1>2, <2>2, <3>1, <3>2, <3>4, <4>1 DEF OneLive
      <4> QED
        BY <3>2, <3>4, <4>1, <4>2
    <3>5. CASE r1.supersededBy \notin gone /\ r2.supersededBy \in gone
      <4>1. PICK q \in d.sources : /\ q.event = r2.supersededBy /\ q.source = r2.source
                                   /\ q.supersededBy = NoEvent
        BY <1>13, <3>5
      <4>2. r1 = q
        BY <1>2, <2>2, <3>1, <3>2, <3>5, <4>1 DEF OneLive
      <4> QED
        BY <3>1, <3>5, <4>1, <4>2
    <3>6. CASE r1.supersededBy \in gone /\ r2.supersededBy \in gone
      <4>1. PICK x1 \in d.sources : /\ x1.event = r1.supersededBy /\ x1.source = r1.source
                                    /\ x1.supersededBy = NoEvent
        BY <1>13, <3>6
      <4>2. PICK x2 \in d.sources : /\ x2.event = r2.supersededBy /\ x2.source = r2.source
                                    /\ x2.supersededBy = NoEvent
        BY <1>13, <3>6
      <4>3. r1.supersededBy = r2.supersededBy
        BY <1>2, <2>2, <3>1, <3>2, <4>1, <4>2 DEF OneLive
      <4>4. r1.supersededBy # NoEvent
        BY <1>6, <3>6
      <4>5. PICK e \in d.events : e.id = r1.supersededBy /\ e.supersedes = r1.event
        BY <1>2, <4>4 DEF Linear
      <4>6. PICK f \in d.events : f.id = r2.supersededBy /\ f.supersedes = r2.event
        BY <1>2, <4>3, <4>4 DEF Linear
      <4>7. e = f
        BY <1>2, <4>3, <4>5, <4>6 DEF Paired
      <4> QED
        BY <3>1, <3>2, <4>5, <4>6, <4>7
    <3> QED
      BY <3>3, <3>4, <3>5, <3>6
  <2> QED
    BY <2>1, <2>2 DEF OneLive
<1>15. Linear(D)
  <2>1. ASSUME NEW q \in D.sources, q.supersededBy # NoEvent
        PROVE  \E e \in D.events : /\ e.id = q.supersededBy /\ e.supersedes = q.event
                                   /\ e.source = q.source
    <3>1. q \in d.sources /\ q.supersededBy \notin gone
      BY <1>9, <2>1
    <3>2. PICK e \in d.events : /\ e.id = q.supersededBy /\ e.supersedes = q.event
                                /\ e.source = q.source
      BY <1>2, <2>1, <3>1 DEF Linear
    <3> QED
      BY <1>3, <3>1, <3>2
  <2>2. ASSUME NEW e \in D.events, e.supersedes # NoEvent
        PROVE  \E q \in D.sources : q.event = e.supersedes /\ q.supersededBy = e.id
    <3>1. e \in d.events /\ e.id \notin gone
      BY <1>3, <1>4
    <3>2. PICK r \in d.sources : r.event = e.supersedes /\ r.supersededBy = e.id
      BY <1>2, <2>2, <3>1 DEF Linear
    <3>3. r.event \notin gone
      BY <1>7, <3>1, <3>2
    <3> QED
      BY <1>9, <3>1, <3>2, <3>3
  <2> QED
    BY <2>1, <2>2 DEF Linear
<1>16. Housed(D)
  <2>1. \A e \in D.events : e.project # p
    BY DEF Cleared, ProjectEvents
  <2> QED
    BY <1>2, <1>4, <2>1 DEF Housed, Cleared
<1>17. PairsChained(D)
  <2>1. ASSUME NEW q \in D.pairs
        PROVE  q \in d.pairs /\ q.session \in Scopes /\ q.session \notin ProjectSessions(d, p)
    BY DEF Cleared, PairsWithout, Database, PairRow
  <2>2. \A q \in D.pairs : D.chain[q.session] = d.chain[q.session]
    BY <2>1 DEF Cleared
  <2> QED
    BY <1>2, <2>1, <2>2 DEF PairsChained
<1>18. IsFiniteSet(D.events)
  BY <1>2, <1>4, FS_Subset
<1> QED
  BY <1>11, <1>12, <1>14, <1>15, <1>16, <1>17, <1>18 DEF Consistent
-----------------------------------------------------------------------------
(* Where the callers keep the contract *)

\* What leaves events, chains and references alone, and the sessions that are there in
\* their projects, keeps them accounted for.
LEMMA AccountedKept ==
    ASSUME NEW d \in Database, NEW D, Accounted(d),
           D.events = d.events, D.chain = d.chain, D.deleted = d.deleted, D.refs = d.refs,
           \A s \in Sessions : d.sessions[s] # "absent" =>
               D.sessions[s] # "absent" /\ D.owner[s] = d.owner[s]
    PROVE  Accounted(D)
<1>1. Owned(D)
  <2>1. \A e \in d.events : e.session # None => e.session \in Sessions
    BY DEF Database, EventRow, Scopes
  <2> QED
    BY <2>1 DEF Accounted, Owned
<1> QED
  BY <1>1 DEF Accounted, Chained, Named, Covered, NamesOf

\* A new event that keeps the contract is accounted for.
LEMMA EventAccounted ==
    ASSUME NEW d \in Database, NEW D, NEW n \in Ids, Consistent(d, n), Accounted(d),
           NEW env \in Envelope, Agrees(d, env), HasSession(d, env.session),
           NEW previous \in Nat, Persisted(d, D, env, n, previous)
    PROVE  Accounted(D)
<1> DEFINE row == EventOf(env, n, previous)
<1>1. /\ env.session \in Scopes /\ D.events = d.events \cup {row}
      /\ D.owner = d.owner /\ D.sessions = d.sessions /\ D.deleted = d.deleted
  BY DEF Persisted
<1>2. /\ row.id = n /\ row.session = env.session /\ row.project = env.project
      /\ row.blob = env.blob
  BY DEF EventOf
<1> HIDE DEF row
<1>3. PICK entry \in Entry :
         /\ entry.kind = "source_event" /\ entry.target = n
         /\ D.chain = [d.chain EXCEPT ![env.session] = Append(d.chain[env.session], entry)]
  BY DEF Persisted
<1>4. d.chain \in [Scopes -> Seq(Entry)] /\ d.events \subseteq EventRow
  BY DEF Database
<1>5. ASSUME NEW t \in Scopes
      PROVE  /\ SourceEventTargets(d.chain[t]) \subseteq SourceEventTargets(D.chain[t])
             /\ \A id \in SourceEventTargets(D.chain[t]) :
                   \/ id \in SourceEventTargets(d.chain[t])
                   \/ t = env.session /\ id = n
  <2>1. /\ \A i \in DOMAIN d.chain[t] : i \in DOMAIN D.chain[t] /\ D.chain[t][i] = d.chain[t][i]
        /\ \A i \in DOMAIN D.chain[t] \ DOMAIN d.chain[t] : D.chain[t][i] = entry
    BY <1>1, <1>3, <1>4, AppendedEntry
  <2>2. Continues(d.chain[t], D.chain[t], entry)
    BY <2>1 DEF Continues
  <2>3. t # env.session => D.chain[t] = d.chain[t]
    BY <1>1, <1>3, <1>4
  <2> QED
    BY <1>3, <2>3, <2>2, AppendedTargets
<1>6. n \in SourceEventTargets(D.chain[env.session])
  <2>1. /\ Len(d.chain[env.session]) + 1 \in DOMAIN D.chain[env.session]
        /\ D.chain[env.session][Len(d.chain[env.session]) + 1] = entry
    BY <1>1, <1>3, <1>4, AppendedEntry
  <2> QED
    BY <1>3, <2>1 DEF SourceEventTargets
<1>7. Owned(D)
  BY <1>1, <1>2 DEF Accounted, Owned, Agrees, HasSession
<1>8. Chained(D)
  <2>1. \A e \in d.events : e.session \in Scopes
    BY <1>4 DEF EventRow
  <2> QED
    BY <1>1, <1>2, <1>5, <1>6, <2>1 DEF Accounted, Chained
<1>9. Named(D)
  BY <1>1, <1>2, <1>5 DEF Accounted, Named
<1>10. Covered(D)
  <2> SUFFICES ASSUME NEW b \in Blobs PROVE Cardinality(NamesOf(D, b)) <= D.refs[b]
    BY DEF Covered
  <2>1. IsFiniteSet(d.events) /\ NamesOf(d, b) \in SUBSET d.events
    BY DEF Consistent, NamesOf
  <2>2. IsFiniteSet(NamesOf(d, b))
    BY <2>1, FS_Subset
  <2>3. Cardinality(NamesOf(d, b)) \in Nat /\ Cardinality(NamesOf(d, b)) <= d.refs[b]
    BY <2>2, FS_CardinalityType DEF Accounted, Covered
  <2>4. d.refs[b] \in Nat
    BY DEF Database
  <2>5. CASE env.blob = b
    <3>1. b \in d.recorded
      BY <2>5 DEF Agrees
    <3>2. D.refs[b] = d.refs[b] + 1
      BY <2>5, <3>1 DEF Persisted
    <3>3. NamesOf(D, b) = NamesOf(d, b) \cup {row}
      BY <1>1, <1>2, <2>5 DEF NamesOf
    <3>4. Cardinality(NamesOf(D, b)) <= Cardinality(NamesOf(d, b)) + 1
      <4>1. CASE row \in NamesOf(d, b)
        <5>1. NamesOf(D, b) = NamesOf(d, b)
          BY <3>3, <4>1
        <5> QED
          BY <2>3, <5>1
      <4>2. CASE row \notin NamesOf(d, b)
        <5>1. Cardinality(NamesOf(d, b) \cup {row}) = Cardinality(NamesOf(d, b)) + 1
          BY <2>2, <4>2, FS_AddElement
        <5> QED
          BY <2>3, <3>3, <5>1
      <4> QED
        BY <4>1, <4>2
    <3>5. Cardinality(NamesOf(D, b)) \in Nat
      <4>1. IsFiniteSet(NamesOf(d, b) \cup {row})
        BY <2>2, FS_AddElement
      <4> QED
        BY <3>3, <4>1, FS_CardinalityType
    <3> QED
      BY <2>3, <2>4, <3>2, <3>4, <3>5
  <2>6. CASE env.blob # b
    <3>1. D.refs[b] = d.refs[b]
      BY <2>6 DEF Persisted
    <3>2. NamesOf(D, b) = NamesOf(d, b)
      BY <1>1, <1>2, <2>6 DEF NamesOf
    <3> QED
      BY <2>3, <3>1, <3>2
  <2> QED
    BY <2>5, <2>6
<1> QED
  BY <1>7, <1>8, <1>9, <1>10 DEF Accounted

\* A correlation or conflict leaves events accounted for.
LEMMA PairAccounted ==
    ASSUME NEW d \in Database, NEW n \in Ids, Accounted(d),
           NEW kind \in {"correlation", "conflict"}, NEW s \in Scopes,
           NEW left \in Ids, NEW right \in Ids
    PROVE  Accounted(PersistPair(d, kind, s, left, right, n))
<1> DEFINE D == PersistPair(d, kind, s, left, right, n)
           entry == NextEntry(LastChainPosition(d.chain[s]), kind, n)
<1>1. d.chain \in [Scopes -> Seq(Entry)] /\ d.events \subseteq EventRow
  BY DEF Database
<1>2. entry \in Entry /\ entry.kind = kind
  BY <1>1, LastChainPositionType, NextEntryType DEF NextEntry
<1>3. /\ D.chain = [d.chain EXCEPT ![s] = Append(d.chain[s], entry)]
      /\ D.events = d.events /\ D.owner = d.owner /\ D.sessions = d.sessions
      /\ D.deleted = d.deleted /\ D.refs = d.refs
  BY DEF PersistPair, Database
<1> HIDE DEF D, entry
<1>4. ASSUME NEW t \in Scopes
      PROVE  SourceEventTargets(D.chain[t]) = SourceEventTargets(d.chain[t])
  <2>1. /\ \A i \in DOMAIN d.chain[t] : i \in DOMAIN D.chain[t] /\ D.chain[t][i] = d.chain[t][i]
        /\ \A i \in DOMAIN D.chain[t] \ DOMAIN d.chain[t] : D.chain[t][i] = entry
    BY <1>1, <1>2, <1>3, AppendedEntry
  <2>2. Continues(d.chain[t], D.chain[t], entry)
    BY <2>1 DEF Continues
  <2>3. entry.kind # "source_event"
    BY <1>2
  <2>4. /\ SourceEventTargets(d.chain[t]) \subseteq SourceEventTargets(D.chain[t])
        /\ \A id \in SourceEventTargets(D.chain[t]) :
              \/ id \in SourceEventTargets(d.chain[t])
              \/ entry.kind = "source_event" /\ id = entry.target
    BY <2>2, AppendedTargets
  <2> QED
    BY <2>3, <2>4
<1>5. \A e \in d.events : e.session \in Scopes
  BY <1>1 DEF EventRow
<1>6. Owned(D) /\ Chained(D) /\ Named(D) /\ Covered(D)
  BY <1>3, <1>4, <1>5 DEF Accounted, Owned, Chained, Named, Covered, NamesOf
<1> QED
  BY <1>6 DEF Accounted, D

\* An audited deletion marks exactly the targets that stay behind in the global chain.
LEMMA DeletionAccountsFor ==
    ASSUME NEW d \in Database, NEW p \in Projects, NEW D, Cleared(d, D, p), NEW n \in Nat,
           Consistent(d, n), Accounted(d)
    PROVE  Accounted(D)
<1> DEFINE gone == ProjectEventIds(d, p)
           closed == ProjectSessions(d, p)
<1>1. d.events \subseteq EventRow /\ D.events = d.events \ ProjectEvents(d, p)
  BY DEF Database, Cleared
<1>2. \A e \in D.events : e \in d.events /\ e.project # p /\ e.session \in Scopes
  BY <1>1 DEF ProjectEvents, EventRow
<1>3. closed \subseteq Sessions /\ None \notin closed
  BY DEF ProjectSessions
<1>4. \A e \in d.events : e.session \in closed => e.project = p
  BY <1>3 DEF Accounted, Owned, ProjectSessions
<1>5. \A e \in D.events : e.session \notin closed
  BY <1>2, <1>4
<1>6. Owned(D)
  BY <1>2, <1>5 DEF Accounted, Owned, Cleared, Scopes
<1>7. Chained(D)
  BY <1>2, <1>5 DEF Accounted, Chained, Cleared
<1>8. Named(D)
  <2> SUFFICES ASSUME NEW s \in Scopes, NEW id \in SourceEventTargets(D.chain[s])
               PROVE  (\E e \in D.events : e.id = id /\ e.session = s) \/ id \in D.deleted
    BY DEF Named
  <2>1. s \notin closed /\ D.chain[s] = d.chain[s]
    <3>1. SourceEventTargets(<<>>) = {}
      BY DEF SourceEventTargets
    <3> QED
      BY <3>1 DEF Cleared
  <2>2. D.deleted = d.deleted \cup (gone \cap SourceEventTargets(d.chain[None]))
    BY DEF Cleared, DeletionMarkers
  <2>3. CASE id \in d.deleted
    BY <2>2, <2>3
  <2>4. CASE id \notin d.deleted
    <3>1. PICK e \in d.events : e.id = id /\ e.session = s
      BY <2>1, <2>4 DEF Accounted, Named
    <3>2. CASE e.project # p
      BY <1>1, <3>1, <3>2 DEF ProjectEvents
    <3>3. CASE e.project = p
      <4>1. id \in gone
        BY <3>1, <3>3 DEF ProjectEventIds, ProjectEvents
      <4>2. s = None
        <5> SUFFICES ASSUME s # None PROVE FALSE
          OBVIOUS
        <5>1. d.owner[s] = p /\ d.sessions[s] # "absent" /\ s \in Sessions
          BY <3>1, <3>3 DEF Accounted, Owned, Scopes
        <5> QED
          BY <2>1, <5>1 DEF ProjectSessions
      <4> QED
        BY <2>1, <2>2, <4>1, <4>2
    <3> QED
      BY <3>2, <3>3
  <2> QED
    BY <2>3, <2>4
<1>9. Covered(D)
  <2> SUFFICES ASSUME NEW b \in Blobs PROVE Cardinality(NamesOf(D, b)) <= D.refs[b]
    BY DEF Covered
  <2>1. IsFiniteSet(d.events) /\ NamesOf(d, b) \in SUBSET d.events
    BY DEF Consistent, NamesOf
  <2>2. IsFiniteSet(NamesOf(d, b))
    BY <2>1, FS_Subset
  <2>3. NamesOf(D, b) \in SUBSET NamesOf(d, b)
    BY <1>2 DEF NamesOf
  <2>4. /\ IsFiniteSet(NamesOf(D, b))
        /\ Cardinality(NamesOf(D, b)) <= Cardinality(NamesOf(d, b))
    BY <2>2, <2>3, FS_Subset
  <2>5. /\ Cardinality(NamesOf(D, b)) \in Nat /\ Cardinality(NamesOf(d, b)) \in Nat
        /\ Cardinality(NamesOf(d, b)) <= d.refs[b] /\ d.refs[b] \in Nat /\ D.refs = d.refs
    BY <2>2, <2>4, FS_CardinalityType DEF Accounted, Covered, Database, Cleared
  <2> QED
    BY <2>4, <2>5
<1> QED
  BY <1>6, <1>7, <1>8, <1>9 DEF Accounted
-----------------------------------------------------------------------------
(* The invariant is inductive *)

\* Initially there is nothing to keep.
LEMMA InitHistory == Init => HistoryInv
<1> SUFFICES ASSUME Init PROVE HistoryInv
  OBVIOUS
<1> DEFINE d == EmptyDatabase
<1>1. db = d /\ work = d /\ pending = <<>> /\ nextId = 1 /\ d \in Database
  BY EmptyDatabaseType DEF Init
<1>2. /\ d.events = {} /\ d.sources = {} /\ d.pairs = {} /\ d.deleted = {}
      /\ d.chain = [s \in Scopes |-> <<>>] /\ d.refs = [b \in Blobs |-> 0]
  BY DEF EmptyDatabase
<1> HIDE DEF d
<1>3. Consistent(d, 1)
  <2>1. IsFiniteSet(d.events)
    BY <1>2, FS_EmptySet
  <2> QED
    BY <1>2, <2>1 DEF Consistent, Issued, Paired, OneLive, Linear, Housed, PairsChained
<1>4. Accounted(d)
  <2>1. \A s \in Scopes : SourceEventTargets(d.chain[s]) = {}
    BY <1>2 DEF SourceEventTargets
  <2>2. \A b \in Blobs : Cardinality(NamesOf(d, b)) <= d.refs[b]
    BY <1>2, FS_EmptySet DEF NamesOf
  <2> QED
    BY <1>2, <2>1, <2>2 DEF Accounted, Owned, Chained, Named, Covered
<1>5. PendingAgrees
  BY <1>1 DEF PendingAgrees
<1> QED
  BY <1>1, <1>3, <1>4, <1>5, GrowsSelf, InitChainInv DEF HistoryInv

\* A command that commits a consistent database, accounted for if the contract has been
\* kept, keeps the invariant.
LEMMA CommitHistory ==
    ASSUME HistoryInv, ChainInv', NEW d \in Database, Commit(d), Consistent(d, nextId'),
           agreed' => agreed, agreed' => Accounted(d)
    PROVE  HistoryInv'
<1>1. db' = d /\ work' = d /\ pending' = <<>>
  BY DEF Commit, HistoryInv, ChainInv, TypeOK
<1>2. PendingAgrees'
  BY <1>1 DEF PendingAgrees
<1>3. Grows(db', work')
  BY <1>1, GrowsSelf
<1> QED
  BY <1>1, <1>2, <1>3 DEF HistoryInv

\* A command that commits a database with the same events, versions, chains and pairs.
LEMMA QuietHistory ==
    ASSUME HistoryInv, ChainInv', NEW d \in Database, Commit(d), nextId' = nextId,
           agreed' => agreed,
           d.events = work.events, d.sources = work.sources, d.chain = work.chain,
           d.pairs = work.pairs, work.projects \subseteq d.projects,
           d.deleted = work.deleted, d.refs = work.refs,
           agreed' => \A s \in Sessions : work.sessions[s] # "absent" =>
               d.sessions[s] # "absent" /\ d.owner[s] = work.owner[s]
    PROVE  HistoryInv'
<1>1. work \in Database /\ nextId \in Nat
  BY DEF HistoryInv, ChainInv, TypeOK, Ids
<1>2. Consistent(d, nextId')
  BY <1>1, ConsistentKept DEF HistoryInv
<1>3. agreed' => Accounted(d)
  BY <1>1, AccountedKept DEF HistoryInv
<1> QED
  BY <1>2, <1>3, CommitHistory

\* Persisting the first pending event keeps the invariant.
LEMMA AppendNewHistory ==
    ASSUME HistoryInv, ChainInv', AppendNew
    PROVE  HistoryInv'
<1> DEFINE env == Head(pending)
<1>1. /\ work \in Database /\ db \in Database /\ nextId \in Ids /\ nextId \in Nat
      /\ cursors \in [Scopes -> Cursor] /\ pending \in Seq(Envelope) /\ pending # <<>>
      /\ work' \in Database
  BY DEF HistoryInv, ChainInv, TypeOK, AppendNew, Ids
<1>2. env \in Envelope /\ env.session \in Scopes
  <2>1. env \in Envelope
    BY <1>1
  <2> QED
    BY <2>1 DEF Envelope
<1>3. PICK previous \in IF ExistingSource(work, env) = {} THEN {NoEvent}
                        ELSE {e.id : e \in ExistingSource(work, env)} :
           work' = PersistNewEvent(work, env, nextId, previous)
  BY DEF AppendNew
<1>4. previous \in Nat
  BY <1>1, <1>3 DEF ExistingSource, NoEvent, Database, EventRow, Ids
<1>5. /\ ~ChainRootExists(work, env.session) /\ HasSession(work, env.session)
      /\ HasProject(work, env.project)
      /\ nextId' = nextId + 1 /\ db' = db /\ agreed' = agreed /\ pending' = Tail(pending)
  BY DEF AppendNew, Persistable, FreshId
<1> HIDE DEF env
<1>6. Persisted(work, work', env, nextId, previous)
  BY <1>1, <1>2, <1>3, <1>4, PersistedFields
<1>7. Consistent(work', nextId')
  BY <1>1, <1>2, <1>3, <1>4, <1>5, <1>6, EventConsistent DEF HistoryInv
<1>8. Consistent(db', nextId')
  BY <1>1, <1>5, ConsistentKept DEF HistoryInv
<1>9. ASSUME agreed PROVE Accounted(db') /\ Accounted(work') /\ PendingAgrees'
  <2>1. Accounted(db) /\ Accounted(work) /\ PendingAgrees
    BY <1>9 DEF HistoryInv
  <2>2. Agrees(work, env)
    BY <1>1, <2>1 DEF PendingAgrees, env
  <2>3. Accounted(work')
    BY <1>1, <1>2, <1>4, <1>5, <1>6, <2>1, <2>2, EventAccounted DEF HistoryInv
  <2>4. work'.owner = work.owner /\ work'.recorded = work.recorded
    BY <1>6 DEF Persisted
  <2>5. ASSUME NEW i \in DOMAIN pending'
        PROVE  Agrees(work, pending'[i])
    <3>1. i + 1 \in DOMAIN pending /\ pending'[i] = pending[i + 1]
      BY <1>1, <1>5, <2>5, HeadTailProperties
    <3> QED
      BY <2>1, <3>1 DEF PendingAgrees
  <2>6. PendingAgrees'
    BY <2>4, <2>5 DEF PendingAgrees, Agrees
  <2> QED
    BY <1>5, <2>1, <2>3, <2>6
<1>10. Grows(db', work')
  <2>1. PICK entry \in Entry :
           /\ entry.target = nextId
           /\ work'.chain = [work.chain EXCEPT ![env.session] =
                               Append(work.chain[env.session], entry)]
    BY <1>6 DEF Persisted
  <2>2. work'.roots = work.roots /\ work.events \subseteq work'.events
    BY <1>6 DEF Persisted
  <2>3. Unseen(db, entry.target)
    <3> SUFFICES ASSUME NEW t \in Scopes, NEW j \in DOMAIN db.chain[t]
                 PROVE  entry.target # db.chain[t][j].target
      BY DEF Unseen
    <3>1. db.chain[t][j].target < nextId
      BY DEF HistoryInv, Consistent, Issued
    <3> QED
      BY <1>1, <2>1, <3>1
  <2>4. Grows(db, work)
    BY DEF HistoryInv
  <2>5. PICK W \in Database : W = work'
    BY <1>1
  <2>6. /\ W.chain = [work.chain EXCEPT ![env.session] = Append(work.chain[env.session], entry)]
        /\ W.roots = work.roots /\ work.events \subseteq W.events
    BY <2>1, <2>2, <2>5
  <2>7. Grows(db, W)
    BY <1>1, <1>2, <1>5, <2>3, <2>4, <2>6, AppendGrows
  <2> QED
    BY <1>5, <2>5, <2>7
<1> QED
  BY <1>5, <1>7, <1>8, <1>9, <1>10 DEF HistoryInv

\* A correlation or conflict keeps the invariant.
LEMMA CorrelationHistory ==
    ASSUME HistoryInv, ChainInv', NEW s \in Scopes, NEW kind \in {"correlation", "conflict"},
           NEW left \in work.events, NEW right \in work.events,
           SaveCorrelation(kind, s, left.id, right.id)
    PROVE  HistoryInv'
<1>1. /\ work \in Database /\ nextId \in Ids /\ left.id \in Ids /\ right.id \in Ids
      /\ nextId' = nextId + 1 /\ agreed' = agreed
  BY DEF HistoryInv, ChainInv, TypeOK, Database, EventRow, SaveCorrelation, FreshId
<1> DEFINE d == PersistPair(work, kind, s, left.id, right.id, nextId)
<1>2. d \in Database /\ Commit(d)
  BY <1>1, PersistPairType DEF SaveCorrelation
<1>3. Consistent(d, nextId')
  BY <1>1, PairConsistent DEF HistoryInv
<1>4. agreed' => Accounted(d)
  BY <1>1, PairAccounted DEF HistoryInv
<1> HIDE DEF d
<1> QED
  BY <1>1, <1>2, <1>3, <1>4, CommitHistory

\* The invariant is inductive.
LEMMA NextHistory == HistoryInv /\ [Next]_vars => HistoryInv'
<1> SUFFICES ASSUME HistoryInv, [Next]_vars PROVE HistoryInv'
  OBVIOUS
<1>1. /\ ChainInv' /\ TypeOK /\ TypeOK' /\ work \in Database /\ db \in Database
      /\ nextId \in Nat /\ nextId' \in Nat
  BY NextChainInv DEF HistoryInv, ChainInv, TypeOK, Ids
<1>2. ASSUME NEW p \in Projects, UpsertProject(p) PROVE HistoryInv'
  <2> DEFINE d == [work EXCEPT !.projects = @ \cup {p}]
  <2>1. d \in Database /\ Commit(d) /\ nextId' = nextId /\ agreed' = agreed
    BY <1>1, <1>2 DEF UpsertProject, Database
  <2>2. /\ d.events = work.events /\ d.sources = work.sources /\ d.chain = work.chain
        /\ d.pairs = work.pairs /\ work.projects \subseteq d.projects
        /\ d.deleted = work.deleted /\ d.refs = work.refs
        /\ d.sessions = work.sessions /\ d.owner = work.owner
    BY <1>1 DEF Database
  <2> HIDE DEF d
  <2> QED
    BY <1>1, <2>1, <2>2, QuietHistory
<1>3. ASSUME NEW p \in Projects, DeleteProject(p) PROVE HistoryInv'
  <2>1. /\ Cleared(work, Purged(work, p), p) /\ Commit(Purged(work, p))
        /\ ~DeletionRestricted(work, p) /\ nextId' = nextId /\ agreed' = agreed
    BY <1>1, <1>3, PurgedFields DEF DeleteProject
  <2>2. PICK d : d = Purged(work, p)
    OBVIOUS
  <2>3. Cleared(work, d, p) /\ Commit(d) /\ d \in Database
    BY <2>1, <2>2 DEF Cleared
  <2>4. Consistent(d, nextId')
    BY <1>1, <2>1, <2>3, DeletionConsistent DEF HistoryInv
  <2>5. agreed' => Accounted(d)
    BY <1>1, <2>1, <2>3, DeletionAccountsFor DEF HistoryInv
  <2> QED
    BY <1>1, <2>1, <2>3, <2>4, <2>5, CommitHistory
<1>4. ASSUME NEW p \in Projects, DeleteProjectRefused(p) PROVE HistoryInv'
  BY <1>1, <1>4 DEF DeleteProjectRefused, HistoryInv, PendingAgrees
<1>5. ASSUME NEW s \in Sessions, CompleteSession(s) PROVE HistoryInv'
  <2> DEFINE d == [work EXCEPT !.sessions[s] = "complete"]
  <2>1. d \in Database /\ Commit(d) /\ nextId' = nextId /\ agreed' = agreed
    BY <1>1, <1>5 DEF CompleteSession, Database, SessionState
  <2>2. /\ d.events = work.events /\ d.sources = work.sources /\ d.chain = work.chain
        /\ d.pairs = work.pairs /\ work.projects = d.projects
        /\ d.deleted = work.deleted /\ d.refs = work.refs /\ d.owner = work.owner
    BY <1>1 DEF Database
  <2>3. \A t \in Sessions : work.sessions[t] # "absent" => d.sessions[t] # "absent"
    BY <1>1 DEF Database
  <2> HIDE DEF d
  <2> QED
    BY <1>1, <2>1, <2>2, <2>3, QuietHistory
<1>6. ASSUME NEW s \in Sessions, NEW p \in Projects \cup {None}, CreateSession(s, p)
      PROVE  HistoryInv'
  <2> DEFINE d == [work EXCEPT !.sessions[s] = "active", !.owner[s] = p]
  <2>1. d \in Database /\ Commit(d) /\ nextId' = nextId /\ agreed' = agreed
    BY <1>1, <1>6 DEF CreateSession, Database, SessionState
  <2>2. /\ d.events = work.events /\ d.sources = work.sources /\ d.chain = work.chain
        /\ d.pairs = work.pairs /\ work.projects = d.projects
        /\ d.deleted = work.deleted /\ d.refs = work.refs
    BY <1>1 DEF Database
  <2>3. \A t \in Sessions : work.sessions[t] # "absent" =>
           d.sessions[t] # "absent" /\ d.owner[t] = work.owner[t]
    BY <1>1, <1>6 DEF Database, CreateSession
  <2> HIDE DEF d
  <2> QED
    BY <1>1, <2>1, <2>2, <2>3, QuietHistory
<1>7. ASSUME NEW s \in Sessions, NEW p \in Projects \cup {None}, UpsertSession(s, p)
      PROVE  HistoryInv'
  <2> DEFINE d == [work EXCEPT
                     !.sessions[s] = IF @ = "absent" THEN "imported" ELSE @,
                     !.owner[s] = IF p = None THEN @ ELSE p]
  <2>1. d \in Database /\ Commit(d) /\ nextId' = nextId
    BY <1>1, <1>7 DEF UpsertSession, Database, SessionState
  <2>2. /\ agreed' => agreed
        /\ agreed' => (work.sessions[s] # "absent" => p \in {None, work.owner[s]})
    BY <1>1, <1>7 DEF UpsertSession, TypeOK
  <2>3. /\ d.events = work.events /\ d.sources = work.sources /\ d.chain = work.chain
        /\ d.pairs = work.pairs /\ work.projects = d.projects
        /\ d.deleted = work.deleted /\ d.refs = work.refs
    BY <1>1 DEF Database
  <2>4. ASSUME agreed', NEW t \in Sessions, work.sessions[t] # "absent"
        PROVE  d.sessions[t] # "absent" /\ d.owner[t] = work.owner[t]
    <3>1. t = s => p \in {None, work.owner[s]}
      BY <2>2, <2>4
    <3> QED
      BY <1>1, <2>4, <3>1 DEF Database
  <2> HIDE DEF d
  <2> QED
    BY <1>1, <2>1, <2>2, <2>3, <2>4, QuietHistory
<1>8. ASSUME NEW b \in Blobs, RecordBlob(b) PROVE HistoryInv'
  <2> DEFINE d == [work EXCEPT !.recorded = @ \cup {b}]
  <2>1. d \in Database /\ Commit(d) /\ nextId' = nextId /\ agreed' = agreed
    BY <1>1, <1>8 DEF RecordBlob, Database
  <2>2. /\ d.events = work.events /\ d.sources = work.sources /\ d.chain = work.chain
        /\ d.pairs = work.pairs /\ work.projects = d.projects
        /\ d.deleted = work.deleted /\ d.refs = work.refs
        /\ d.sessions = work.sessions /\ d.owner = work.owner
    BY <1>1 DEF Database
  <2> HIDE DEF d
  <2> QED
    BY <1>1, <2>1, <2>2, QuietHistory
<1>9. ASSUME NEW e \in work.events, SaveRiskFinding(e) PROVE HistoryInv'
  <2> DEFINE d == [work EXCEPT !.findings = @ \cup {[event |-> e.id, session |-> e.session]}]
  <2>1. [event |-> e.id, session |-> e.session] \in FindingRow
    BY <1>1 DEF Database, EventRow, FindingRow
  <2>2. d \in Database /\ Commit(d) /\ nextId' = nextId /\ agreed' = agreed
    BY <1>1, <1>9, <2>1 DEF SaveRiskFinding, Database
  <2>3. /\ d.events = work.events /\ d.sources = work.sources /\ d.chain = work.chain
        /\ d.pairs = work.pairs /\ work.projects = d.projects
        /\ d.deleted = work.deleted /\ d.refs = work.refs
        /\ d.sessions = work.sessions /\ d.owner = work.owner
    BY <1>1 DEF Database
  <2> HIDE DEF d
  <2> QED
    BY <1>1, <2>2, <2>3, QuietHistory
<1>10. ASSUME NEW s \in Scopes, FinalizeChain(s) PROVE HistoryInv'
  <2> DEFINE d == [work EXCEPT !.roots[s] =
                     LET last == LastChainPosition(work.chain[s])
                     IN [count |-> last.sequence, hash |-> last.hash]]
  <2>1. d \in Database /\ Commit(d) /\ nextId' = nextId /\ agreed' = agreed
    BY <1>1, <1>10, FinalizedType DEF FinalizeChain
  <2>2. /\ d.events = work.events /\ d.sources = work.sources /\ d.chain = work.chain
        /\ d.pairs = work.pairs /\ work.projects = d.projects
        /\ d.deleted = work.deleted /\ d.refs = work.refs
        /\ d.sessions = work.sessions /\ d.owner = work.owner
    BY <1>1 DEF Database
  <2> HIDE DEF d
  <2> QED
    BY <1>1, <2>1, <2>2, QuietHistory
<1>11. ASSUME NEW s \in Scopes, NEW kind \in {"correlation", "conflict"},
              NEW left \in work.events, NEW right \in work.events,
              SaveCorrelation(kind, s, left.id, right.id)
       PROVE  HistoryInv'
  BY <1>1, <1>11, CorrelationHistory
<1>12. ASSUME NEW batch \in Batches, AppendBegin(batch) PROVE HistoryInv'
  <2>1. /\ db' = db /\ work' = work /\ nextId' = nextId /\ pending' = batch
        /\ agreed' => agreed /\ PendingAgrees'
    BY <1>1, <1>12 DEF AppendBegin, PendingAgrees, Agrees, TypeOK
  <2> QED
    BY <1>1, <2>1 DEF HistoryInv
<1>13. CASE AppendDuplicate
  <2>1. /\ db' = db /\ work' = work /\ nextId' = nextId /\ agreed' = agreed
        /\ pending \in Seq(Envelope) /\ pending # <<>> /\ pending' = Tail(pending)
    BY <1>1, <1>13 DEF AppendDuplicate, TypeOK
  <2>2. ASSUME PendingAgrees PROVE PendingAgrees'
    <3>1. ASSUME NEW i \in DOMAIN pending'
          PROVE  Agrees(work, pending'[i])
      <4>1. i + 1 \in DOMAIN pending /\ pending'[i] = pending[i + 1]
        BY <2>1, <3>1, HeadTailProperties
      <4> QED
        BY <2>2, <4>1 DEF PendingAgrees
    <3> QED
      BY <2>1, <3>1 DEF PendingAgrees
  <2> QED
    BY <1>1, <2>1, <2>2 DEF HistoryInv
<1>14. CASE AppendNew
  BY <1>1, <1>14, AppendNewHistory
<1>15. CASE AppendRollback
  <2>1. db' = db /\ work' = db /\ nextId' = nextId /\ agreed' = agreed /\ pending' = <<>>
    BY <1>15 DEF AppendRollback
  <2>2. PendingAgrees'
    BY <2>1 DEF PendingAgrees
  <2>3. Grows(db', work')
    BY <1>1, <2>1, GrowsSelf
  <2> QED
    BY <1>1, <2>1, <2>2, <2>3 DEF HistoryInv
<1>16. CASE AppendCommit
  <2>1. /\ db' = work /\ work' = work /\ nextId' = nextId /\ agreed' = agreed
        /\ pending' = <<>>
    BY <1>16 DEF AppendCommit
  <2>2. PendingAgrees'
    BY <2>1 DEF PendingAgrees
  <2>3. Grows(db', work')
    BY <1>1, <2>1, GrowsSelf
  <2> QED
    BY <1>1, <2>1, <2>2, <2>3 DEF HistoryInv
<1>17. CASE UNCHANGED vars
  BY <1>1, <1>17 DEF vars, HistoryInv, PendingAgrees
<1> QED
  BY <1>2, <1>3, <1>4, <1>5, <1>6, <1>7, <1>8, <1>9, <1>10, <1>11, <1>12,
     <1>13, <1>14, <1>15, <1>16, <1>17 DEF Next

\* HistoryInv holds in every reachable state.
LEMMA History == Spec => []HistoryInv
  BY InitHistory, NextHistory, PTL DEF Spec
-----------------------------------------------------------------------------
(* What follows from it *)

\* In every reachable state, committed or inside a batch, a source has at most one live
\* version, and an event says that it supersedes another exactly when that one's source
\* row names it: after corrections across sessions and projects, after rollbacks, and
\* after deletions, which revive the version a deleted correction replaced.
THEOREM VersionsAgree == Spec => []SourceVersions
<1>1. HistoryInv => SourceVersions
  BY DEF HistoryInv, Consistent, SourceVersions, OneLiveVersion, SupersessionAgrees
<1> QED
  BY <1>1, History, PTL

\* In every reachable state, if the callers have kept the contract, the reference count
\* of a blob is at least the number of committed events that name it.
THEOREM ReferencesStayCovered == Spec => []ReferencesCovered
<1>1. HistoryInv => ReferencesCovered
  BY DEF HistoryInv, Accounted, Covered, NamesOf, ReferencesCovered
<1> QED
  BY <1>1, History, PTL

\* Chains, events, markers and pairs agree.
LEMMA HistoryAccounts == HistoryInv => DeletionAccounted
<1> SUFFICES ASSUME HistoryInv PROVE DeletionAccounted
  OBVIOUS
<1>1. ChainedEventsAccounted
  <2> SUFFICES ASSUME agreed, NEW d \in {db, work}, NEW s \in Scopes,
                      NEW id \in SourceEventTargets(d.chain[s])
               PROVE  HasEvent(d, id) \/ id \in d.deleted
    BY DEF ChainedEventsAccounted
  <2>1. Named(d)
    BY DEF HistoryInv, Accounted
  <2> QED
    BY <2>1 DEF Named, HasEvent
<1>2. EventsAreChained
  <2> SUFFICES ASSUME agreed, NEW d \in {db, work}, NEW e \in d.events
               PROVE  e.id \in SourceEventTargets(d.chain[e.session])
    BY DEF EventsAreChained
  <2>1. Chained(d)
    BY DEF HistoryInv, Accounted
  <2> QED
    BY <2>1 DEF Chained
<1>3. PairsAreChained
  BY DEF HistoryInv, Consistent, PairsChained, PairsAreChained
<1> QED
  BY <1>1, <1>2, <1>3 DEF DeletionAccounted

\* A step takes committed events only with the project they belong to.
LEMMA StepKeepsEvents == HistoryInv /\ [Next]_vars => [EventsKept]_vars
<1> SUFFICES ASSUME HistoryInv, Next PROVE EventsKept
  OBVIOUS
<1>1. /\ work \in Database /\ db \in Database /\ db.events \subseteq work.events
      /\ ~inTxn => work = db
  BY DEF HistoryInv, ChainInv, TypeOK, Grows
<1>2. ASSUME NEW p \in Projects, DeleteProject(p) PROVE EventsKept
  <2>1. work = db /\ db' = Purged(work, p)
    BY <1>1, <1>2 DEF DeleteProject, Commit
  <2>2. PICK d : d = Purged(db, p)
    OBVIOUS
  <2>3. Cleared(db, d, p) /\ db' = d
    BY <1>1, <2>1, <2>2, PurgedFields
  <2>4. \A e \in db.events : e \in d.events \/ e.project = p
    BY <2>3 DEF Cleared, ProjectEvents
  <2>5. \A e \in db.events : e.project = p => e.project \in db.projects \ d.projects
    BY <2>3 DEF Cleared, HistoryInv, Consistent, Housed
  <2> QED
    BY <2>3, <2>4, <2>5 DEF EventsKept
<1>3. ASSUME NEW d, Commit(d), d.events = work.events PROVE EventsKept
  BY <1>1, <1>3 DEF Commit, EventsKept
<1>4. ASSUME NEW p \in Projects, UpsertProject(p) PROVE EventsKept
  <2>1. [work EXCEPT !.projects = @ \cup {p}].events = work.events
    BY <1>1 DEF Database
  <2> QED
    BY <1>3, <1>4, <2>1 DEF UpsertProject
<1>5. ASSUME NEW s \in Sessions, CompleteSession(s) PROVE EventsKept
  <2>1. [work EXCEPT !.sessions[s] = "complete"].events = work.events
    BY <1>1 DEF Database
  <2> QED
    BY <1>3, <1>5, <2>1 DEF CompleteSession
<1>6. ASSUME NEW s \in Sessions, NEW p \in Projects \cup {None}, CreateSession(s, p)
      PROVE  EventsKept
  <2>1. [work EXCEPT !.sessions[s] = "active", !.owner[s] = p].events = work.events
    BY <1>1 DEF Database
  <2> QED
    BY <1>3, <1>6, <2>1 DEF CreateSession
<1>7. ASSUME NEW s \in Sessions, NEW p \in Projects \cup {None}, UpsertSession(s, p)
      PROVE  EventsKept
  <2>1. [work EXCEPT !.sessions[s] = IF @ = "absent" THEN "imported" ELSE @,
                     !.owner[s] = IF p = None THEN @ ELSE p].events = work.events
    BY <1>1 DEF Database
  <2> QED
    BY <1>3, <1>7, <2>1 DEF UpsertSession
<1>8. ASSUME NEW b \in Blobs, RecordBlob(b) PROVE EventsKept
  <2>1. [work EXCEPT !.recorded = @ \cup {b}].events = work.events
    BY <1>1 DEF Database
  <2> QED
    BY <1>3, <1>8, <2>1 DEF RecordBlob
<1>9. ASSUME NEW e \in work.events, SaveRiskFinding(e) PROVE EventsKept
  <2>1. [work EXCEPT !.findings =
            @ \cup {[event |-> e.id, session |-> e.session]}].events = work.events
    BY <1>1 DEF Database
  <2> QED
    BY <1>3, <1>9, <2>1 DEF SaveRiskFinding
<1>10. ASSUME NEW s \in Scopes, FinalizeChain(s) PROVE EventsKept
  <2>1. [work EXCEPT !.roots[s] = LET last == LastChainPosition(work.chain[s])
                                  IN [count |-> last.sequence, hash |-> last.hash]].events
          = work.events
    BY <1>1 DEF Database
  <2> QED
    BY <1>3, <1>10, <2>1 DEF FinalizeChain
<1>11. ASSUME NEW s \in Scopes, NEW kind \in {"correlation", "conflict"},
              NEW left \in work.events, NEW right \in work.events,
              SaveCorrelation(kind, s, left.id, right.id)
       PROVE  EventsKept
  <2>1. PersistPair(work, kind, s, left.id, right.id, nextId).events = work.events
    BY <1>1 DEF Database, PersistPair
  <2> QED
    BY <1>3, <1>11, <2>1 DEF SaveCorrelation
<1>12. CASE AppendCommit
  BY <1>1, <1>12 DEF AppendCommit, EventsKept
<1>13. CASE \/ \E p \in Projects : DeleteProjectRefused(p)
            \/ \E batch \in Batches : AppendBegin(batch)
            \/ AppendDuplicate \/ AppendNew \/ AppendRollback
  <2>1. db' = db
    BY <1>13 DEF DeleteProjectRefused, AppendBegin, AppendDuplicate, AppendNew, AppendRollback
  <2> QED
    BY <2>1 DEF EventsKept
<1> QED
  BY <1>2, <1>4, <1>5, <1>6, <1>7, <1>8, <1>9, <1>10, <1>11, <1>12, <1>13 DEF Next

\* No step changes a committed event, and none takes one except the deletion of its
\* project, which leaves every chain entry with its event or its marker, every event in
\* its chain, and every correlation in the chain of its session.
THEOREM DeletionIsExact == Spec => DeletionExact
<1>1. HistoryInv => DeletionAccounted
  BY HistoryAccounts
<1>2. HistoryInv /\ [Next]_vars => [EventsKept]_vars
  BY StepKeepsEvents
<1> QED
  BY <1>1, <1>2, History, PTL DEF Spec, DeletionExact
-----------------------------------------------------------------------------
(* The store implements EvidenceLog *)

\* The abstract log and seals of a database, as the instance Log has them.
LogOf(d) == [s \in Scopes |-> [i \in DOMAIN d.chain[s] |-> d.chain[s][i].target]]
SealsOf(d) == [s \in Scopes |-> ChainRootExists(d, s)]

\* A log has the length of its chain and its targets.
LEMMA LogOfChain ==
    ASSUME NEW d \in Database, NEW s \in Scopes
    PROVE  /\ LogOf(d)[s] \in Seq(Ids) /\ Len(LogOf(d)[s]) = Len(d.chain[s])
           /\ DOMAIN LogOf(d)[s] = DOMAIN d.chain[s]
           /\ DOMAIN d.chain[s] = 1..Len(d.chain[s]) /\ Len(d.chain[s]) \in Nat
           /\ \A i \in DOMAIN d.chain[s] : LogOf(d)[s][i] = d.chain[s][i].target
<1> DEFINE rows == d.chain[s]
<1>1. rows \in Seq(Entry) /\ DOMAIN rows = 1..Len(rows) /\ Len(rows) \in Nat
  BY DEF Database
<1>2. LogOf(d)[s] = [i \in 1..Len(rows) |-> rows[i].target]
  BY <1>1 DEF LogOf
<1>3. \A i \in 1..Len(rows) : rows[i].target \in Ids
  <2>1. \A i \in 1..Len(rows) : rows[i] \in Entry
    BY <1>1
  <2> QED
    BY <2>1 DEF Entry
<1>4. LogOf(d)[s] \in [1..Len(rows) -> Ids]
  BY <1>2, <1>3
<1>5. LogOf(d)[s] \in Seq(Ids) /\ Len(LogOf(d)[s]) = Len(rows)
  BY <1>1, <1>4
<1> QED
  BY <1>1, <1>2, <1>5

\* A commit of a database that goes on from the committed one extends the log.
LEMMA GrowsExtends ==
    ASSUME db \in Database, NEW w \in Database, db' = w, Grows(db, w)
    PROVE  Log!Extend
<1>1. ASSUME NEW s \in Scopes
      PROVE  IF SealsOf(db)[s] THEN LogOf(w)[s] = LogOf(db)[s]
             ELSE Log!Extends(LogOf(db)[s], LogOf(w)[s])
  <2>1. ChainGrows(db, w.chain[s], s)
    BY DEF Grows
  <2>2. CASE SealsOf(db)[s]
    BY <2>1, <2>2 DEF ChainGrows, SealsOf, LogOf
  <2>3. CASE ~SealsOf(db)[s]
    <3>1. Len(LogOf(db)[s]) <= Len(LogOf(w)[s])
      BY <2>1, LogOfChain DEF ChainGrows
    <3>2. ASSUME NEW i \in 1..Len(LogOf(db)[s])
          PROVE  LogOf(w)[s][i] = LogOf(db)[s][i]
      <4>1. i \in DOMAIN db.chain[s] /\ LogOf(db)[s][i] = db.chain[s][i].target
        BY LogOfChain
      <4>2. i \in DOMAIN w.chain[s] /\ LogOf(w)[s][i] = w.chain[s][i].target
        <5>1. i \in DOMAIN w.chain[s]
          BY <2>1, <4>1, LogOfChain DEF ChainGrows
        <5> QED
          BY <5>1, LogOfChain
      <4> QED
        BY <2>1, <4>1, <4>2 DEF ChainGrows
    <3>3. ASSUME NEW i \in (Len(LogOf(db)[s]) + 1)..Len(LogOf(w)[s])
          PROVE  LogOf(w)[s][i] \notin Log!Recorded
      <4>1. i \in DOMAIN w.chain[s] \ DOMAIN db.chain[s]
        BY LogOfChain
      <4>2. LogOf(w)[s][i] = w.chain[s][i].target
        BY <4>1, LogOfChain
      <4>3. \A t \in Scopes : \A j \in DOMAIN db.chain[t] :
               w.chain[s][i].target # db.chain[t][j].target
        BY <2>1, <4>1 DEF ChainGrows
      <4>4. \A t \in Scopes : \A j \in DOMAIN LogOf(db)[t] :
               LogOf(w)[s][i] # LogOf(db)[t][j]
        BY <4>2, <4>3, LogOfChain
      <4>5. Log!Recorded =
              UNION {{LogOf(db)[t][j] : j \in DOMAIN LogOf(db)[t]} : t \in Scopes}
        BY DEF Log!Recorded, Log!Scopes, Scopes, LogOf
      <4> QED
        BY <4>4, <4>5
    <3> QED
      BY <2>3, <3>1, <3>2, <3>3 DEF Log!Extends
  <2> QED
    BY <2>2, <2>3
<1>2. SealsOf(w) = SealsOf(db)
  BY DEF SealsOf, Grows, ChainRootExists
<1>3. LogOf(db)' = LogOf(w) /\ SealsOf(db)' = SealsOf(w)
  BY DEF LogOf, SealsOf, ChainRootExists
<1>4. /\ \A s \in Scopes : IF SealsOf(db)[s] THEN LogOf(db)'[s] = LogOf(db)[s]
                           ELSE Log!Extends(LogOf(db)[s], LogOf(db)'[s])
      /\ SealsOf(db)' = SealsOf(db)
  BY <1>1, <1>2, <1>3
<1> QED
  BY <1>4 DEF Log!Extend, Log!Scopes, Scopes, LogOf, SealsOf

\* A commit that leaves chains and roots alone does not touch the log.
LEMMA SameLog ==
    ASSUME db'.chain = db.chain, db'.roots = db.roots
    PROVE  UNCHANGED Log!logVars
  BY DEF Log!logVars, ChainRootExists

\* Initially the log is empty and open.
LEMMA InitLog == Init => Log!LogInit
<1> SUFFICES ASSUME Init PROVE Log!LogInit
  OBVIOUS
<1>1. /\ db.chain = [s \in Scopes |-> <<>>] /\ \A s \in Scopes : ~ChainRootExists(db, s)
  BY DEF Init, EmptyDatabase, ChainRootExists, NoRoot
<1>2. LogOf(db) = [s \in Scopes |-> <<>>]
  <2>1. \A s \in Scopes : [i \in DOMAIN db.chain[s] |-> db.chain[s][i].target] = <<>>
    BY <1>1
  <2> QED
    BY <2>1 DEF LogOf
<1>3. SealsOf(db) = [s \in Scopes |-> FALSE]
  <2>1. \A s \in Scopes : ChainRootExists(db, s) = FALSE
    BY <1>1 DEF ChainRootExists
  <2> QED
    BY <2>1, Zenon DEF SealsOf
<1> QED
  <2>1. Log!Scopes = Scopes
    BY DEF Log!Scopes, Scopes
  <2>2. /\ LogOf(db) = [s \in Log!Scopes |-> <<>>]
        /\ SealsOf(db) = [s \in Log!Scopes |-> FALSE]
    BY <1>2, <1>3, <2>1
  <2> QED
    BY <2>2 DEF Log!LogInit, LogOf, SealsOf

\* A root over a chain that is not empty is a seal.
LEMMA FinalizeSeals ==
    ASSUME HistoryInv, NEW s \in Scopes, FinalizeChain(s)
    PROVE  Log!Seal(s)
<1> DEFINE rows == work.chain[s]
           last == LastChainPosition(rows)
           d == [work EXCEPT !.roots[s] = [count |-> last.sequence, hash |-> last.hash]]
<1>1. /\ work = db /\ db \in Database /\ db' = d
      /\ ~ChainRootExists(db, s) /\ db.chain[s] # <<>> /\ SoundChains(db)
  BY DEF FinalizeChain, Commit, HistoryInv, ChainInv, TypeOK
<1>2. last.sequence > 0
  <2>1. db.chain[s] \in Seq(Entry) /\ Len(db.chain[s]) \in DOMAIN db.chain[s]
        /\ Len(db.chain[s]) > 0
    BY <1>1 DEF Database
  <2>2. db.chain[s][Len(db.chain[s])].sequence = Len(db.chain[s])
    BY <1>1, <2>1 DEF SoundChains, WellFormed
  <2> QED
    BY <1>1, <2>1, <2>2 DEF LastChainPosition
<1>3. /\ d.chain = db.chain
      /\ d.roots = [db.roots EXCEPT ![s] = [count |-> last.sequence, hash |-> last.hash]]
  BY <1>1 DEF Database
<1>4. db.roots \in [Scopes -> RootRow]
  BY <1>1 DEF Database
<1> HIDE DEF d, last
<1>5. db'.chain = db.chain /\ \A t \in Scopes : ChainRootExists(db', t) <=>
                                                  t = s \/ ChainRootExists(db, t)
  BY <1>1, <1>2, <1>3, <1>4 DEF ChainRootExists
<1>6. LogOf(db)' = LogOf(db)
  BY <1>5 DEF LogOf
<1>7. SealsOf(db)' = [SealsOf(db) EXCEPT ![s] = TRUE]
  <2>1. SealsOf(db)' = [t \in Scopes |-> ChainRootExists(db', t)]
    BY DEF SealsOf, ChainRootExists
  <2>2. ASSUME NEW t \in Scopes
        PROVE  ChainRootExists(db', t) = IF t = s THEN TRUE ELSE ChainRootExists(db, t)
    <3>1. CASE t = s
      BY <1>5, <3>1 DEF ChainRootExists
    <3>2. CASE t # s
      <4>1. ChainRootExists(db', t) = ChainRootExists(db, t)
        BY <1>5, <3>2 DEF ChainRootExists
      <4> QED
        BY <3>2, <4>1
    <3> QED
      BY <3>1, <3>2
  <2>3. SealsOf(db)' = [t \in Scopes |-> IF t = s THEN TRUE ELSE ChainRootExists(db, t)]
    BY <2>1, <2>2, Zenon
  <2> QED
    BY <2>3 DEF SealsOf
<1>8. ~SealsOf(db)[s] /\ LogOf(db)[s] # <<>>
  <2>1. LogOf(db)[s] # <<>>
    <3>1. Len(LogOf(db)[s]) = Len(db.chain[s]) /\ db.chain[s] \in Seq(Entry)
      BY <1>1, LogOfChain DEF Database
    <3> QED
      BY <1>1, <3>1
  <2> QED
    BY <1>1, <2>1 DEF SealsOf
<1> QED
  BY <1>6, <1>7, <1>8 DEF Log!Seal, LogOf, SealsOf

\* An audited deletion takes the logs of the sessions it deletes.
LEMMA DeletionPurges ==
    ASSUME HistoryInv, NEW p \in Projects, DeleteProject(p)
    PROVE  \E gone \in SUBSET Sessions : Log!Purge(gone)
<1>1. work = db /\ db \in Database /\ db' = Purged(db, p)
  BY DEF DeleteProject, Commit, HistoryInv, ChainInv, TypeOK
<1>2. PICK closed \in SUBSET Sessions : closed = ProjectSessions(db, p)
  BY DEF ProjectSessions
<1>3. /\ db'.chain = [s \in Scopes |-> IF s \in closed THEN <<>> ELSE db.chain[s]]
      /\ db'.roots = [s \in Scopes |-> IF s \in closed THEN NoRoot ELSE db.roots[s]]
  BY <1>1, <1>2 DEF Purged, Database
<1>4. LogOf(db)' = [s \in Scopes |-> IF s \in closed THEN <<>> ELSE LogOf(db)[s]]
  <2>1. ASSUME NEW s \in Scopes
        PROVE  [i \in DOMAIN db'.chain[s] |-> db'.chain[s][i].target]
                 = IF s \in closed THEN <<>> ELSE LogOf(db)[s]
    BY <1>3 DEF LogOf
  <2> QED
    BY <2>1 DEF LogOf
<1>5. SealsOf(db)' = [s \in Scopes |-> s \notin closed /\ SealsOf(db)[s]]
  <2>1. \A s \in Scopes :
           ChainRootExists(db', s) = (s \notin closed /\ ChainRootExists(db, s))
    BY <1>3 DEF ChainRootExists, NoRoot
  <2>2. SealsOf(db)' = [s \in Scopes |-> ChainRootExists(db', s)]
    BY DEF SealsOf, ChainRootExists
  <2>3. \A s \in Scopes : SealsOf(db)[s] = ChainRootExists(db, s)
    BY DEF SealsOf
  <2> QED
    BY <2>1, <2>2, <2>3, Zenon
<1>6. Log!Purge(closed)
  <2>1. Log!Scopes = Scopes
    BY DEF Log!Scopes, Scopes
  <2>2. /\ LogOf(db)' = [s \in Log!Scopes |-> IF s \in closed THEN <<>> ELSE LogOf(db)[s]]
        /\ SealsOf(db)' = [s \in Log!Scopes |-> s \notin closed /\ SealsOf(db)[s]]
    BY <1>4, <1>5, <2>1
  <2> QED
    BY <2>2 DEF Log!Purge, LogOf, SealsOf
<1> QED
  BY <1>6

\* Every step of the store is one of the log, or does not touch it.
LEMMA StepOfLog == HistoryInv /\ HistoryInv' /\ [Next]_vars => [Log!LogNext]_(Log!logVars)
<1> DEFINE Logged == Log!LogNext \/ UNCHANGED Log!logVars
<1> SUFFICES ASSUME HistoryInv, HistoryInv', [Next]_vars PROVE Logged
  OBVIOUS
<1>1. /\ work \in Database /\ db \in Database /\ db' \in Database /\ Grows(db, work)
      /\ ~inTxn => work = db
  BY DEF HistoryInv, ChainInv, TypeOK
<1>2. ASSUME NEW d, Commit(d), d.chain = work.chain, d.roots = work.roots PROVE Logged
  BY <1>1, <1>2, SameLog DEF Commit
<1>3. ASSUME NEW p \in Projects, UpsertProject(p) PROVE Logged
  <2>1. LET d == [work EXCEPT !.projects = @ \cup {p}]
        IN  d.chain = work.chain /\ d.roots = work.roots
    BY <1>1 DEF Database
  <2> QED
    BY <1>2, <1>3, <2>1 DEF UpsertProject
<1>4. ASSUME NEW p \in Projects, DeleteProject(p) PROVE Logged
  BY <1>4, DeletionPurges DEF Log!LogNext
<1>5. ASSUME NEW s \in Sessions, CompleteSession(s) PROVE Logged
  <2>1. LET d == [work EXCEPT !.sessions[s] = "complete"]
        IN  d.chain = work.chain /\ d.roots = work.roots
    BY <1>1 DEF Database
  <2> QED
    BY <1>2, <1>5, <2>1 DEF CompleteSession
<1>6. ASSUME NEW s \in Sessions, NEW p \in Projects \cup {None}, CreateSession(s, p)
      PROVE  Logged
  <2>1. LET d == [work EXCEPT !.sessions[s] = "active", !.owner[s] = p]
        IN  d.chain = work.chain /\ d.roots = work.roots
    BY <1>1 DEF Database
  <2> QED
    BY <1>2, <1>6, <2>1 DEF CreateSession
<1>7. ASSUME NEW s \in Sessions, NEW p \in Projects \cup {None}, UpsertSession(s, p)
      PROVE  Logged
  <2>1. LET d == [work EXCEPT !.sessions[s] = IF @ = "absent" THEN "imported" ELSE @,
                              !.owner[s] = IF p = None THEN @ ELSE p]
        IN  d.chain = work.chain /\ d.roots = work.roots
    BY <1>1 DEF Database
  <2> QED
    BY <1>2, <1>7, <2>1 DEF UpsertSession
<1>8. ASSUME NEW b \in Blobs, RecordBlob(b) PROVE Logged
  <2>1. LET d == [work EXCEPT !.recorded = @ \cup {b}]
        IN  d.chain = work.chain /\ d.roots = work.roots
    BY <1>1 DEF Database
  <2> QED
    BY <1>2, <1>8, <2>1 DEF RecordBlob
<1>9. ASSUME NEW e \in work.events, SaveRiskFinding(e) PROVE Logged
  <2>1. LET d == [work EXCEPT !.findings =
                    @ \cup {[event |-> e.id, session |-> e.session]}]
        IN  d.chain = work.chain /\ d.roots = work.roots
    BY <1>1 DEF Database
  <2> QED
    BY <1>2, <1>9, <2>1 DEF SaveRiskFinding
<1>10. ASSUME NEW s \in Scopes, FinalizeChain(s) PROVE Logged
  BY <1>10, FinalizeSeals DEF Log!LogNext, Log!Scopes, Scopes
<1>11. ASSUME NEW s \in Scopes, NEW kind \in {"correlation", "conflict"},
              NEW left \in work.events, NEW right \in work.events,
              SaveCorrelation(kind, s, left.id, right.id)
       PROVE  Logged
  <2> DEFINE entry == NextEntry(LastChainPosition(work.chain[s]), kind, nextId)
  <2>1. /\ work = db /\ ~ChainRootExists(db, s) /\ nextId \in Ids
        /\ db' = PersistPair(db, kind, s, left.id, right.id, nextId)
    BY <1>1, <1>11 DEF SaveCorrelation, Commit, HistoryInv, ChainInv, TypeOK
  <2>2. entry \in Entry /\ entry.target = nextId
    <3>1. work.chain[s] \in Seq(Entry)
      BY <1>1 DEF Database
    <3> QED
      BY <2>1, <3>1, LastChainPositionType, NextEntryType DEF NextEntry
  <2>3. /\ db'.roots = db.roots /\ db'.events = db.events
        /\ db'.chain = [db.chain EXCEPT ![s] = Append(db.chain[s], entry)]
    BY <1>1, <2>1 DEF PersistPair, Database
  <2> HIDE DEF entry
  <2>4. Unseen(db, entry.target)
    <3> SUFFICES ASSUME NEW t \in Scopes, NEW j \in DOMAIN db.chain[t]
                 PROVE  entry.target # db.chain[t][j].target
      BY DEF Unseen
    <3>1. db.chain[t][j].target < nextId
      BY DEF HistoryInv, Consistent, Issued
    <3> QED
      BY <2>1, <2>2, <3>1 DEF Ids
  <2>5. PICK w \in Database : w = db'
    BY <1>1
  <2>6. Grows(db, db)
    BY <1>1, GrowsSelf
  <2>7. /\ w.roots = db.roots /\ db.events \subseteq w.events
        /\ w.chain = [db.chain EXCEPT ![s] = Append(db.chain[s], entry)]
    BY <2>3, <2>5
  <2>8. Grows(db, w)
    BY <1>1, <2>1, <2>2, <2>4, <2>6, <2>7, AppendGrows
  <2> QED
    BY <1>1, <2>5, <2>8, GrowsExtends DEF Log!LogNext
<1>12. CASE AppendCommit
  BY <1>1, <1>12, GrowsExtends DEF AppendCommit, Log!LogNext
<1>13. CASE \/ \E p \in Projects : DeleteProjectRefused(p)
            \/ \E batch \in Batches : AppendBegin(batch)
            \/ AppendDuplicate \/ AppendNew \/ AppendRollback \/ UNCHANGED vars
  <2>1. db' = db
    BY <1>13 DEF DeleteProjectRefused, AppendBegin, AppendDuplicate, AppendNew,
       AppendRollback, vars
  <2> QED
    BY <2>1, SameLog
<1> QED
  BY <1>3, <1>4, <1>5, <1>6, <1>7, <1>8, <1>9, <1>10, <1>11, <1>12, <1>13 DEF Next

\* The store implements the evidence log, for every set of sessions, projects and
\* batches: each transaction extends open logs with new targets, publishes a seal, takes
\* the logs of deleted sessions, or leaves the log alone; what a batch does before it
\* commits, and what a rollback undoes, is invisible.
THEOREM StoreImplementsLog == Spec => ImplementsLog
<1>1. HistoryInv /\ HistoryInv' /\ [Next]_vars => [Log!LogNext]_(Log!logVars)
  BY StepOfLog
<1> QED
  BY <1>1, InitLog, History, PTL DEF Spec, ImplementsLog, Log!LogSpec
-----------------------------------------------------------------------------
(* Verification beside the writer *)

\* rows are the beginning of the chain, or the chain they were read from was deleted:
\* its successor begins with a target that was handed out later.
Begins(rows, chain) == Len(rows) <= Len(chain) /\ \A i \in DOMAIN rows : rows[i] = chain[i]
Parted(rows, chain) == rows # <<>> /\ (chain = <<>> \/ chain[1].target # rows[1].target)

\* The reader looks at a row.
Looking == reader.step \in {"marker", "payload"}

\* What the reader has is what it read, and it accuses nothing but a chain it has
\* parted from, as long as the contract is kept.
ReaderInv ==
    LET rows == reader.rows
        s == reader.scope
    IN /\ reader \in Reader
       /\ \A i \in DOMAIN rows : rows[i].target < nextId
       /\ Begins(rows, db.chain[s]) \/ Parted(rows, db.chain[s])
       /\ Begins(rows, work.chain[s]) \/ Parted(rows, work.chain[s])
       /\ Parted(rows, db.chain[s]) => Parted(rows, work.chain[s])
       /\ Looking => reader.next \in DOMAIN rows
       /\ agreed =>
            /\ reader.step = "marker" =>
                 Row.target \in db.deleted \/ Parted(rows, db.chain[s])
            /\ reader.step = "payload" => reader.blob \in db.recorded
            /\ reader.missing \cup reader.payloads # {} => Parted(rows, db.chain[s])

\* The payloads of events are recorded, as long as the contract is kept.
Recorded(d) == \A e \in d.events : e.blob # None => e.blob \in d.recorded

StoreInv ==
    /\ agreed => Recorded(db) /\ Recorded(work)
    /\ db.deleted \subseteq work.deleted /\ db.recorded \subseteq work.recorded

\* w goes on from d by at most one entry for each chain, or takes the chain away.
Follows(w, d) ==
    \A s \in Scopes :
        \/ w.chain[s] = d.chain[s]
        \/ w.chain[s] = <<>>
        \/ \E x \in Entry : x.target = nextId /\ w.chain[s] = Append(d.chain[s], x)

\* What a step of the writer does, as far as a reader can tell.
WriterStep ==
    /\ nextId <= nextId' /\ (agreed' => agreed)
    /\ db' = db \/ db' = work'
    /\ Follows(work', work) \/ work' = db
    /\ db.deleted \subseteq work'.deleted /\ db.recorded \subseteq work'.recorded
    /\ agreed' => Recorded(work')

\* What leaves the chains alone goes on from them.
LEMMA FollowsSame == ASSUME NEW w, NEW d, w.chain = d.chain PROVE Follows(w, d)
  BY DEF Follows

\* A command that commits what goes on from the chains and keeps markers and records.
LEMMA CommitSteps ==
    ASSUME HistoryInv, StoreInv, NEW d \in Database, Commit(d),
           nextId <= nextId', agreed' => agreed,
           Follows(d, work),
           work.deleted \subseteq d.deleted, work.recorded \subseteq d.recorded,
           d.events \subseteq work.events
    PROVE  WriterStep
<1>1. work' = d /\ db' = d /\ work = db
  BY DEF Commit, HistoryInv, ChainInv, TypeOK
<1>2. agreed' => Recorded(d)
  BY DEF StoreInv, Recorded
<1> QED
  BY <1>1, <1>2 DEF WriterStep, Follows

\* Each step of the writer is such a step: a command commits at once, an append stays
\* in the open batch, and a deletion keeps markers and records.
LEMMA StepOfWriter == HistoryInv /\ StoreInv /\ [Next]_vars => WriterStep
<1> SUFFICES ASSUME HistoryInv, StoreInv, [Next]_vars PROVE WriterStep
  OBVIOUS
<1>1. /\ work \in Database /\ db \in Database /\ nextId \in Nat /\ nextId \in Ids
      /\ (~inTxn => work = db) /\ agreed \in BOOLEAN
      /\ cursors \in [Scopes -> Cursor] /\ pending \in Seq(Envelope)
  BY DEF HistoryInv, ChainInv, TypeOK, Ids
<1>2. ASSUME NEW d \in Database, Commit(d), nextId' = nextId, agreed' => agreed,
             d.chain = work.chain, d.deleted = work.deleted,
             work.recorded \subseteq d.recorded, d.events = work.events
      PROVE  WriterStep
  <2>1. Follows(d, work)
    BY <1>2, FollowsSame
  <2> QED
    BY <1>1, <1>2, <2>1, CommitSteps
<1>3. ASSUME NEW p \in Projects, UpsertProject(p) PROVE WriterStep
  <2> DEFINE d == [work EXCEPT !.projects = @ \cup {p}]
  <2>1. d \in Database /\ Commit(d) /\ nextId' = nextId /\ agreed' = agreed
    BY <1>1, <1>3 DEF UpsertProject, Database
  <2>2. /\ d.chain = work.chain /\ d.deleted = work.deleted /\ d.events = work.events
        /\ d.recorded = work.recorded
    BY <1>1 DEF Database
  <2> HIDE DEF d
  <2> QED
    BY <1>2, <2>1, <2>2
<1>4. ASSUME NEW p \in Projects, DeleteProject(p) PROVE WriterStep
  <2>1. /\ Cleared(work, Purged(work, p), p) /\ Commit(Purged(work, p))
        /\ nextId' = nextId /\ agreed' = agreed
    BY <1>1, <1>4, PurgedFields DEF DeleteProject
  <2>2. PICK d : d = Purged(work, p)
    OBVIOUS
  <2>3. /\ d \in Database /\ Commit(d) /\ d.events \subseteq work.events
        /\ work.deleted \subseteq d.deleted /\ d.recorded = work.recorded
    BY <2>1, <2>2 DEF Cleared
  <2>4. Follows(d, work)
    BY <2>1, <2>2 DEF Cleared, Follows
  <2> QED
    BY <1>1, <2>1, <2>3, <2>4, CommitSteps
<1>5. ASSUME NEW s \in Sessions, CompleteSession(s) PROVE WriterStep
  <2> DEFINE d == [work EXCEPT !.sessions[s] = "complete"]
  <2>1. d \in Database /\ Commit(d) /\ nextId' = nextId /\ agreed' = agreed
    BY <1>1, <1>5 DEF CompleteSession, Database, SessionState
  <2>2. /\ d.chain = work.chain /\ d.deleted = work.deleted /\ d.events = work.events
        /\ d.recorded = work.recorded
    BY <1>1 DEF Database
  <2> HIDE DEF d
  <2> QED
    BY <1>2, <2>1, <2>2
<1>6. ASSUME NEW s \in Sessions, NEW p \in Projects \cup {None}, CreateSession(s, p)
      PROVE  WriterStep
  <2> DEFINE d == [work EXCEPT !.sessions[s] = "active", !.owner[s] = p]
  <2>1. d \in Database /\ Commit(d) /\ nextId' = nextId /\ agreed' = agreed
    BY <1>1, <1>6 DEF CreateSession, Database, SessionState
  <2>2. /\ d.chain = work.chain /\ d.deleted = work.deleted /\ d.events = work.events
        /\ d.recorded = work.recorded
    BY <1>1 DEF Database
  <2> HIDE DEF d
  <2> QED
    BY <1>2, <2>1, <2>2
<1>7. ASSUME NEW s \in Sessions, NEW p \in Projects \cup {None}, UpsertSession(s, p)
      PROVE  WriterStep
  <2> DEFINE d == [work EXCEPT !.sessions[s] = IF @ = "absent" THEN "imported" ELSE @,
                               !.owner[s] = IF p = None THEN @ ELSE p]
  <2>1. d \in Database /\ Commit(d) /\ nextId' = nextId /\ (agreed' => agreed)
    BY <1>1, <1>7 DEF UpsertSession, Database, SessionState
  <2>2. /\ d.chain = work.chain /\ d.deleted = work.deleted /\ d.events = work.events
        /\ d.recorded = work.recorded
    BY <1>1 DEF Database
  <2> HIDE DEF d
  <2> QED
    BY <1>2, <2>1, <2>2
<1>8. ASSUME NEW b \in Blobs, RecordBlob(b) PROVE WriterStep
  <2> DEFINE d == [work EXCEPT !.recorded = @ \cup {b}]
  <2>1. d \in Database /\ Commit(d) /\ nextId' = nextId /\ agreed' = agreed
    BY <1>1, <1>8 DEF RecordBlob, Database
  <2>2. /\ d.chain = work.chain /\ d.deleted = work.deleted /\ d.events = work.events
        /\ work.recorded \subseteq d.recorded
    BY <1>1 DEF Database
  <2> HIDE DEF d
  <2> QED
    BY <1>2, <2>1, <2>2
<1>9. ASSUME NEW e \in work.events, SaveRiskFinding(e) PROVE WriterStep
  <2> DEFINE d == [work EXCEPT !.findings = @ \cup {[event |-> e.id, session |-> e.session]}]
  <2>0. [event |-> e.id, session |-> e.session] \in FindingRow
    BY <1>1 DEF Database, FindingRow, EventRow
  <2>1. d \in Database /\ Commit(d) /\ nextId' = nextId /\ agreed' = agreed
    BY <1>1, <1>9, <2>0 DEF SaveRiskFinding, Database
  <2>2. /\ d.chain = work.chain /\ d.deleted = work.deleted /\ d.events = work.events
        /\ d.recorded = work.recorded
    BY <1>1 DEF Database
  <2> HIDE DEF d
  <2> QED
    BY <1>2, <2>1, <2>2
<1>10. ASSUME NEW s \in Scopes, FinalizeChain(s) PROVE WriterStep
  <2> DEFINE root == LET last == LastChainPosition(work.chain[s])
                     IN  [count |-> last.sequence, hash |-> last.hash]
             d == [work EXCEPT !.roots[s] = root]
  <2>1. root \in RootRow
    <3>1. work.chain[s] \in Seq(Entry)
      BY <1>1 DEF Database
    <3> QED
      BY <3>1, LastChainPositionType DEF RootRow, Cursor
  <2>2. Commit(d) /\ nextId' = nextId /\ agreed' = agreed
    BY <1>10 DEF FinalizeChain
  <2> HIDE DEF root
  <2>3. /\ d \in Database /\ d.chain = work.chain /\ d.deleted = work.deleted
        /\ d.events = work.events /\ d.recorded = work.recorded
    BY <1>1, <2>1 DEF Database
  <2> HIDE DEF d
  <2> QED
    BY <1>2, <2>2, <2>3
<1>11. ASSUME NEW s \in Scopes, NEW kind \in {"correlation", "conflict"},
              NEW left \in work.events, NEW right \in work.events,
              SaveCorrelation(kind, s, left.id, right.id)
       PROVE  WriterStep
  <2> DEFINE entry == NextEntry(LastChainPosition(work.chain[s]), kind, nextId)
             d == PersistPair(work, kind, s, left.id, right.id, nextId)
  <2>1. Commit(d) /\ agreed' = agreed /\ nextId' = nextId + 1
    BY <1>11 DEF SaveCorrelation, FreshId
  <2>2. entry \in Entry /\ entry.target = nextId
    <3>1. work.chain[s] \in Seq(Entry)
      BY <1>1 DEF Database
    <3> QED
      BY <1>1, <3>1, LastChainPositionType, NextEntryType DEF NextEntry
  <2>3. left.id \in Ids /\ right.id \in Ids
    BY <1>1 DEF Database, EventRow
  <2>4. d \in Database
    BY <1>1, <2>3, PersistPairType
  <2>5. /\ d.events = work.events /\ d.deleted = work.deleted /\ d.recorded = work.recorded
        /\ d.chain = [work.chain EXCEPT ![s] = Append(work.chain[s], entry)]
    BY <1>1 DEF PersistPair, Database
  <2> HIDE DEF entry, d
  <2>6. work.chain \in [Scopes -> Seq(Entry)]
    BY <1>1 DEF Database
  <2>7. Follows(d, work)
    BY <2>2, <2>5, <2>6 DEF Follows
  <2> QED
    BY <1>1, <2>1, <2>4, <2>5, <2>7, CommitSteps
<1>12. CASE AppendNew
  <2> DEFINE env == Head(pending)
  <2>1. PICK previous \in IF ExistingSource(work, env) = {} THEN {NoEvent}
                        ELSE {e.id : e \in ExistingSource(work, env)} :
           work' = PersistNewEvent(work, env, nextId, previous)
    BY <1>12 DEF AppendNew
  <2>2. /\ nextId' = nextId + 1 /\ db' = db /\ agreed' = agreed /\ pending # <<>>
    BY <1>12 DEF AppendNew, FreshId
  <2>3. env \in Envelope
    BY <1>1, <2>2
  <2>4. previous \in Nat
    BY <1>1, <2>1 DEF ExistingSource, NoEvent, Database, EventRow, Ids
  <2>5. agreed => Agrees(work, env)
    BY <1>1, <2>2 DEF HistoryInv, PendingAgrees
  <2> HIDE DEF env
  <2>6. Persisted(work, work', env, nextId, previous)
    BY <1>1, <2>1, <2>3, <2>4, PersistedFields
  <2>7. Follows(work', work)
    <3>1. work.chain \in [Scopes -> Seq(Entry)]
      BY <1>1 DEF Database
    <3> QED
      BY <2>6, <3>1 DEF Persisted, Follows
  <2>8. agreed' => Recorded(work')
    <3>1. /\ work'.events = work.events \cup {EventOf(env, nextId, previous)}
          /\ work'.recorded = work.recorded
      BY <2>6 DEF Persisted
    <3>2. EventOf(env, nextId, previous).blob = env.blob
      BY DEF EventOf
    <3> QED
      BY <2>2, <2>5, <3>1, <3>2 DEF StoreInv, Recorded, Agrees
  <2>9. work'.deleted = work.deleted /\ work'.recorded = work.recorded
    BY <2>6 DEF Persisted
  <2> QED
    BY <1>1, <2>2, <2>7, <2>8, <2>9 DEF WriterStep, StoreInv
<1>13. CASE \/ \E p \in Projects : DeleteProjectRefused(p)
            \/ \E batch \in Batches : AppendBegin(batch)
            \/ AppendDuplicate \/ AppendCommit \/ UNCHANGED vars
  <2>1. work' = work /\ nextId' = nextId /\ (agreed' => agreed) /\ (db' = db \/ db' = work')
    BY <1>1, <1>13 DEF DeleteProjectRefused, AppendBegin, AppendDuplicate, AppendCommit, vars
  <2>2. Follows(work', work)
    BY <2>1, FollowsSame
  <2> QED
    BY <1>1, <2>1, <2>2 DEF WriterStep, StoreInv
<1>14. CASE AppendRollback
  BY <1>1, <1>14 DEF AppendRollback, WriterStep, StoreInv
<1> QED
  BY <1>3, <1>4, <1>5, <1>6, <1>7, <1>8, <1>9, <1>10, <1>11, <1>12, <1>13, <1>14 DEF Next

\* Payloads stay recorded and markers stay.
LEMMA NextStoreInv == HistoryInv /\ StoreInv /\ [Next]_vars => StoreInv'
<1> SUFFICES ASSUME HistoryInv, StoreInv, WriterStep PROVE StoreInv'
  BY StepOfWriter
<1> QED
  BY DEF StoreInv, WriterStep

\* Rows whose targets were handed out before stay related to a chain that goes on.
\* Rows whose targets were handed out before the chain went on still begin it, or
\* have parted from it, and once parted they stay so.
LEMMA RowsKeepUp ==
    ASSUME NEW rows \in Seq(Entry), NEW chain \in Seq(Entry), NEW new \in Seq(Entry), NEW n \in Nat,
           \A i \in DOMAIN rows : rows[i].target < n,
           \/ new = chain
           \/ new = <<>>
           \/ \E x \in Entry : x.target = n /\ new = Append(chain, x)
    PROVE  /\ Begins(rows, chain) \/ Parted(rows, chain) => Begins(rows, new) \/ Parted(rows, new)
           /\ Parted(rows, chain) => Parted(rows, new)
<1>1. CASE new = <<>>
  BY <1>1 DEF Begins, Parted
<1>2. ASSUME NEW x \in Entry, x.target = n, new = Append(chain, x)
      PROVE  /\ Begins(rows, chain) => Begins(rows, new)
             /\ Parted(rows, chain) => Parted(rows, new)
  <2>1. /\ Len(new) = Len(chain) + 1 /\ Len(chain) \in Nat /\ Len(rows) \in Nat
        /\ \A i \in 1..Len(chain) : new[i] = chain[i]
        /\ new[Len(chain) + 1] = x /\ DOMAIN rows = 1..Len(rows)
    BY <1>2
  <2>2. Begins(rows, chain) => Begins(rows, new)
    BY <2>1 DEF Begins
  <2>3. ASSUME Parted(rows, chain) PROVE Parted(rows, new)
    <3>0. rows # <<>> /\ 1 \in DOMAIN rows /\ rows[1] \in Entry
      BY <2>1, <2>3 DEF Parted
    <3>1. rows[1].target < n /\ rows[1].target \in Nat
      BY <3>0 DEF Entry, Ids
    <3>2. CASE chain = <<>>
      <4>1. new[1] = x
        BY <2>1, <3>2
      <4> QED
        BY <1>2, <3>0, <3>1, <4>1 DEF Parted
    <3>3. CASE chain # <<>>
      <4>1. new[1] = chain[1]
        BY <2>1, <3>3
      <4> QED
        BY <2>3, <3>3, <4>1 DEF Parted
    <3> QED
      BY <3>2, <3>3
  <2> QED
    BY <2>2, <2>3
<1> QED
  BY <1>1, <1>2

\* A step of the writer keeps the invariant of a reader that waits.
LEMMA WriterKeepsReader ==
    ASSUME HistoryInv, HistoryInv', StoreInv, ReaderInv, [Next]_vars, reader' = reader
    PROVE  ReaderInv'
<1> DEFINE rows == reader.rows
           s == reader.scope
<1>1. /\ reader \in Reader /\ rows \in Seq(Entry) /\ s \in Scopes /\ nextId \in Nat /\ nextId' \in Nat
      /\ db \in Database /\ work \in Database /\ db' \in Database /\ work' \in Database
  BY DEF ReaderInv, Reader, HistoryInv, ChainInv, TypeOK, Ids
<1>2. /\ db.chain[s] \in Seq(Entry) /\ work.chain[s] \in Seq(Entry)
      /\ db'.chain[s] \in Seq(Entry) /\ work'.chain[s] \in Seq(Entry)
  BY <1>1 DEF Database
<1>3. WriterStep
  BY StepOfWriter
<1>4. \A i \in DOMAIN rows : rows[i].target < nextId /\ rows[i].target < nextId'
  <2>1. \A i \in DOMAIN rows : rows[i] \in Entry
    BY <1>1
  <2>2. \A i \in DOMAIN rows : rows[i].target \in Nat /\ rows[i].target < nextId
    BY <2>1 DEF ReaderInv, Entry, Ids
  <2> QED
    BY <1>1, <1>3, <2>2 DEF WriterStep
<1>5. /\ Begins(rows, db.chain[s]) \/ Parted(rows, db.chain[s])
      /\ Begins(rows, work.chain[s]) \/ Parted(rows, work.chain[s])
      /\ Parted(rows, db.chain[s]) => Parted(rows, work.chain[s])
  BY DEF ReaderInv
<1> HIDE DEF rows, s
<1>6. /\ Begins(rows, work'.chain[s]) \/ Parted(rows, work'.chain[s])
      /\ Parted(rows, db.chain[s]) => Parted(rows, work'.chain[s])
  <2>1. CASE work' = db
    BY <1>5, <2>1
  <2>2. CASE Follows(work', work)
    <3>1. \/ work'.chain[s] = work.chain[s]
          \/ work'.chain[s] = <<>>
          \/ \E x \in Entry : x.target = nextId /\ work'.chain[s] = Append(work.chain[s], x)
      BY <1>1, <2>2 DEF Follows
    <3> QED
      BY <1>1, <1>2, <1>4, <1>5, <3>1, RowsKeepUp
  <2> QED
    BY <1>3, <2>1, <2>2 DEF WriterStep
<1>7. /\ Begins(rows, db'.chain[s]) \/ Parted(rows, db'.chain[s])
      /\ Parted(rows, db.chain[s]) => Parted(rows, db'.chain[s])
      /\ Parted(rows, db'.chain[s]) => Parted(rows, work'.chain[s])
  BY <1>3, <1>5, <1>6 DEF WriterStep
<1>8. db.deleted \subseteq db'.deleted /\ db.recorded \subseteq db'.recorded
  BY <1>3 DEF WriterStep
<1> QED
  BY <1>1, <1>3, <1>4, <1>6, <1>7, <1>8 DEF ReaderInv, WriterStep, rows, s, Looking, Row

\* So does a step of the reader, and its verdict on the root is about the rows it read.
LEMMA VerifyKeepsReader ==
    ASSUME HistoryInv, StoreInv, ReaderInv, Verify, UNCHANGED vars
    PROVE  ReaderInv' /\ MismatchOnlyIfMoved
<1>1. /\ reader \in Reader /\ reader.rows \in Seq(Entry) /\ reader.scope \in Scopes
      /\ db \in Database /\ work \in Database /\ nextId \in Nat
      /\ reader.next \in Nat \ {0} /\ reader.missing \subseteq Nat /\ reader.payloads \subseteq Nat
  BY DEF ReaderInv, Reader, HistoryInv, ChainInv, TypeOK, Ids
<1>2. db' = db /\ work' = work /\ nextId' = nextId /\ agreed' = agreed
  BY DEF vars
<1>3. Len(reader.rows) \in Nat /\ DOMAIN reader.rows = 1..Len(reader.rows)
  BY <1>1
<1>4. ASSUME NEW s \in Scopes, ReadEntries(s) PROVE ReaderInv' /\ MismatchOnlyIfMoved
  <2>1. /\ reader' \in Reader /\ reader'.rows = db.chain[s] /\ reader'.scope = s
        /\ reader'.step = "target" /\ reader'.missing = {} /\ reader'.payloads = {}
        /\ reader'.mismatch = FALSE
    BY <1>1, <1>4 DEF ReadEntries, Reader, Database
  <2>2. /\ db.chain[s] \in Seq(Entry) /\ work.chain[s] \in Seq(Entry)
    BY <1>1 DEF Database
  <2>3. \A i \in DOMAIN db.chain[s] : db.chain[s][i].target < nextId
    BY DEF HistoryInv, Consistent, Issued
  <2>4. Begins(db.chain[s], db.chain[s])
    BY <2>2 DEF Begins
  <2>5. Begins(db.chain[s], work.chain[s])
    BY <2>2 DEF HistoryInv, Grows, ChainGrows, Begins
  <2>6. ~Parted(db.chain[s], db.chain[s])
    BY DEF Parted
  <2> QED
    BY <1>2, <2>1, <2>3, <2>4, <2>5, <2>6 DEF ReaderInv, Looking, MismatchOnlyIfMoved
<1>5. ASSUME reader' \in Reader, reader'.rows = reader.rows, reader'.scope = reader.scope,
             reader'.mismatch = reader.mismatch,
             reader'.step \in {"marker", "payload"} => reader'.next \in DOMAIN reader.rows,
             agreed /\ reader'.step = "marker" =>
               reader.rows[reader'.next].target \in db.deleted
                 \/ Parted(reader.rows, db.chain[reader.scope]),
             agreed /\ reader'.step = "payload" => reader'.blob \in db.recorded,
             agreed /\ reader'.missing \cup reader'.payloads # {} =>
                 \/ reader.missing \cup reader.payloads # {}
                 \/ Parted(reader.rows, db.chain[reader.scope])
      PROVE  ReaderInv' /\ MismatchOnlyIfMoved
  <2>1. MismatchOnlyIfMoved
    BY <1>5 DEF MismatchOnlyIfMoved
  <2> QED
    BY <1>2, <1>5, <2>1 DEF ReaderInv, Looking, Row
<1>6. ASSUME reader.next \in DOMAIN reader.rows PROVE Row.sequence \in Nat
  <2>1. Row \in Entry
    BY <1>1, <1>6 DEF Row
  <2> QED
    BY <2>1 DEF Entry
<1>7. /\ NextRow \in Reader /\ NextRow.rows = reader.rows /\ NextRow.scope = reader.scope
      /\ NextRow.mismatch = reader.mismatch /\ NextRow.step = "target"
      /\ NextRow.missing = reader.missing /\ NextRow.payloads = reader.payloads
  <2>1. reader.next + 1 \in Nat \ {0}
    BY <1>1
  <2> QED
    BY <1>1, <2>1 DEF NextRow, Reader
<1>8. CASE SkipTarget
  <2>1. reader' = NextRow
    BY <1>8 DEF SkipTarget
  <2> QED
    BY <1>5, <1>7, <2>1
<1>9. CASE ReadTarget
  <2>1. reader.next \in DOMAIN reader.rows
    <3>1. reader.next <= Len(reader.rows)
      BY <1>9 DEF ReadTarget
    <3> QED
      BY <1>1, <1>3, <3>1
  <2>2. CASE ~HasEvent(db, Row.target) /\ reader' = [reader EXCEPT !.step = "marker"]
    <3>1. /\ reader' \in Reader /\ reader'.rows = reader.rows /\ reader'.scope = reader.scope
          /\ reader'.mismatch = reader.mismatch /\ reader'.step = "marker"
          /\ reader'.next = reader.next
          /\ reader'.missing = reader.missing /\ reader'.payloads = reader.payloads
      BY <1>1, <2>2 DEF Reader
    <3>2. ASSUME agreed, Begins(reader.rows, db.chain[reader.scope])
          PROVE  Row.target \in db.deleted
      <4>1. db.chain[reader.scope] \in Seq(Entry)
        BY <1>1 DEF Database
      <4>2. /\ reader.next \in DOMAIN db.chain[reader.scope]
            /\ db.chain[reader.scope][reader.next] = Row
        BY <1>1, <1>3, <2>1, <3>2, <4>1 DEF Begins, Row
      <4>3. Row.target \in SourceEventTargets(db.chain[reader.scope])
        BY <1>9, <4>2 DEF SourceEventTargets, ReadTarget
      <4> QED
        BY <1>1, <2>2, <3>2, <4>3 DEF HistoryInv, Accounted, Named, HasEvent
    <3>3. agreed => Row.target \in db.deleted \/ Parted(reader.rows, db.chain[reader.scope])
      BY <3>2 DEF ReaderInv
    <3> QED
      BY <1>5, <2>1, <3>1, <3>3 DEF Row
  <2>3. ASSUME NEW e \in db.events,
               reader' = IF e.blob = None THEN NextRow
                         ELSE [reader EXCEPT !.step = "payload", !.blob = e.blob]
        PROVE  ReaderInv' /\ MismatchOnlyIfMoved
    <3>1. CASE e.blob = None
      BY <1>5, <1>7, <2>3, <3>1
    <3>2. CASE e.blob # None
      <4>1. e.blob \in Blobs \cup {None}
        BY <1>1 DEF Database, EventRow
      <4>2. /\ reader' \in Reader /\ reader'.rows = reader.rows /\ reader'.scope = reader.scope
            /\ reader'.mismatch = reader.mismatch /\ reader'.step = "payload"
            /\ reader'.next = reader.next /\ reader'.blob = e.blob
            /\ reader'.missing = reader.missing /\ reader'.payloads = reader.payloads
        BY <1>1, <2>3, <3>2, <4>1 DEF Reader
      <4>3. agreed => e.blob \in db.recorded
        BY <3>2 DEF StoreInv, Recorded
      <4> QED
        BY <1>5, <2>1, <4>2, <4>3
    <3> QED
      BY <3>1, <3>2
  <2> QED
    BY <1>9, <2>2, <2>3 DEF ReadTarget
<1>10. CASE ReadMarker
  <2>1. reader.step = "marker" /\ reader.next \in DOMAIN reader.rows
    BY <1>10 DEF ReadMarker, ReaderInv, Looking
  <2>2. /\ reader' \in Reader /\ reader'.rows = reader.rows /\ reader'.scope = reader.scope
        /\ reader'.mismatch = reader.mismatch /\ reader'.step = "target"
        /\ reader'.payloads = reader.payloads
        /\ Row.target \in db.deleted => reader'.missing = reader.missing
    BY <1>1, <1>6, <1>7, <1>10, <2>1 DEF ReadMarker, Reader
  <2>3. agreed => Row.target \in db.deleted \/ Parted(reader.rows, db.chain[reader.scope])
    BY <2>1 DEF ReaderInv
  <2> QED
    BY <1>5, <2>2, <2>3
<1>11. CASE ReadPayload
  <2>1. reader.step = "payload" /\ reader.next \in DOMAIN reader.rows
    BY <1>11 DEF ReadPayload, ReaderInv, Looking
  <2>2. /\ reader' \in Reader /\ reader'.rows = reader.rows /\ reader'.scope = reader.scope
        /\ reader'.mismatch = reader.mismatch /\ reader'.step = "target"
        /\ reader'.missing = reader.missing
        /\ reader.blob \in db.recorded => reader'.payloads = reader.payloads
    BY <1>1, <1>6, <1>7, <1>11, <2>1 DEF ReadPayload, Reader
  <2>3. agreed => reader.blob \in db.recorded
    BY <2>1 DEF ReaderInv
  <2> QED
    BY <1>5, <2>2, <2>3
<1>12. CASE ReadRoot
  <2> DEFINE s == reader.scope
             root == db.roots[s]
             tail == LastChainPosition(reader.rows)
             wrong == /\ ChainRootExists(db, s)
                      /\ root.count # tail.sequence \/ root.hash # tail.hash
  <2>1. reader' = [reader EXCEPT !.step = "done", !.mismatch = wrong]
    BY <1>12 DEF ReadRoot
  <2>2. wrong \in BOOLEAN
    OBVIOUS
  <2>3. wrong => reader.rows # db.chain[s]
    <3> SUFFICES ASSUME reader.rows = db.chain[s], ChainRootExists(db, s)
                 PROVE  root.count = tail.sequence /\ root.hash = tail.hash
      OBVIOUS
    <3>1. SoundChains(db)
      BY DEF HistoryInv, ChainInv
    <3>2. /\ root.count = Len(db.chain[s]) /\ db.chain[s] # <<>>
          /\ root.hash = db.chain[s][Len(db.chain[s])].target
          /\ WellFormed(db.chain[s])
      BY <1>1, <3>1 DEF SoundChains, RootMatchesTail
    <3>3. Len(db.chain[s]) \in DOMAIN db.chain[s]
      BY <1>1, <1>3, <3>2
    <3>4. db.chain[s][Len(db.chain[s])].sequence = Len(db.chain[s])
      BY <3>2, <3>3 DEF WellFormed
    <3> QED
      BY <3>2, <3>4 DEF LastChainPosition
  <2> HIDE DEF wrong
  <2>4. /\ reader' \in Reader /\ reader'.rows = reader.rows /\ reader'.scope = reader.scope
        /\ reader'.mismatch = wrong /\ reader'.step = "done"
        /\ reader'.missing = reader.missing /\ reader'.payloads = reader.payloads
    BY <1>1, <2>1, <2>2 DEF Reader
  <2>5. MismatchOnlyIfMoved
    BY <2>3, <2>4 DEF MismatchOnlyIfMoved
  <2>6. ReaderInv'
    BY <1>2, <2>4 DEF ReaderInv, Looking
  <2> QED
    BY <2>5, <2>6
<1> QED
  BY <1>4, <1>8, <1>9, <1>10, <1>11, <1>12 DEF Verify

\* The invariant of reader and writer.
VerifyInv == HistoryInv /\ StoreInv /\ ReaderInv

\* Initially nothing is stored and nothing was read.
LEMMA InitVerifyInv == VerifyInit => VerifyInv
<1> SUFFICES ASSUME VerifyInit PROVE VerifyInv
  OBVIOUS
<1>1. HistoryInv
  BY InitHistory DEF VerifyInit
<1>2. db = EmptyDatabase /\ work = EmptyDatabase /\ EmptyDatabase.events = {}
  BY DEF VerifyInit, Init, EmptyDatabase
<1>3. StoreInv
  BY <1>2 DEF StoreInv, Recorded
<1>4. /\ reader \in Reader /\ reader.rows = <<>> /\ reader.step = "idle"
      /\ reader.missing = {} /\ reader.payloads = {} /\ reader.scope \in Scopes
  BY DEF VerifyInit, Reader, Scopes
<1>5. \A c \in Seq(Entry) : Begins(<<>>, c) /\ ~Parted(<<>>, c)
  BY DEF Begins, Parted
<1>6. db.chain[reader.scope] \in Seq(Entry) /\ work.chain[reader.scope] \in Seq(Entry)
  BY <1>1, <1>4 DEF HistoryInv, ChainInv, TypeOK, Database
<1>7. ReaderInv
  BY <1>4, <1>5, <1>6 DEF ReaderInv, Looking
<1> QED
  BY <1>1, <1>3, <1>7 DEF VerifyInv

\* Rows that have parted from a chain do not begin it.
LEMMA PartedIsNoPrefix ==
    ASSUME NEW rows \in Seq(Entry), NEW chain \in Seq(Entry), Parted(rows, chain)
    PROVE  ~IsPrefix(rows, chain)
<1> SUFFICES ASSUME IsPrefix(rows, chain) PROVE FALSE
  OBVIOUS
<1>1. /\ Len(rows) \in Nat /\ Len(chain) \in Nat /\ Len(rows) > 0
      /\ Len(rows) <= Len(chain)
      /\ SubSeq(rows, 1, Len(rows)) = SubSeq(chain, 1, Len(rows))
  BY DEF IsPrefix, Parted
<1>2. /\ SubSeq(rows, 1, Len(rows))[1] = rows[1]
      /\ SubSeq(chain, 1, Len(rows))[1] = chain[1]
  BY <1>1
<1> QED
  BY <1>1, <1>2 DEF Parted

\* Reader and writer take turns in any order.
LEMMA NextVerifyInv ==
    VerifyInv /\ [VerifyNext]_allVars => VerifyInv' /\ MismatchOnlyIfMoved
<1> SUFFICES ASSUME VerifyInv, [VerifyNext]_allVars PROVE VerifyInv' /\ MismatchOnlyIfMoved
  OBVIOUS
<1>1. ASSUME [Next]_vars, reader' = reader PROVE VerifyInv' /\ MismatchOnlyIfMoved
  <2>1. HistoryInv' /\ StoreInv'
    BY <1>1, NextHistory, NextStoreInv DEF VerifyInv
  <2>2. ReaderInv'
    BY <1>1, <2>1, WriterKeepsReader DEF VerifyInv
  <2>3. MismatchOnlyIfMoved
    BY <1>1 DEF MismatchOnlyIfMoved
  <2> QED
    BY <2>1, <2>2, <2>3 DEF VerifyInv
<1>2. ASSUME Verify, UNCHANGED vars PROVE VerifyInv' /\ MismatchOnlyIfMoved
  <2>1. HistoryInv' /\ StoreInv'
    BY <1>2, NextHistory, NextStoreInv DEF VerifyInv
  <2> QED
    BY <1>2, <2>1, VerifyKeepsReader DEF VerifyInv
<1> QED
  BY <1>1, <1>2 DEF VerifyNext, allVars

\* What the reader has accused has parted from its chain.
LEMMA ReaderAccuses == VerifyInv => MissingOnlyIfDeleted
<1> SUFFICES ASSUME VerifyInv, agreed, reader.missing \cup reader.payloads # {}
             PROVE  ~IsPrefix(reader.rows, db.chain[reader.scope])
  BY DEF MissingOnlyIfDeleted
<1>1. Parted(reader.rows, db.chain[reader.scope])
  BY DEF VerifyInv, ReaderInv
<1>2. reader.rows \in Seq(Entry) /\ db.chain[reader.scope] \in Seq(Entry)
  BY DEF VerifyInv, ReaderInv, Reader, HistoryInv, ChainInv, TypeOK, Database
<1> QED
  BY <1>1, <1>2, PartedIsNoPrefix

\* A verification that runs beside the writer, whatever is appended, corrected, rolled
\* back or deleted between its queries, accuses no row, payload or root of a chain that
\* is still the one it read (verify_chain_sync).
THEOREM VerificationIsFair == VerifySpec => AccusesOnlyMoved
<1>1. VerifyInv /\ [VerifyNext]_allVars => VerifyInv'
  BY NextVerifyInv
<1>2. VerifyInv /\ [VerifyNext]_allVars => [MismatchOnlyIfMoved]_allVars
  BY NextVerifyInv
<1>3. VerifyInv => MissingOnlyIfDeleted
  BY ReaderAccuses
<1> QED
  BY <1>1, <1>2, <1>3, InitVerifyInv, PTL DEF VerifySpec, AccusesOnlyMoved
=============================================================================
