-------------------------- MODULE NativeImportProofs --------------------------
(* What the import of databases and whole-file logs has passed is stored, and   *)
(* sessions stay matched, for every set of agents, sessions and wrappers and    *)
(* every size of batch.                                                         *)
EXTENDS NativeImport, FiniteSetTheorems, NaturalsInduction, TLAPS

(* Types *)

MessageOf(a) == [key : 1..MaxKey, session : SessionsOf[a], rev : Nat, parts : 0..MaxParts]
PartOf(a) == [key : 1..MaxKey, part : 0..MaxParts, session : SessionsOf[a], rev : Nat]
EventOf(a) == [key : 1..MaxKey, part : 0..MaxParts, session : SessionsOf[a], rev : Nat,
               row : SessionIds]
Part == [key : 1..MaxKey, part : 0..MaxParts, session : Native, rev : Nat]
Event == [key : 1..MaxKey, part : 0..MaxParts, session : Native, rev : Nat, row : SessionIds]
Cursor == [native : Nat \cup {None}, stamp : Nat \cup {None}]
Ensured == [SessionIds -> Native \cup {None}]
By == {"user", "history"}
TargetOf(a) == [native : SessionsOf[a], session : SessionIds, project : {Project, None}]

LoadingRun == [phase : {"load"}, by : By, adapter : Adapters, cursor : Cursor, ensured : Ensured]
ReadingRun == [phase : {"bytes"}, by : By, adapter : Adapters, cursor : Cursor,
               ensured : Ensured, stamp : Nat]
BatchOf(a) == [phase : {"parts", "emit", "upsert"}, by : By, adapter : {a}, cursor : Cursor,
               ensured : Ensured, items : SUBSET PartOf(a), todo : SUBSET (1..MaxKey),
               target : {None} \cup TargetOf(a), outcome : Cursor, cut : BOOLEAN]
RunTyped == \/ run = NoRun
            \/ run \in LoadingRun
            \/ run \in ReadingRun
            \/ \E a \in Adapters : run \in BatchOf(a)

HistoryType ==
    [status : {"idle", "running", "completed", "completed_with_errors"},
     agents : [Adapters -> {"absent", "queued", "running", "completed", "failed"}],
     worker : {"none", "views", "next", "gate", "import"}]

AgentsTyped ==
    /\ installed \in SUBSET Adapters
    /\ log \in [Adapters -> SUBSET Message]
    /\ \A a \in Adapters : log[a] \subseteq MessageOf(a)
    /\ stamp \in [Adapters -> Nat]
    /\ home \in [Native -> {Project, None}]
    /\ asked \in [Adapters -> SUBSET Part]
    /\ \A a \in Adapters : asked[a] \subseteq PartOf(a)

StoreTyped ==
    /\ sessions \in [SessionIds -> Row \cup {None}]
    /\ events \in [Adapters -> SUBSET Event]
    /\ \A a \in Adapters : events[a] \subseteq EventOf(a)
    /\ cursor \in [Adapters -> Cursor]

TypeInv == AgentsTyped /\ StoreTyped /\ RunTyped /\ history \in HistoryType

Running == run.phase # "idle"
Batching == run.phase \in {"parts", "emit", "upsert"}
IsFile(a) == Format[a] = "gemini"

(* Cursors are of what their adapter's source was at some time. *)
CursorInv ==
    /\ \A a \in Adapters :
         /\ IsFile(a) => cursor[a].stamp = None \/ cursor[a].stamp <= stamp[a]
         /\ ~IsFile(a) => a \notin cut
    /\ Running => run.cursor = cursor[run.adapter]
    /\ run.phase = "bytes" => IsFile(run.adapter) /\ run.stamp <= stamp[run.adapter]
    /\ Batching =>
         /\ IsFile(run.adapter) => run.outcome.stamp = None \/ run.outcome.stamp <= stamp[run.adapter]
         /\ run.cut => IsFile(run.adapter)
         /\ run.phase = "parts" => Format[run.adapter] = "opencode"
         /\ run.phase # "parts" => run.todo = {}

(* A source has one message of a key; a later revision supersedes an earlier one. *)
RevOK(a, rev) == IF IsFile(a) THEN rev < stamp[a] ELSE rev = 0

LogInv ==
    \A a \in Adapters :
        /\ \A l, m \in log[a] : l.key = m.key => l = m
        /\ \A m \in log[a] : RevOK(a, m.rev)
        /\ \A p \in asked[a] : RevOK(a, p.rev)
        /\ \A p \in asked[a] : p \in Parts(a)
             \/ (IsFile(a) /\ \A m \in log[a] : m.key = p.key => m.rev # p.rev)

EventInv ==
    \A a \in Adapters : \A e \in events[a] :
        /\ RevOK(a, e.rev)
        /\ \A m \in log[a] : e.key = m.key => e.rev <= m.rev

ItemInv ==
    Batching => \A p \in run.items :
        /\ RevOK(run.adapter, p.rev)
        /\ \A m \in log[run.adapter] : p.key = m.key => p.rev <= m.rev
        /\ \A e \in events[run.adapter] : SameSource(e, p) => e.rev <= p.rev
        /\ \A q \in run.items : p.key = q.key => p.rev = q.rev

Accounted(a, p) == Stored(a, p) \/ <<a, p>> \in late

SavedInv ==
    \A a \in Adapters : \A p \in Parts(a) : Behind(a, p) => Accounted(a, p)

RunInv ==
    Batching =>
        LET a == run.adapter
        IN \A p \in Parts(a) :
             /\ PassedByRun(a, log[a], p.key) => Accounted(a, p) \/ p \in run.items
             /\ IsFile(a) /\ run.outcome.stamp = stamp[a] /\ ~run.cut => Accounted(a, p) \/ p \in run.items

HistoryInv ==
    /\ \A a \in Adapters : asked[a] # {} => a \in installed
    /\ history.worker = "import" <=> Running /\ run.by = "history"
    /\ history.worker = "import" => history.agents[run.adapter] = "running"
    /\ history.worker = "next" => \A a \in Adapters : history.agents[a] # "running"
    /\ history.worker \in {"gate", "import"} =>
         \A a, b \in Adapters : history.agents[a] = "running" /\ history.agents[b] = "running" => a = b
    /\ history.worker \in {"next", "gate", "import"} =>
         \A a \in installed : history.agents[a] # "absent"
    /\ history.status = "running" <=> history.worker # "none"
    /\ history.status = "completed" => \A a \in installed : history.agents[a] = "completed"

ReportInv ==
    \A a \in Adapters : \A p \in asked[a] \cap Parts(a) :
        /\ history.agents[a] = "completed" => Accounted(a, p) \/ a \in cut
        /\ /\ InBatch(a) /\ ~run.cut
           /\ history.agents[a] = "completed" \/ (run.by = "history" /\ ~More)
           => (Accounted(a, p) \/ PassedBy(a, Position(run.outcome), log[a], p.key))

(* Sessions *)
Joined(s, n) == sessions[s] # None /\ sessions[s].native = n

RowInv ==
    /\ \A n \in Native : sessions[n] # None => sessions[n].native = n
    /\ \A s \in SessionIds, a \in Adapters :
         sessions[s] # None /\ sessions[s].native \in SessionsOf[a] => sessions[s].agent = a
    /\ \A n \in Native \ moved :
         /\ home[n] = Project
         /\ \A s \in SessionIds : Joined(s, n) => sessions[s].project = Project
         /\ \A s, t \in SessionIds : Joined(s, n) /\ Joined(t, n) => s = t
    /\ Running => \A s \in SessionIds, n \in Native : run.ensured[s] = n => Joined(s, n)
    /\ \A a \in Adapters : \A e \in events[a] : Joined(e.row, e.session)

TargetInv ==
    run.phase = "upsert" =>
        LET n == run.target.native
            s == run.target.session
        IN /\ run.target \in TargetOf(run.adapter)
           /\ s = n \/ sessions[s] # None
           /\ sessions[s] # None => sessions[s].native \in {None, n} /\ sessions[s].agent = run.adapter
           /\ n \notin moved =>
                /\ run.target.project = Project
                /\ \A t \in SessionIds : Joined(t, n) => t = s
-----------------------------------------------------------------------------
(* Batches *)

\* A set of numbers has a least element, a bounded one a greatest.
LEMMA Least ==
    ASSUME NEW S, S \subseteq Nat, S # {}
    PROVE  \E m \in S : \A x \in S : m <= x
<1> DEFINE R == OpToRel(<, Nat)
<1>1. IsWellFoundedOn(R, Nat)
    BY NatLessThanWellFounded
<1>2. \A x, y \in Nat : <<y, x>> \in R <=> y < x
    BY DEF OpToRel
<1> HIDE DEF R
<1>3. PICK m \in S : \A y \in S : <<y, m>> \notin R
    BY <1>1, WFMin
<1>4. \A y \in S : ~(y < m) /\ y \in Nat /\ m \in Nat
    BY <1>2, <1>3
<1> QED BY <1>4

\* and a bounded one has a greatest.
LEMMA Greatest ==
    ASSUME NEW n \in Nat, NEW S, S \subseteq 0..n, S # {}
    PROVE  \E m \in S : \A x \in S : x <= m
<1> DEFINE T == {n - x : x \in S}
<1>1. \A x \in S : x \in 0..n /\ n - x \in Nat
    OBVIOUS
<1>2. T \subseteq Nat /\ T # {}
    BY <1>1
<1>3. PICK t \in T : \A y \in T : t <= y
    <2> HIDE DEF T
    <2> QED BY <1>2, Least
<1>4. PICK m \in S : t = n - m
    OBVIOUS
<1>5. \A x \in S : n - m <= n - x
    BY <1>3, <1>4
<1> QED BY <1>1, <1>5

KeyedMessages(messages) == \A m \in messages : m.key \in 1..MaxKey

\* Keys of messages are in range, and there are some if there are messages.
LEMMA KeysFacts ==
    ASSUME NEW messages, KeyedMessages(messages)
    PROVE  /\ Keys(messages) \subseteq 1..MaxKey
           /\ Keys(messages) # {} <=> messages # {}
           /\ \A m \in messages : m.key \in Keys(messages)
BY DEF Keys, KeyedMessages

\* LastKey is the greatest key, or the position if there is none.
LEMMA LastKeyFacts ==
    ASSUME NEW messages, KeyedMessages(messages), NEW position \in Nat
    PROVE  /\ LastKey(messages, position) \in Nat
           /\ messages = {} => LastKey(messages, position) = position
           /\ messages # {} => \E m \in messages : m.key = LastKey(messages, position)
           /\ \A m \in messages : m.key <= LastKey(messages, position)
<1>1. CASE messages = {}
    BY <1>1 DEF LastKey
<1>2. CASE messages # {}
    <2> DEFINE S == Keys(messages)
    <2>1. S \subseteq 0..MaxKey /\ S # {} /\ MaxKey \in Nat
        BY <1>2, KeysFacts, NativeAssumption
    <2>2. \E m \in S : \A x \in S : x <= m
        <3> HIDE DEF S
        <3> QED BY <2>1, Greatest
    <2>3. LastKey(messages, position) \in S /\ \A x \in S : x <= LastKey(messages, position)
        BY <1>2, <2>2 DEF LastKey
    <2>4. \E m \in messages : m.key = LastKey(messages, position)
        BY <2>3 DEF Keys
    <2> QED BY <1>2, <2>1, <2>3, <2>4, KeysFacts
<1> QED BY <1>1, <1>2

\* There are finitely many keys below another.
LEMMA SmallerKeys ==
    ASSUME NEW messages, KeyedMessages(messages), NEW k \in 1..MaxKey
    PROVE  LET below == {l \in Keys(messages) : l < k}
           IN IsFiniteSet(below) /\ Cardinality(below) \in Nat
<1> DEFINE below == {l \in Keys(messages) : l < k}
<1>1. IsFiniteSet(1..MaxKey)
    BY FS_Interval, NativeAssumption
<1>2. below \subseteq 1..MaxKey
    BY KeysFacts
<1> QED BY <1>1, <1>2, FS_Subset, FS_CardinalityType

\* LIMIT takes a beginning of what there is, and something if there is something.
LEMMA BatchFacts ==
    ASSUME NEW messages, KeyedMessages(messages)
    PROVE  /\ FirstOf(messages) \subseteq messages
           /\ KeyedMessages(FirstOf(messages))
           /\ \A m \in messages, l \in FirstOf(messages) : m.key <= l.key => m \in FirstOf(messages)
           /\ messages # {} => FirstOf(messages) # {}
<1>1. FirstOf(messages) \subseteq messages
    BY DEF FirstOf
<1>2. ASSUME NEW m \in messages, NEW l \in FirstOf(messages), m.key <= l.key
      PROVE  m \in FirstOf(messages)
    <2> DEFINE M == {k \in Keys(messages) : k < m.key}
               L == {k \in Keys(messages) : k < l.key}
    <2>1. m.key \in 1..MaxKey /\ l.key \in 1..MaxKey /\ Keys(messages) \subseteq 1..MaxKey
        BY <1>1, KeysFacts DEF KeyedMessages
    <2>2. M \subseteq L
        BY <1>2, <2>1
    <2>3. IsFiniteSet(L) /\ Cardinality(L) \in Nat /\ Cardinality(M) \in Nat
        BY <2>1, SmallerKeys
    <2>4. Cardinality(M) <= Cardinality(L)
        <3> HIDE DEF M, L
        <3> QED BY <2>2, <2>3, FS_Subset
    <2>5. Cardinality(L) < MaxBatch
        BY DEF FirstOf
    <2>6. Cardinality(M) < MaxBatch
        <3> HIDE DEF M, L
        <3> QED BY <2>3, <2>4, <2>5, NativeAssumption
    <2> QED BY <2>6 DEF FirstOf
<1>3. ASSUME messages # {} PROVE FirstOf(messages) # {}
    <2> DEFINE S == Keys(messages)
    <2>1. S \subseteq 1..MaxKey /\ S \subseteq Nat /\ S # {}
        BY <1>3, KeysFacts
    <2>2. PICK k \in S : \A x \in S : k <= x
        <3> HIDE DEF S
        <3> QED BY <2>1, Least
    <2>3. PICK m \in messages : m.key = k
        BY DEF Keys
    <2>4. {l \in S : l < m.key} = {}
        <3> SUFFICES ASSUME NEW l \in S, l < m.key PROVE FALSE
            OBVIOUS
        <3>1. k <= l /\ k \in Nat /\ l \in Nat
            BY <2>1, <2>2
        <3> QED BY <3>1, <2>3
    <2>5. Cardinality({l \in Keys(messages) : l < m.key}) = 0
        BY <2>4, FS_EmptySet
    <2> QED BY <2>5, NativeAssumption DEF FirstOf
<1> QED BY <1>1, <1>2, <1>3 DEF KeyedMessages

-----------------------------------------------------------------------------
(* What a write leaves *)

\* Messages of a source after a write: those that were there, longer ones in their
\* place, and new ones with a revision or a key that was not there.
Grown(a, messages) ==
    /\ messages \in SUBSET MessageOf(a)
    /\ \A l, m \in messages : l.key = m.key => l = m
    /\ \A m \in messages :
         \/ \E l \in log[a] : /\ l.key = m.key /\ l.session = m.session /\ l.rev = m.rev
                              /\ l.parts <= m.parts
         \/ IsFile(a) /\ m.rev = stamp[a]
         \/ ~IsFile(a) /\ m.rev = 0 /\ m.key \notin Keys(log[a])
    /\ ~IsFile(a) \/ (\E m \in messages : m.rev # stamp[a]) =>
         \A l \in log[a] : \E m \in messages :
             l.key = m.key /\ l.session = m.session /\ l.rev = m.rev /\ l.parts <= m.parts

AgentWrites(a, messages) == a \in installed /\ Written(a, messages) /\ Grown(a, messages)

\* What typing says of the messages of a source.
LEMMA TypedMessages ==
    ASSUME AgentsTyped, NEW a \in Adapters
    PROVE  /\ \A m \in log[a] : m \in Message /\ m.key \in 1..MaxKey /\ m.session \in SessionsOf[a]
                                /\ m.rev \in Nat /\ m.parts \in 0..MaxParts
           /\ KeyedMessages(log[a])
           /\ SessionsOf[a] \subseteq Native
BY DEF AgentsTyped, MessageOf, Message, KeyedMessages, Native

\* The key of a new message is in range and nobody has it.
LEMMA NewKeysFresh ==
    ASSUME AgentsTyped, NEW a \in Adapters, NEW key \in NewKeys(a)
    PROVE  key \in 1..MaxKey /\ \A m \in log[a] : m.key # key
<1>1. KeyedMessages(log[a]) /\ \A m \in log[a] : m.key \in 1..MaxKey
    BY TypedMessages
<1>2. CASE Format[a] = "opencode"
    BY <1>1, <1>2, KeysFacts DEF NewKeys
<1>3. CASE Format[a] # "opencode"
    <2>1. key = LastKey(log[a], 0) + 1 /\ key \in 1..MaxKey
        BY <1>3 DEF NewKeys
    <2>2. \A m \in log[a] : m.key <= LastKey(log[a], 0) /\ LastKey(log[a], 0) \in Nat
        BY <1>1, LastKeyFacts
    <2> QED BY <1>1, <2>1, <2>2
<1> QED BY <1>2, <1>3

\* A new message is such a write,
LEMMA WriteGrows ==
    ASSUME AgentsTyped, LogInv, NEW a \in installed, Write(a)
    PROVE  \E messages : AgentWrites(a, messages)
<1>0. a \in Adapters /\ stamp[a] \in Nat
    BY DEF AgentsTyped
<1>1. PICK key \in NewKeys(a), n \in SessionsOf[a] :
        Written(a, log[a] \cup {[key |-> key, session |-> n, rev |-> RevisionOf(a), parts |-> 0]})
    BY DEF Write
<1> DEFINE new == [key |-> key, session |-> n, rev |-> RevisionOf(a), parts |-> 0]
           messages == log[a] \cup {new}
<1>2. key \in 1..MaxKey /\ \A m \in log[a] : m.key # key
    BY <1>0, NewKeysFresh
<1>3. RevisionOf(a) = IF IsFile(a) THEN stamp[a] ELSE 0
    BY DEF RevisionOf, IsFile
<1>4. new \in MessageOf(a) /\ log[a] \subseteq MessageOf(a)
    BY <1>0, <1>2, <1>3, NativeAssumption DEF MessageOf, AgentsTyped
<1>5. \A l, m \in messages : l.key = m.key => l = m
    BY <1>0, <1>2 DEF LogInv
<1>6. key \notin Keys(log[a])
    BY <1>2 DEF Keys
<1>7. \A l \in log[a] : l.parts <= l.parts
    BY <1>0, TypedMessages
<1>8. \A m \in messages :
         \/ \E l \in log[a] : /\ l.key = m.key /\ l.session = m.session /\ l.rev = m.rev
                              /\ l.parts <= m.parts
         \/ IsFile(a) /\ m.rev = stamp[a]
         \/ ~IsFile(a) /\ m.rev = 0 /\ m.key \notin Keys(log[a])
    BY <1>3, <1>6, <1>7
<1>9. \A l \in log[a] : \E m \in messages :
             l.key = m.key /\ l.session = m.session /\ l.rev = m.rev /\ l.parts <= m.parts
    BY <1>7
<1>10. Grown(a, messages)
    <2> HIDE DEF messages
    <2> QED BY <1>4, <1>5, <1>8, <1>9 DEF Grown, messages
<1> QED BY <1>1, <1>10 DEF AgentWrites

\* so is a new part of a message,
LEMMA WritePartGrows ==
    ASSUME AgentsTyped, LogInv, NEW a \in installed, WritePart(a)
    PROVE  \E messages : AgentWrites(a, messages)
<1>0. a \in Adapters
    BY DEF AgentsTyped
<1>1. PICK old \in log[a] : /\ old.parts < MaxParts
                            /\ Written(a, (log[a] \ {old}) \cup {[old EXCEPT !.parts = @ + 1]})
    BY DEF WritePart
<1> DEFINE new == [old EXCEPT !.parts = @ + 1]
           messages == (log[a] \ {old}) \cup {new}
<1>2. old \in MessageOf(a) /\ old.parts \in 0..MaxParts /\ MaxParts \in Nat
    BY <1>0, NativeAssumption DEF AgentsTyped, MessageOf
<1>3. /\ new \in MessageOf(a) /\ new.key = old.key /\ new.session = old.session
      /\ new.rev = old.rev /\ old.parts <= new.parts
    BY <1>1, <1>2 DEF MessageOf
<1>4. log[a] \subseteq MessageOf(a)
    BY <1>0 DEF AgentsTyped
<1>5. \A l, m \in messages : l.key = m.key => l = m
    <2> HIDE DEF new
    <2> QED BY <1>0, <1>3 DEF LogInv
<1>6. \A l \in log[a] : l.parts <= l.parts
    BY <1>0, TypedMessages
<1>7. \A m \in messages :
         \/ \E l \in log[a] : /\ l.key = m.key /\ l.session = m.session /\ l.rev = m.rev
                              /\ l.parts <= m.parts
         \/ IsFile(a) /\ m.rev = stamp[a]
         \/ ~IsFile(a) /\ m.rev = 0 /\ m.key \notin Keys(log[a])
    <2> HIDE DEF new
    <2> QED BY <1>3, <1>6
<1>8. \A l \in log[a] : \E m \in messages :
             l.key = m.key /\ l.session = m.session /\ l.rev = m.rev /\ l.parts <= m.parts
    <2> HIDE DEF new
    <2> QED BY <1>3, <1>6
<1>9. Grown(a, messages)
    <2>1. messages \in SUBSET MessageOf(a)
        BY <1>3, <1>4
    <2> HIDE DEF messages
    <2> QED BY <2>1, <1>5, <1>7, <1>8 DEF Grown
<1> QED BY <1>1, <1>9 DEF AgentWrites

\* and so is a file written anew.
LEMMA ReplaceGrows ==
    ASSUME AgentsTyped, LogInv, NEW a \in installed, Replace(a)
    PROVE  \E messages : AgentWrites(a, messages)
<1>0. a \in Adapters /\ stamp[a] \in Nat
    BY DEF AgentsTyped
<1>1. PICK n \in SessionsOf[a] :
        Written(a, {[key |-> 1, session |-> n, rev |-> RevisionOf(a), parts |-> 0]})
    BY DEF Replace
<1> DEFINE new == [key |-> 1, session |-> n, rev |-> RevisionOf(a), parts |-> 0]
<1>2. IsFile(a) /\ new.rev = stamp[a]
    BY DEF Replace, RevisionOf, IsFile
<1>3. 1 \in 1..MaxKey
    <2>1. PICK m \in log[a] : TRUE
        BY DEF Replace
    <2>2. m.key \in 1..MaxKey /\ MaxKey \in Nat
        BY <1>0, <2>1, TypedMessages, NativeAssumption
    <2> QED BY <2>2
<1>4. new \in MessageOf(a)
    BY <1>0, <1>2, <1>3, NativeAssumption DEF MessageOf
<1>5. Grown(a, {new})
    <2> HIDE DEF new
    <2> QED BY <1>2, <1>4 DEF Grown
<1> QED BY <1>1, <1>5 DEF AgentWrites

\* All three kinds of writes are one kind of step.
LEMMA WritesAreSteps ==
    ASSUME AgentsTyped, LogInv, NEW a \in installed, Write(a) \/ WritePart(a) \/ Replace(a)
    PROVE  \E messages : AgentWrites(a, messages)
BY WriteGrows, WritePartGrows, ReplaceGrows

-----------------------------------------------------------------------------
(* Types *)

\* What the phase of the run says of its fields.
LEMMA RunCases ==
    ASSUME RunTyped
    PROVE  /\ run.phase \in {"idle", "load", "bytes", "parts", "emit", "upsert"}
           /\ run.phase = "idle" => run = NoRun
           /\ run.phase = "load" => run \in LoadingRun
           /\ run.phase = "bytes" => run \in ReadingRun
           /\ Batching => run \in BatchOf(run.adapter)
           /\ Running => /\ run.adapter \in Adapters /\ run.by \in By
                         /\ run.cursor \in Cursor /\ run.ensured \in Ensured
BY DEF RunTyped, NoRun, LoadingRun, ReadingRun, BatchOf, Batching, Running

\* Parts are those of a message.
LEMMA PartsTyped ==
    ASSUME NEW a, NEW messages \in SUBSET MessageOf(a)
    PROVE  /\ PartsIn(messages) \subseteq PartOf(a)
           /\ \A p \in PartsIn(messages) : \E m \in messages :
                m.key = p.key /\ m.session = p.session /\ m.rev = p.rev /\ p.part \in 0..m.parts
           /\ \A m \in messages : \A i \in 0..m.parts :
                [key |-> m.key, part |-> i, session |-> m.session, rev |-> m.rev] \in PartsIn(messages)
<1>1. ASSUME NEW m \in messages, NEW p \in PartsOf(m)
      PROVE  p \in PartOf(a) /\ m.key = p.key /\ m.session = p.session /\ m.rev = p.rev
             /\ p.part \in 0..m.parts
    <2>1. m \in MessageOf(a)
        OBVIOUS
    <2>2. PICK i \in 0..m.parts : p = [key |-> m.key, part |-> i, session |-> m.session, rev |-> m.rev]
        BY <1>1 DEF PartsOf
    <2>3. i \in 0..MaxParts
        BY <2>1, NativeAssumption DEF MessageOf
    <2> QED BY <2>1, <2>2, <2>3 DEF MessageOf, PartOf
<1>2. \A m \in messages : \A i \in 0..m.parts :
        [key |-> m.key, part |-> i, session |-> m.session, rev |-> m.rev] \in PartsOf(m)
    BY DEF PartsOf
<1> QED BY <1>1, <1>2 DEF PartsIn

\* A batch that was read is a batch.
LEMMA LoadedTyped ==
    ASSUME NEW r \in LoadingRun \cup ReadingRun, NEW items \in SUBSET PartOf(r.adapter),
           NEW end \in Cursor, NEW isCut \in BOOLEAN
    PROVE  LoadedBatch(r, items, end, isCut) \in BatchOf(r.adapter)
BY DEF LoadedBatch, BatchOf, LoadingRun, ReadingRun

\* What the three readings have in common: a batch behind a position.
LEMMA NewerFacts ==
    ASSUME AgentsTyped, NEW a \in Adapters, NEW position \in Nat
    PROVE  LET batch == FirstOf(Newer(a, position))
               end == LastKey(batch, position)
           IN /\ batch \subseteq log[a] /\ batch \in SUBSET MessageOf(a)
              /\ PartsIn(batch) \in SUBSET PartOf(a) /\ PartsIn(batch) \subseteq Parts(a)
              /\ Keys(batch) \in SUBSET (1..MaxKey)
              /\ end \in Nat /\ position <= end
              /\ \A m \in log[a] : m.key <= end => m.key <= position \/ m \in batch
              /\ batch = {} => end = position /\ \A m \in log[a] : m.key <= position
              /\ batch # {} => /\ position < end
                               /\ \E m \in batch : m.key = end
<1> DEFINE newer == Newer(a, position)
           batch == FirstOf(newer)
           end == LastKey(batch, position)
<1>0. /\ KeyedMessages(log[a]) /\ log[a] \subseteq MessageOf(a)
      /\ \A m \in log[a] : m.key \in 1..MaxKey
    BY TypedMessages DEF AgentsTyped
<1>1. newer \subseteq log[a] /\ KeyedMessages(newer) /\ \A m \in newer : position < m.key
    BY <1>0 DEF Newer, KeyedMessages
<1> HIDE DEF newer
<1>2. /\ batch \subseteq newer /\ KeyedMessages(batch) /\ (newer # {} => batch # {})
      /\ \A m \in newer, l \in batch : m.key <= l.key => m \in batch
    BY <1>1, BatchFacts
<1> HIDE DEF batch
<1>3. /\ end \in Nat /\ \A m \in batch : m.key <= end
      /\ batch = {} => end = position
      /\ batch # {} => \E m \in batch : m.key = end
    BY <1>2, LastKeyFacts
<1> HIDE DEF end
<1>4. batch # {} => position < end
    BY <1>1, <1>2, <1>3
<1>5. \A m \in log[a] : position < m.key => m \in newer
    BY DEF newer, Newer
<1>6. \A m \in log[a] : m.key <= end => m.key <= position \/ m \in batch
    BY <1>0, <1>2, <1>3, <1>5
<1>7. batch = {} => \A m \in log[a] : m.key <= position
    BY <1>0, <1>2, <1>5
<1>8. batch \subseteq log[a] /\ batch \in SUBSET MessageOf(a)
    BY <1>0, <1>1, <1>2
<1>9. PartsIn(batch) \in SUBSET PartOf(a) /\ PartsIn(batch) \subseteq Parts(a)
    BY <1>8, PartsTyped DEF Parts, PartsIn
<1>10. Keys(batch) \in SUBSET (1..MaxKey)
    BY <1>2, KeysFacts
<1>11. position <= end
    BY <1>3, <1>4
<1> QED BY <1>3, <1>4, <1>6, <1>7, <1>8, <1>9, <1>10, <1>11 DEF batch, end, newer

\* Positions are numbers.
LEMMA PositionTyped ==
    ASSUME NEW c \in Cursor
    PROVE  Position(c) \in Nat /\ (c.native \in Nat => Position(c) = c.native)
BY NativeAssumption DEF Cursor, Position

\* A write keeps the types.
LEMMA WritesTyped ==
    ASSUME TypeInv, NEW a, NEW messages, AgentWrites(a, messages)
    PROVE  TypeInv'
<1>0. a \in Adapters /\ messages \in SUBSET MessageOf(a)
    BY DEF AgentWrites, Grown, TypeInv, AgentsTyped
<1>1. /\ log' = [log EXCEPT ![a] = messages] /\ stamp' = [stamp EXCEPT ![a] = @ + 1]
      /\ UNCHANGED <<sessions, events, cursor, installed, home, run, history, asked>>
    BY DEF AgentWrites, Written, storeVars
<1>2. messages \in SUBSET Message
    BY <1>0 DEF MessageOf, Message, Native
<1>3. AgentsTyped'
    <2>1. log' \in [Adapters -> SUBSET Message]
        BY <1>0, <1>1, <1>2 DEF TypeInv, AgentsTyped
    <2>2. stamp' \in [Adapters -> Nat]
        BY <1>0, <1>1 DEF TypeInv, AgentsTyped
    <2>3. ASSUME NEW b \in Adapters PROVE log'[b] \subseteq MessageOf(b)
        BY <1>0, <1>1 DEF TypeInv, AgentsTyped
    <2> QED BY <1>1, <2>1, <2>2, <2>3 DEF TypeInv, AgentsTyped
<1>4. StoreTyped' /\ RunTyped' /\ history' \in HistoryType
    BY <1>1 DEF TypeInv, StoreTyped, RunTyped
<1> QED BY <1>3, <1>4 DEF TypeInv

\* The readings of a run.
LEMMA ReadingsTyped ==
    ASSUME TypeInv, LoadHermes \/ LoadOpenCode \/ LoadParts \/ Stat \/ ReadFile
    PROVE  RunTyped'
<1>0. RunTyped /\ AgentsTyped
    BY DEF TypeInv
<1>1. ASSUME LoadHermes PROVE RunTyped'
    <2> DEFINE position == Position(run.cursor)
               messages == FirstOf(Newer(run.adapter, position))
               end == LastKey(messages, position)
    <2>1. run \in LoadingRun /\ run.adapter \in Adapters /\ position \in Nat
        BY <1>0, <1>1, RunCases, PositionTyped DEF LoadHermes, Running
    <2>2. end \in Nat /\ PartsIn(messages) \in SUBSET PartOf(run.adapter)
        BY <1>0, <2>1, NewerFacts
    <2>3. run' = LoadedBatch(run, PartsIn(messages), [native |-> end, stamp |-> None], FALSE)
        BY <1>1 DEF LoadHermes
    <2> HIDE DEF messages, end
    <2>4. [native |-> end, stamp |-> None] \in Cursor
        BY <2>2 DEF Cursor
    <2>5. run' \in BatchOf(run.adapter)
        BY <2>1, <2>2, <2>3, <2>4, LoadedTyped
    <2> QED BY <2>1, <2>5 DEF RunTyped
<1>2. ASSUME LoadOpenCode PROVE RunTyped'
    <2> DEFINE position == Position(run.cursor)
               messages == FirstOf(Newer(run.adapter, position))
               end == LastKey(messages, position)
               batch == LoadedBatch(run, {}, [native |-> end, stamp |-> None], FALSE)
    <2>1. run \in LoadingRun /\ run.adapter \in Adapters /\ position \in Nat
        BY <1>0, <1>2, RunCases, PositionTyped DEF LoadOpenCode, Running
    <2>2. end \in Nat /\ Keys(messages) \in SUBSET (1..MaxKey)
        BY <1>0, <2>1, NewerFacts
    <2>3. run' = [batch EXCEPT !.phase = IF messages = {} THEN "emit" ELSE "parts",
                               !.todo = Keys(messages)]
        BY <1>2 DEF LoadOpenCode
    <2> HIDE DEF messages, end
    <2>4. [native |-> end, stamp |-> None] \in Cursor
        BY <2>2 DEF Cursor
    <2>5. batch \in BatchOf(run.adapter)
        BY <2>1, <2>4, LoadedTyped
    <2> HIDE DEF batch
    <2>6. run' \in BatchOf(run.adapter)
        BY <2>2, <2>3, <2>5 DEF BatchOf
    <2> QED BY <2>1, <2>6 DEF RunTyped
<1>3. ASSUME LoadParts PROVE RunTyped'
    <2>1. run \in BatchOf(run.adapter) /\ run.adapter \in Adapters
        BY <1>0, <1>3, RunCases DEF LoadParts, Batching, Running
    <2>2. PICK m \in log[run.adapter] :
            run' = [run EXCEPT !.items = @ \cup PartsOf(m), !.todo = @ \ {m.key},
                               !.phase = IF run.todo = {m.key} THEN "emit" ELSE "parts"]
        BY <1>3 DEF LoadParts
    <2>3. {m} \in SUBSET MessageOf(run.adapter) /\ PartsIn({m}) = PartsOf(m)
        BY <1>0, <2>1 DEF AgentsTyped, PartsIn
    <2>4. PartsOf(m) \subseteq PartOf(run.adapter)
        BY <2>3, PartsTyped
    <2>5. run' \in BatchOf(run.adapter)
        BY <2>1, <2>2, <2>4 DEF BatchOf
    <2> QED BY <2>1, <2>5 DEF RunTyped
<1>4. ASSUME Stat PROVE RunTyped'
    <2>1. /\ run \in LoadingRun /\ run.adapter \in Adapters /\ run.cursor \in Cursor
          /\ run.ensured \in Ensured /\ run.by \in By
        BY <1>0, <1>4, RunCases DEF Stat, Running
    <2>2. stamp[run.adapter] \in Nat
        BY <1>0, <2>1 DEF AgentsTyped
    <2>3. CASE run' = LoadedBatch(run, {}, run.cursor, run.adapter \in cut)
        <3> DEFINE isCut == run.adapter \in cut
        <3>0. isCut \in BOOLEAN
            OBVIOUS
        <3>1. run' = LoadedBatch(run, {}, run.cursor, isCut)
            BY <2>3
        <3> HIDE DEF isCut
        <3>2. {} \in SUBSET PartOf(run.adapter)
            OBVIOUS
        <3>3. run' \in BatchOf(run.adapter)
            BY <2>1, <3>0, <3>1, <3>2, LoadedTyped
        <3> QED BY <2>1, <3>3 DEF RunTyped
    <2>4. CASE run' = [phase |-> "bytes", by |-> run.by, adapter |-> run.adapter,
                       cursor |-> run.cursor, ensured |-> run.ensured, stamp |-> stamp[run.adapter]]
        BY <2>1, <2>2, <2>4 DEF RunTyped, ReadingRun
    <2> QED BY <1>4, <2>3, <2>4 DEF Stat
<1>5. ASSUME ReadFile PROVE RunTyped'
    <2> DEFINE a == run.adapter
               start == StartIndex(Position(run.cursor), log[a])
               batch == FirstOf(Newer(a, start))
               end == LastKey(batch, start)
    <2>1. run \in ReadingRun /\ a \in Adapters /\ Position(run.cursor) \in Nat /\ run.stamp \in Nat
        BY <1>0, <1>5, RunCases, PositionTyped DEF ReadFile, Running, ReadingRun
    <2>2. start \in Nat
        BY <2>1 DEF StartIndex
    <2> HIDE DEF start
    <2>3. end \in Nat /\ PartsIn(batch) \in SUBSET PartOf(a)
        BY <1>0, <2>1, <2>2, NewerFacts
    <2>4. run' = LoadedBatch(run, PartsIn(batch), [native |-> end, stamp |-> run.stamp], Newer(a, end) # {})
        BY <1>5 DEF ReadFile, start
    <2> HIDE DEF batch, end
    <2>5. [native |-> end, stamp |-> run.stamp] \in Cursor
        BY <2>1, <2>3 DEF Cursor
    <2>6. run' \in BatchOf(a)
        BY <2>1, <2>3, <2>4, <2>5, LoadedTyped
    <2> QED BY <2>1, <2>6 DEF RunTyped
<1> QED BY <1>1, <1>2, <1>3, <1>4, <1>5

\* What FindSession leaves in the run.
LEMMA FindTyped ==
    ASSUME TypeInv, FindSession
    PROVE  /\ RunTyped'
           /\ \E item \in run.items : /\ run'.target.native = item.session
                                      /\ run'.target \in TargetOf(run.adapter)
                                      /\ run' \in BatchOf(run.adapter)
                                      /\ run'.phase = "upsert" /\ run'.adapter = run.adapter
                                      /\ run'.by = run.by /\ run'.cursor = run.cursor
                                      /\ run'.ensured = run.ensured /\ run'.items = run.items
                                      /\ run'.todo = run.todo /\ run'.outcome = run.outcome
                                      /\ run'.cut = run.cut
                                      /\ run'.target.project = home[item.session]
                                      /\ LET n == item.session
                                             matching == Matching(run.adapter, n)
                                         IN run'.target.session \in
                                              IF home[n] = None \/ matching = {} THEN {n}
                                              ELSE Preferred(n, matching)
<1>1. run \in BatchOf(run.adapter) /\ run.adapter \in Adapters
    BY RunCases DEF FindSession, TypeInv, Batching, Running
<1>2. PICK item \in run.items :
        \E s \in IF home[item.session] = None \/ Matching(run.adapter, item.session) = {}
                 THEN {item.session} ELSE Preferred(item.session, Matching(run.adapter, item.session)) :
            run' = [run EXCEPT !.phase = "upsert",
                               !.target = [native |-> item.session, session |-> s,
                                           project |-> home[item.session]]]
    BY DEF FindSession
<1> DEFINE n == item.session
           found == IF home[n] = None \/ Matching(run.adapter, n) = {} THEN {n}
                    ELSE Preferred(n, Matching(run.adapter, n))
<1>3. PICK s \in found :
            run' = [run EXCEPT !.phase = "upsert",
                               !.target = [native |-> n, session |-> s, project |-> home[n]]]
    BY <1>2
<1>4. n \in SessionsOf[run.adapter] /\ n \in Native /\ n \in SessionIds
    BY <1>1 DEF BatchOf, PartOf, Native, SessionIds
<1>5. home[n] \in {Project, None}
    BY <1>4 DEF TypeInv, AgentsTyped
<1>6. s \in SessionIds
    BY <1>4 DEF Preferred, Matching
<1>7. [native |-> n, session |-> s, project |-> home[n]] \in TargetOf(run.adapter)
    BY <1>4, <1>5, <1>6 DEF TargetOf
<1> HIDE DEF n, found
<1>8. run' \in BatchOf(run.adapter)
    BY <1>1, <1>3, <1>7 DEF BatchOf
<1>9. /\ run'.target = [native |-> n, session |-> s, project |-> home[n]]
      /\ run'.phase = "upsert" /\ run'.adapter = run.adapter /\ run'.by = run.by
      /\ run'.cursor = run.cursor /\ run'.ensured = run.ensured /\ run'.items = run.items
      /\ run'.todo = run.todo /\ run'.outcome = run.outcome /\ run'.cut = run.cut
    BY <1>1, <1>3 DEF BatchOf
<1> QED BY <1>1, <1>3, <1>7, <1>8, <1>9 DEF RunTyped, n, found

\* The row that UpsertSession leaves.
LEMMA UpsertTyped ==
    ASSUME TypeInv, TargetInv, UpsertSession
    PROVE  LET n == run.target.native
               s == run.target.session
           IN /\ RunTyped' /\ run' \in BatchOf(run.adapter)
              /\ run.target \in TargetOf(run.adapter)
              /\ n \in SessionsOf[run.adapter] /\ n \in Native /\ s \in SessionIds
              /\ sessions' = [sessions EXCEPT ![s] = sessions'[s]]
              /\ sessions'[s] \in Row /\ sessions'[s] # None /\ sessions'[s].native = n
              /\ sessions[s] = None =>
                   sessions'[s].agent = run.adapter /\ sessions'[s].project = run.target.project
              /\ sessions[s] # None =>
                   /\ sessions[s] \in Row
                   /\ sessions'[s].agent = sessions[s].agent
                   /\ sessions'[s].project = IF run.target.project = None THEN sessions[s].project
                                             ELSE run.target.project
                   /\ sessions'[s].state = IF sessions[s].state \in {"active", "complete"}
                                           THEN sessions[s].state ELSE "imported"
              /\ run' = [run EXCEPT !.phase = "emit", !.target = None, !.ensured[s] = n]
              /\ run'.phase = "emit" /\ run'.adapter = run.adapter /\ run'.by = run.by
              /\ run'.cursor = run.cursor /\ run'.items = run.items /\ run'.todo = run.todo
              /\ run'.outcome = run.outcome /\ run'.cut = run.cut
              /\ run'.ensured = [run.ensured EXCEPT ![s] = n]
<1> DEFINE n == run.target.native
           s == run.target.session
<1>1. run \in BatchOf(run.adapter) /\ run.adapter \in Adapters /\ run.phase = "upsert"
    BY RunCases DEF UpsertSession, TypeInv, Batching, Running
<1>2. run.target \in TargetOf(run.adapter)
    BY <1>1 DEF TargetInv
<1>3. n \in SessionsOf[run.adapter] /\ n \in Native /\ s \in SessionIds /\ TimeOf[n] \in Int
      /\ run.target.project \in {Project, None}
    BY <1>1, <1>2, NativeAssumption DEF TargetOf, Native
<1>4. run' = [run EXCEPT !.phase = "emit", !.target = None, !.ensured[s] = n]
    BY DEF UpsertSession
<1>5. sessions[s] \in Row \cup {None} /\ sessions \in [SessionIds -> Row \cup {None}]
    BY <1>3 DEF TypeInv, StoreTyped
<1> DEFINE new == ImportedRow(run.adapter, n, run.target.project)
           old == sessions[s]
           kept == MergedRow(old, n, run.target.project)
<1>6. sessions' = [sessions EXCEPT ![s] = IF sessions[s] = None THEN new ELSE kept]
    BY DEF UpsertSession
<1>7. sessions'[s] = IF sessions[s] = None THEN new ELSE kept
    <2> HIDE DEF new, kept
    <2> QED BY <1>3, <1>5, <1>6
<1>8. new \in Row /\ new.native = n /\ new.agent = run.adapter /\ new.project = run.target.project
    BY <1>1, <1>3 DEF Row, ImportedRow
<1>9. ASSUME old # None
      PROVE  /\ kept \in Row /\ kept.native = n /\ kept.agent = old.agent
             /\ kept.project = IF run.target.project = None THEN old.project ELSE run.target.project
             /\ kept.state = IF old.state \in {"active", "complete"} THEN old.state ELSE "imported"
    <2>1. old \in Row
        BY <1>5, <1>9
    <2> HIDE DEF old, n
    <2> QED BY <2>1, <1>3 DEF Row, Coalesce, StateKept, MergedRow
<1>10. sessions' = [sessions EXCEPT ![s] = sessions'[s]]
    <2> HIDE DEF new, kept
    <2> QED BY <1>6, <1>7
<1>11. sessions'[s] \in Row /\ sessions'[s] # None
    <2> HIDE DEF new, kept
    <2> QED BY <1>7, <1>8, <1>9, NativeAssumption
<1>12. n \in Native \cup {None}
    BY <1>3
<1>13. run' \in BatchOf(run.adapter)
    <2> HIDE DEF n, s
    <2> QED BY <1>1, <1>3, <1>4, <1>12 DEF BatchOf, Ensured
<1>14. /\ run'.phase = "emit" /\ run'.adapter = run.adapter /\ run'.by = run.by
       /\ run'.cursor = run.cursor /\ run'.items = run.items /\ run'.todo = run.todo
       /\ run'.outcome = run.outcome /\ run'.cut = run.cut
       /\ run'.ensured = [run.ensured EXCEPT ![s] = n]
    <2> HIDE DEF n, s
    <2> QED BY <1>1, <1>4 DEF BatchOf
<1>15. RunTyped'
    BY <1>1, <1>13 DEF RunTyped
<1>16. sessions'[s].native = n
    <2> HIDE DEF new, kept
    <2> QED BY <1>7, <1>8, <1>9
<1>17. sessions[s] = None =>
         sessions'[s].agent = run.adapter /\ sessions'[s].project = run.target.project
    <2> HIDE DEF new, kept
    <2> QED BY <1>7, <1>8
<1>18. sessions[s] # None =>
         /\ sessions[s] \in Row
         /\ sessions'[s].agent = sessions[s].agent
         /\ sessions'[s].project = IF run.target.project = None THEN sessions[s].project
                                   ELSE run.target.project
         /\ sessions'[s].state = IF sessions[s].state \in {"active", "complete"}
                                 THEN sessions[s].state ELSE "imported"
    <2> HIDE DEF new, kept
    <2> QED BY <1>5, <1>7, <1>9
<1> QED BY <1>2, <1>3, <1>4, <1>10, <1>11, <1>13, <1>14, <1>15, <1>16, <1>17, <1>18

\* What Emit leaves in the run and among the events.
LEMMA EmitTyped ==
    ASSUME TypeInv, Emit
    PROVE  \E item \in run.items, s \in SessionIds :
              /\ item \in PartOf(run.adapter) /\ run.ensured[s] = item.session
              /\ events' = [events EXCEPT ![run.adapter] =
                   {e \in @ : ~SameSource(e, item)}
                      \cup {[key |-> item.key, part |-> item.part, session |-> item.session,
                             rev |-> item.rev, row |-> s]}]
              /\ [key |-> item.key, part |-> item.part, session |-> item.session,
                  rev |-> item.rev, row |-> s] \in EventOf(run.adapter)
              /\ run' \in BatchOf(run.adapter)
              /\ run'.items = run.items \ {item}
              /\ run'.phase = "emit" /\ run'.adapter = run.adapter /\ run'.by = run.by
              /\ run'.cursor = run.cursor /\ run'.ensured = run.ensured
              /\ run'.todo = run.todo /\ run'.outcome = run.outcome /\ run'.cut = run.cut
              /\ run'.target = run.target
<1>1. run \in BatchOf(run.adapter) /\ run.adapter \in Adapters /\ run.phase = "emit"
    BY RunCases DEF Emit, TypeInv, Batching, Running
<1>2. PICK item \in run.items, s \in SessionIds :
        /\ run.ensured[s] = item.session
        /\ events' = [events EXCEPT ![run.adapter] =
             {e \in @ : ~SameSource(e, item)}
                \cup {[key |-> item.key, part |-> item.part, session |-> item.session,
                       rev |-> item.rev, row |-> s]}]
        /\ run' = [run EXCEPT !.items = @ \ {item}]
    BY DEF Emit
<1>3. item \in PartOf(run.adapter)
    BY <1>1 DEF BatchOf
<1>4. [key |-> item.key, part |-> item.part, session |-> item.session,
       rev |-> item.rev, row |-> s] \in EventOf(run.adapter)
    BY <1>3 DEF PartOf, EventOf
<1>5. /\ run' \in BatchOf(run.adapter)
      /\ run'.items = run.items \ {item}
      /\ run'.phase = "emit" /\ run'.adapter = run.adapter /\ run'.by = run.by
      /\ run'.cursor = run.cursor /\ run'.ensured = run.ensured
      /\ run'.todo = run.todo /\ run'.outcome = run.outcome /\ run'.cut = run.cut
      /\ run'.target = run.target
    BY <1>1, <1>2 DEF BatchOf
<1> QED BY <1>2, <1>3, <1>4, <1>5

\* Steps by what they do to the store and the agents.
Reading == LoadHermes \/ LoadOpenCode \/ LoadParts \/ Stat \/ ReadFile

Quits ==
    /\ run' \in {run, NoRun}
    /\ UNCHANGED <<storeVars, agentVars, cut, asked>>

Starts ==
    /\ run.phase = "idle"
    /\ \E by \in By, a \in Adapters : run' = NewRun(by, a)
    /\ UNCHANGED <<storeVars, agentVars, cut, asked>>

Wraps == \E w \in Wrappers : Prepare(w) \/ Complete(w)

\* Every step is of one of these kinds.
LEMMA StepKinds ==
    ASSUME TypeInv, LogInv, [Next]_vars
    PROVE  \/ Reading \/ FindSession \/ UpsertSession \/ Emit \/ SaveCursor
           \/ Quits \/ Starts \/ StartHistory \/ Wraps
           \/ \E a, messages : AgentWrites(a, messages)
           \/ \E n \in Native : MoveHome(n)
<1>0. installed \subseteq Adapters /\ AgentsTyped
    BY DEF TypeInv, AgentsTyped
<1>1. CASE Import
    <2>1. ImportFails => Quits
        BY DEF ImportFails, Ended, Quits
    <2> QED BY <1>1, <2>1 DEF Import, Reading
<1>2. CASE RequestImport
    BY <1>0, <1>2 DEF RequestImport, Starts, By
<1>3. CASE StartHistory
    BY <1>3
<1>4. CASE Worker
    <2>1. ListAgents \/ NextAgent \/ FinishHistory => Quits
        BY DEF ListAgents, NextAgent, FinishHistory, Quits
    <2>2. TakeGate => Starts
        BY DEF TakeGate, Starts, By
    <2> QED BY <1>4, <2>1, <2>2 DEF Worker
<1>5. CASE Panic \/ Crash
    BY <1>5 DEF Panic, Crash, Quits
<1>6. CASE Environment
    <2>1. ASSUME NEW a \in installed, Write(a) \/ WritePart(a) \/ Replace(a)
          PROVE  \E messages : AgentWrites(a, messages)
        BY <1>0, <2>1, WritesAreSteps
    <2>2. UNION {SessionsOf[a] : a \in installed} \subseteq Native
        BY <1>0 DEF Native
    <2> QED BY <1>6, <2>1, <2>2 DEF Environment, Wraps
<1>7. CASE UNCHANGED vars
    BY <1>7 DEF vars, Quits
<1> QED BY <1>1, <1>2, <1>3, <1>4, <1>5, <1>6, <1>7 DEF Next

\* A reading changes the run only.
LEMMA ReadingLeaves ==
    ASSUME Reading
    PROVE  UNCHANGED <<storeVars, agentVars, history, cut, asked>>
BY DEF Reading, LoadHermes, LoadOpenCode, LoadParts, Stat, ReadFile

\* What SaveCursor leaves.
LEMMA SaveLeaves ==
    ASSUME TypeInv, SaveCursor
    PROVE  /\ run \in BatchOf(run.adapter) /\ run.adapter \in Adapters /\ run.phase = "emit"
           /\ run.items = {} /\ run.outcome \in Cursor
           /\ cursor' = [cursor EXCEPT ![run.adapter] = run.outcome]
           /\ cut' = IF run.cut THEN cut \cup {run.adapter} ELSE cut \ {run.adapter}
           /\ \/ run' = NoRun
              \/ run' = [phase |-> "load", by |-> run.by, adapter |-> run.adapter,
                         cursor |-> run.outcome, ensured |-> run.ensured]
           /\ UNCHANGED <<sessions, events, agentVars, asked>>
<1>1. run \in BatchOf(run.adapter) /\ run.adapter \in Adapters /\ run.phase = "emit"
    BY RunCases DEF SaveCursor, TypeInv, Batching, Running
<1>2. run.outcome \in Cursor
    BY <1>1 DEF BatchOf
<1> QED BY <1>1, <1>2 DEF SaveCursor, Ended, OutcomeCursor

\* Every step keeps the type of the history import,
LEMMA HistoryTyped ==
    ASSUME TypeInv, [Next]_vars
    PROVE  history' \in HistoryType
<1>0. history \in HistoryType /\ (Running => run.adapter \in Adapters)
    BY RunCases DEF TypeInv
<1>1. CASE UNCHANGED history
    BY <1>0, <1>1
<1>2. Idle \in HistoryType
    BY DEF Idle, HistoryType
<1>3. CASE \E result \in {"failed", "completed"} :
             Running /\ history' = [history EXCEPT !.agents[run.adapter] = result, !.worker = "next"]
    <2>1. PICK result \in {"failed", "completed"} :
            Running /\ history' = [history EXCEPT !.agents[run.adapter] = result, !.worker = "next"]
        BY <1>3
    <2>2. PICK a \in Adapters : a = run.adapter
        BY <1>0, <2>1
    <2>3. history' = [history EXCEPT !.agents[a] = result, !.worker = "next"]
        BY <2>1, <2>2
    <2> QED BY <1>0, <2>3 DEF HistoryType
<1>4. CASE StartHistory \/ Crash
    BY <1>2, <1>4 DEF StartHistory, Crash, HistoryType
<1>5. CASE ListAgents
    <2> DEFINE agents == [a \in Adapters |-> IF a \in installed THEN "queued" ELSE "absent"]
    <2>1. agents \in [Adapters -> {"absent", "queued", "running", "completed", "failed"}]
        OBVIOUS
    <2>2. \/ history' = [history EXCEPT !.agents = agents, !.worker = "next"]
          \/ history' = [history EXCEPT !.status = "completed_with_errors", !.worker = "none"]
        BY <1>5 DEF ListAgents
    <2> HIDE DEF agents
    <2> QED BY <1>0, <2>1, <2>2 DEF HistoryType
<1>6. CASE NextAgent
    <2>1. PICK i \in DOMAIN AdapterOrder :
            history' = [history EXCEPT !.agents[AdapterOrder[i]] = "running", !.worker = "gate"]
        BY <1>6 DEF NextAgent
    <2>2. AdapterOrder[i] \in Adapters
        BY DEF Adapters
    <2> QED BY <1>0, <2>1, <2>2 DEF HistoryType
<1>7. CASE TakeGate \/ FinishHistory
    BY <1>0, <1>7 DEF TakeGate, FinishHistory, HistoryType
<1>8. CASE Panic
    BY <1>0, <1>8 DEF Panic, StatusAfterPanic, HistoryType
<1>9. ASSUME Import PROVE history' \in HistoryType
    <2>1. CASE ImportFails
        BY <1>1, <1>3, <2>1 DEF ImportFails, Ended, FailedResult, Running
    <2>2. CASE SaveCursor
        BY <1>1, <1>3, <2>2 DEF SaveCursor, Ended, Running
    <2>3. CASE Reading
        BY <1>1, <2>3, ReadingLeaves
    <2>4. CASE FindSession \/ UpsertSession \/ Emit
        BY <1>1, <2>4 DEF FindSession, UpsertSession, Emit
    <2> QED BY <1>9, <2>1, <2>2, <2>3, <2>4 DEF Import, Reading
<1>10. ASSUME Environment PROVE UNCHANGED history
    BY <1>10 DEF Environment, Write, WritePart, Replace, Written, MoveHome, Prepare, Complete
<1>11. RequestImport \/ UNCHANGED vars => UNCHANGED history
    BY DEF RequestImport, vars
<1> QED BY <1>1, <1>4, <1>5, <1>6, <1>7, <1>8, <1>9, <1>10, <1>11 DEF Next, Worker

\* and all others.
LEMMA TypeStep ==
    ASSUME TypeInv, LogInv, TargetInv, [Next]_vars
    PROVE  TypeInv'
<1>0. /\ AgentsTyped /\ StoreTyped /\ RunTyped
      /\ installed \subseteq Adapters
    BY DEF TypeInv, AgentsTyped
<1>1. history' \in HistoryType
    BY HistoryTyped
<1>2. ASSUME UNCHANGED agentVars, UNCHANGED asked PROVE AgentsTyped'
    BY <1>0, <1>2 DEF agentVars, AgentsTyped
<1>3. ASSUME UNCHANGED storeVars PROVE StoreTyped'
    BY <1>0, <1>3 DEF storeVars, StoreTyped
<1>4. ASSUME UNCHANGED run PROVE RunTyped'
    BY <1>0, <1>4 DEF RunTyped
<1>5. CASE Reading
    BY <1>1, <1>2, <1>3, <1>5, ReadingLeaves, ReadingsTyped DEF Reading, TypeInv
<1>6. CASE FindSession
    <2>1. RunTyped'
        BY <1>6, FindTyped
    <2> QED BY <1>1, <1>2, <1>3, <1>6, <2>1 DEF FindSession, TypeInv
<1>7. CASE UpsertSession
    <2>1. /\ RunTyped' /\ run.target.session \in SessionIds
          /\ sessions' = [sessions EXCEPT ![run.target.session] = sessions'[run.target.session]]
          /\ sessions'[run.target.session] \in Row
        BY <1>7, UpsertTyped
    <2>2. sessions' \in [SessionIds -> Row \cup {None}]
        BY <1>0, <2>1 DEF StoreTyped
    <2>3. StoreTyped'
        BY <1>0, <1>7, <2>2 DEF StoreTyped, UpsertSession
    <2> QED BY <1>1, <1>2, <1>7, <2>1, <2>3 DEF UpsertSession, TypeInv
<1>8. CASE Emit
    <2>1. PICK item \in run.items, s \in SessionIds :
            /\ events' = [events EXCEPT ![run.adapter] =
                   {e \in @ : ~SameSource(e, item)}
                      \cup {[key |-> item.key, part |-> item.part, session |-> item.session,
                             rev |-> item.rev, row |-> s]}]
            /\ [key |-> item.key, part |-> item.part, session |-> item.session,
                rev |-> item.rev, row |-> s] \in EventOf(run.adapter)
            /\ run' \in BatchOf(run.adapter)
        BY <1>8, EmitTyped
    <2> DEFINE new == [key |-> item.key, part |-> item.part, session |-> item.session,
                       rev |-> item.rev, row |-> s]
               left == {e \in events[run.adapter] : ~SameSource(e, item)} \cup {new}
    <2>2. run.adapter \in Adapters
        BY <1>0, <1>8, RunCases DEF Emit, Running
    <2>3. new \in EventOf(run.adapter)
        BY <2>1
    <2>4. EventOf(run.adapter) \subseteq Event
        BY <2>2 DEF EventOf, Event, Native
    <2>5. left \subseteq EventOf(run.adapter)
        BY <1>0, <2>2, <2>3 DEF StoreTyped
    <2>6. events' = [events EXCEPT ![run.adapter] = left]
        BY <2>1
    <2> HIDE DEF new, left
    <2>7. events' \in [Adapters -> SUBSET Event] /\ \A a \in Adapters : events'[a] \subseteq EventOf(a)
        BY <1>0, <2>2, <2>4, <2>5, <2>6 DEF StoreTyped
    <2>8. StoreTyped'
        BY <1>0, <1>8, <2>7 DEF StoreTyped, Emit
    <2>9. RunTyped'
        BY <2>1, <2>2 DEF RunTyped
    <2> QED BY <1>1, <1>2, <1>8, <2>8, <2>9 DEF Emit, TypeInv
<1>9. CASE SaveCursor
    <2>1. /\ run \in BatchOf(run.adapter) /\ run.adapter \in Adapters /\ run.outcome \in Cursor
          /\ cursor' = [cursor EXCEPT ![run.adapter] = run.outcome]
          /\ \/ run' = NoRun
             \/ run' = [phase |-> "load", by |-> run.by, adapter |-> run.adapter,
                        cursor |-> run.outcome, ensured |-> run.ensured]
          /\ UNCHANGED <<sessions, events, agentVars, asked>>
        BY <1>9, SaveLeaves
    <2>2. run.by \in By /\ run.ensured \in Ensured
        BY <2>1 DEF BatchOf
    <2>3. RunTyped'
        BY <2>1, <2>2 DEF RunTyped, LoadingRun
    <2>4. StoreTyped'
        BY <1>0, <2>1 DEF StoreTyped
    <2> QED BY <1>1, <1>2, <2>1, <2>3, <2>4 DEF TypeInv
<1>10. CASE Quits
    <2>1. RunTyped'
        BY <1>0, <1>10 DEF Quits, RunTyped
    <2> QED BY <1>1, <1>2, <1>3, <1>10, <2>1 DEF Quits, TypeInv
<1>11. CASE Starts
    <2>1. PICK by \in By, a \in Adapters : run' = NewRun(by, a)
        BY <1>11 DEF Starts
    <2>2. run' \in LoadingRun
        BY <1>0, <2>1 DEF NewRun, LoadingRun, StoreTyped, Ensured
    <2>3. RunTyped'
        BY <2>2 DEF RunTyped
    <2> QED BY <1>1, <1>2, <1>3, <1>11, <2>3 DEF Starts, TypeInv
<1>12. CASE StartHistory
    <2>1. ASSUME NEW a \in Adapters PROVE asked'[a] \subseteq PartOf(a)
        BY <1>0, <1>12, PartsTyped DEF StartHistory, Parts, AgentsTyped
    <2>2. \A a \in Adapters : PartOf(a) \subseteq Part
        BY DEF PartOf, Part, Native
    <2>3. asked' \in [Adapters -> SUBSET Part]
        BY <1>12, <2>1, <2>2 DEF StartHistory
    <2>4. AgentsTyped'
        BY <1>0, <1>12, <2>1, <2>3 DEF StartHistory, agentVars, AgentsTyped
    <2> QED BY <1>1, <1>3, <1>4, <1>12, <2>4 DEF StartHistory, TypeInv
<1>13. CASE Wraps
    <2>1. PICK w \in Wrappers : Prepare(w) \/ Complete(w)
        BY <1>13 DEF Wraps
    <2>2. w \in SessionIds /\ EndOf[w] \in Int /\ StartOf[w] \in Int
        BY NativeAssumption DEF SessionIds
    <2>3. sessions[w] # None => sessions[w] \in Row
        BY <1>0, <2>2 DEF StoreTyped
    <2>4. CASE Prepare(w)
        <3>1. AgentOf[w] \in Adapters
            BY <1>0, <2>4 DEF Prepare
        <3>2. [project |-> Project, agent |-> AgentOf[w], native |-> None, kind |-> "wrapper",
               state |-> "active", started |-> StartOf[w], ended |-> None] \in Row
            BY <2>2, <3>1 DEF Row
        <3>3. StoreTyped'
            BY <1>0, <2>2, <2>4, <3>2 DEF StoreTyped, Prepare
        <3> QED BY <1>1, <1>2, <1>4, <2>4, <3>3 DEF Prepare, TypeInv
    <2>5. CASE Complete(w)
        <3> DEFINE row == [sessions[w] EXCEPT !.state = "complete", !.ended = EndOf[w]]
        <3>1. row \in Row
            BY <2>2, <2>3, <2>5 DEF Complete, Row
        <3>2. sessions' = [sessions EXCEPT ![w] = row]
            BY <1>0, <2>2, <2>3, <2>5 DEF Complete, StoreTyped, Row
        <3>3. StoreTyped'
            <4> HIDE DEF row
            <4> QED BY <1>0, <2>2, <2>5, <3>1, <3>2 DEF StoreTyped, Complete
        <3> QED BY <1>1, <1>2, <1>4, <2>5, <3>3 DEF Complete, TypeInv
    <2> QED BY <2>1, <2>4, <2>5
<1>14. CASE \E a, messages : AgentWrites(a, messages)
    BY <1>14, WritesTyped
<1>15. CASE \E n \in Native : MoveHome(n)
    <2>1. home' \in [Native -> {Project, None}]
        BY <1>0, <1>15 DEF MoveHome, AgentsTyped
    <2>2. AgentsTyped'
        BY <1>0, <1>15, <2>1 DEF MoveHome, AgentsTyped
    <2> QED BY <1>1, <1>3, <1>4, <1>15, <2>2 DEF MoveHome, TypeInv
<1> QED BY <1>5, <1>6, <1>7, <1>8, <1>9, <1>10, <1>11, <1>12, <1>13, <1>14, <1>15, StepKinds

-----------------------------------------------------------------------------
(* What a reading leaves in the run *)

SameImport == /\ run'.adapter = run.adapter /\ run'.by = run.by
              /\ run'.cursor = run.cursor /\ run'.ensured = run.ensured

\* Size and time are taken; or they are those of the cursor.
Looks ==
    /\ run.phase = "load" /\ run'.phase = "bytes" /\ IsFile(run.adapter)
    /\ run'.stamp = stamp[run.adapter]

Skips ==
    /\ run.phase = "load" /\ run'.phase = "emit" /\ IsFile(run.adapter)
    /\ run.cursor.stamp = stamp[run.adapter]
    /\ run'.items = {} /\ run'.todo = {} /\ run'.outcome = run.cursor
    /\ run'.cut <=> run.adapter \in cut

\* A batch behind start is read, or only its keys.
Takes(start, batch) ==
    /\ start \in Nat
    /\ batch = FirstOf(Newer(run.adapter, start))
    /\ run'.outcome.native = LastKey(batch, start)
    /\ \/ run'.phase = "emit" /\ run'.items = PartsIn(batch) /\ run'.todo = {}
       \/ /\ run'.phase = "parts" /\ run'.items = {} /\ run'.todo = Keys(batch)
          /\ Format[run.adapter] = "opencode"

TakesRows ==
    /\ run.phase = "load" /\ ~IsFile(run.adapter)
    /\ \E batch : Takes(Position(run.cursor), batch)
    /\ run'.outcome.stamp = None /\ run'.cut = FALSE

TakesFile ==
    /\ run.phase = "bytes"
    /\ LET start == StartIndex(Position(run.cursor), log[run.adapter])
       IN /\ \E batch : Takes(start, batch)
          /\ run'.cut <=> Newer(run.adapter, run'.outcome.native) # {}
    /\ run'.outcome.stamp = run.stamp

TakesParts ==
    /\ run.phase = "parts" /\ run'.phase \in {"parts", "emit"}
    /\ \E m \in log[run.adapter] :
         /\ m.key \in run.todo
         /\ run'.items = run.items \cup PartsOf(m) /\ run'.todo = run.todo \ {m.key}
         /\ run'.phase = "emit" => run'.todo = {}
    /\ run'.outcome = run.outcome /\ run'.cut = run.cut

\* Every reading is one of these.
LEMMA ReadingFields ==
    ASSUME TypeInv, Reading
    PROVE  /\ SameImport
           /\ run.phase \in {"load", "bytes", "parts"} /\ run.adapter \in Adapters
           /\ run'.phase \in {"bytes", "parts", "emit"}
           /\ Looks \/ Skips \/ TakesRows \/ TakesFile \/ TakesParts
<1>0. RunTyped /\ AgentsTyped
    BY DEF TypeInv
<1>1. run.phase \in {"load", "bytes", "parts"} /\ run.adapter \in Adapters
      /\ Position(run.cursor) \in Nat
    BY <1>0, RunCases, PositionTyped
    DEF Reading, LoadHermes, LoadOpenCode, LoadParts, Stat, ReadFile, Running
<1>2. ASSUME LoadHermes
      PROVE  SameImport /\ run'.phase \in {"bytes", "parts", "emit"} /\ TakesRows
    <2> DEFINE position == Position(run.cursor)
               batch == FirstOf(Newer(run.adapter, position))
               end == LastKey(batch, position)
    <2>1. run' = LoadedBatch(run, PartsIn(batch), [native |-> end, stamp |-> None], FALSE)
        BY <1>2 DEF LoadHermes
    <2>2. run.phase = "load" /\ ~IsFile(run.adapter)
        BY <1>2 DEF LoadHermes, IsFile
    <2> HIDE DEF batch, end
    <2>3. SameImport /\ run'.phase = "emit" /\ run'.items = PartsIn(batch) /\ run'.todo = {}
          /\ run'.outcome.native = end /\ run'.outcome.stamp = None /\ run'.cut = FALSE
        BY <2>1 DEF LoadedBatch, SameImport
    <2>4. Takes(position, batch)
        BY <1>1, <2>3 DEF Takes, batch, end
    <2> QED BY <2>2, <2>3, <2>4 DEF TakesRows
<1>3. ASSUME LoadOpenCode
      PROVE  SameImport /\ run'.phase \in {"bytes", "parts", "emit"} /\ TakesRows
    <2> DEFINE position == Position(run.cursor)
               batch == FirstOf(Newer(run.adapter, position))
               end == LastKey(batch, position)
               loaded == LoadedBatch(run, {}, [native |-> end, stamp |-> None], FALSE)
    <2>1. run' = [loaded EXCEPT !.phase = IF batch = {} THEN "emit" ELSE "parts", !.todo = Keys(batch)]
        BY <1>3 DEF LoadOpenCode
    <2>2. run.phase = "load" /\ ~IsFile(run.adapter) /\ Format[run.adapter] = "opencode"
        BY <1>3 DEF LoadOpenCode, IsFile
    <2> HIDE DEF batch, end
    <2>3. SameImport /\ run'.phase = (IF batch = {} THEN "emit" ELSE "parts")
          /\ run'.items = {} /\ run'.todo = Keys(batch)
          /\ run'.outcome.native = end /\ run'.outcome.stamp = None /\ run'.cut = FALSE
        BY <2>1 DEF LoadedBatch, SameImport
    <2>4. batch = {} => Keys(batch) = {} /\ PartsIn(batch) = {}
        BY DEF Keys, PartsIn
    <2>5. Takes(position, batch)
        <3>1. CASE batch = {}
            <4>1. run'.phase = "emit" /\ run'.items = PartsIn(batch) /\ run'.todo = {}
                BY <2>3, <2>4, <3>1
            <4> QED BY <1>1, <2>3, <4>1 DEF Takes, batch, end
        <3>2. CASE batch # {}
            <4>1. run'.phase = "parts"
                BY <2>3, <3>2
            <4> QED BY <1>1, <2>2, <2>3, <4>1 DEF Takes, batch, end
        <3> QED BY <3>1, <3>2
    <2>6. run'.phase \in {"parts", "emit"}
        BY <2>3
    <2> QED BY <2>2, <2>3, <2>5, <2>6 DEF TakesRows
<1>4. ASSUME LoadParts
      PROVE  SameImport /\ run'.phase \in {"bytes", "parts", "emit"} /\ TakesParts
    <2>1. run \in BatchOf(run.adapter) /\ run.phase = "parts"
        BY <1>0, <1>4, RunCases DEF LoadParts, Batching
    <2>2. PICK m \in log[run.adapter] :
            /\ m.key \in run.todo
            /\ run' = [run EXCEPT !.items = @ \cup PartsOf(m), !.todo = @ \ {m.key},
                                  !.phase = IF run.todo = {m.key} THEN "emit" ELSE "parts"]
        BY <1>4 DEF LoadParts
    <2>3. /\ SameImport /\ run'.items = run.items \cup PartsOf(m) /\ run'.todo = run.todo \ {m.key}
          /\ run'.phase = (IF run.todo = {m.key} THEN "emit" ELSE "parts")
          /\ run'.outcome = run.outcome /\ run'.cut = run.cut
        BY <2>1, <2>2 DEF BatchOf, SameImport
    <2>4. run'.phase \in {"parts", "emit"} /\ (run'.phase = "emit" => run'.todo = {})
        BY <2>3
    <2> QED BY <2>1, <2>2, <2>3, <2>4 DEF TakesParts
<1>5. ASSUME Stat
      PROVE  SameImport /\ run'.phase \in {"bytes", "parts", "emit"} /\ (Looks \/ Skips)
    <2>1. run.phase = "load" /\ IsFile(run.adapter)
        BY <1>5 DEF Stat, IsFile
    <2>2. CASE run.cursor.stamp = stamp[run.adapter]
        BY <1>5, <2>1, <2>2 DEF Stat, LoadedBatch, SameImport, Skips
    <2>3. CASE run.cursor.stamp # stamp[run.adapter]
        BY <1>5, <2>1, <2>3 DEF Stat, SameImport, Looks
    <2> QED BY <2>2, <2>3
<1>6. ASSUME ReadFile
      PROVE  SameImport /\ run'.phase \in {"bytes", "parts", "emit"} /\ TakesFile
    <2> DEFINE start == StartIndex(Position(run.cursor), log[run.adapter])
               batch == FirstOf(Newer(run.adapter, start))
               end == LastKey(batch, start)
    <2>1. run' = LoadedBatch(run, PartsIn(batch), [native |-> end, stamp |-> run.stamp],
                             Newer(run.adapter, end) # {})
        BY <1>6 DEF ReadFile
    <2>2. run.phase = "bytes" /\ start \in Nat
        BY <1>1, <1>6 DEF ReadFile, StartIndex
    <2> HIDE DEF start, batch, end
    <2>3. SameImport /\ run'.phase = "emit" /\ run'.items = PartsIn(batch) /\ run'.todo = {}
          /\ run'.outcome.native = end /\ run'.outcome.stamp = run.stamp
          /\ (run'.cut <=> Newer(run.adapter, end) # {})
        BY <2>1 DEF LoadedBatch, SameImport
    <2>4. Takes(start, batch)
        BY <2>2, <2>3 DEF Takes, batch, end
    <2> QED BY <2>2, <2>3, <2>4 DEF TakesFile, start
<1> QED BY <1>1, <1>2, <1>3, <1>4, <1>5, <1>6 DEF Reading

\* The steps of the sink keep the batch but for what was emitted.
LEMMA SinkFields ==
    ASSUME TypeInv, TargetInv, FindSession \/ UpsertSession \/ Emit
    PROVE  /\ run'.outcome = run.outcome /\ run'.todo = run.todo /\ run'.cut = run.cut
           /\ run'.adapter = run.adapter /\ run'.by = run.by /\ run'.cursor = run.cursor
           /\ run.phase \in {"emit", "upsert"} /\ run'.phase \in {"emit", "upsert"}
           /\ run.adapter \in Adapters /\ run'.items \subseteq run.items
           /\ UNCHANGED <<cursor, agentVars, history, cut, asked>>
<1>0. /\ run.phase \in {"emit", "upsert"}
      /\ UNCHANGED <<cursor, agentVars, history, cut, asked>>
    BY DEF FindSession, UpsertSession, Emit, storeVars
<1>1. run.adapter \in Adapters
    BY <1>0, RunCases DEF TypeInv, Running
<1>2. CASE FindSession
    <2>1. /\ run'.phase = "upsert" /\ run'.adapter = run.adapter
          /\ run'.by = run.by /\ run'.cursor = run.cursor /\ run'.items = run.items
          /\ run'.todo = run.todo /\ run'.outcome = run.outcome /\ run'.cut = run.cut
        BY <1>2, FindTyped
    <2> QED BY <1>0, <1>1, <2>1
<1>3. CASE UpsertSession
    <2>1. /\ run'.phase = "emit" /\ run'.adapter = run.adapter /\ run'.by = run.by
          /\ run'.cursor = run.cursor /\ run'.items = run.items /\ run'.todo = run.todo
          /\ run'.outcome = run.outcome /\ run'.cut = run.cut
        BY <1>3, UpsertTyped
    <2> QED BY <1>0, <1>1, <2>1
<1>4. CASE Emit
    <2>1. /\ run'.phase = "emit" /\ run'.adapter = run.adapter /\ run'.by = run.by
          /\ run'.cursor = run.cursor /\ run'.todo = run.todo
          /\ run'.outcome = run.outcome /\ run'.cut = run.cut /\ run'.items \subseteq run.items
        BY <1>4, EmitTyped
    <2> QED BY <1>0, <1>1, <2>1
<1> QED BY <1>2, <1>3, <1>4

\* A run starts with the saved cursor and no session.
LEMMA StartFields ==
    ASSUME Starts
    PROVE  /\ run'.phase = "load" /\ run'.adapter \in Adapters
           /\ run'.cursor = cursor[run'.adapter] /\ run'.ensured = [s \in SessionIds |-> None]
BY DEF Starts, NewRun

\* The import ends without saving, or another part of the daemon goes on.
LEMMA QuitFields ==
    ASSUME Quits
    PROVE  /\ UNCHANGED <<sessions, events, cursor, agentVars, cut, asked>>
           /\ run' = run \/ run'.phase = "idle"
BY DEF Quits, NoRun, storeVars

-----------------------------------------------------------------------------
(* Cursors, revisions *)

\* Cursors are never of a later file than there is.
LEMMA CursorStep ==
    ASSUME TypeInv, LogInv, TargetInv, CursorInv, [Next]_vars
    PROVE  CursorInv'
<1> DEFINE SavedOK(a) ==
             /\ IsFile(a) => cursor[a].stamp = None \/ cursor[a].stamp <= stamp[a]
             /\ ~IsFile(a) => a \notin cut
           RunOK ==
             /\ Running => run.cursor = cursor[run.adapter]
             /\ run.phase = "bytes" => IsFile(run.adapter) /\ run.stamp <= stamp[run.adapter]
             /\ Batching =>
                  /\ IsFile(run.adapter) =>
                       run.outcome.stamp = None \/ run.outcome.stamp <= stamp[run.adapter]
                  /\ run.cut => IsFile(run.adapter)
                  /\ run.phase = "parts" => Format[run.adapter] = "opencode"
                  /\ run.phase # "parts" => run.todo = {}
<1>0. (\A a \in Adapters : SavedOK(a)) /\ RunOK
    BY DEF CursorInv
<1>1. SUFFICES (\A a \in Adapters : SavedOK(a)') /\ RunOK'
    BY DEF CursorInv, IsFile
<1>2. \A a \in Adapters : stamp[a] \in Nat
    BY DEF TypeInv, AgentsTyped
<1>3. ASSUME UNCHANGED <<cursor, stamp, cut>> PROVE \A a \in Adapters : SavedOK(a)'
    BY <1>0, <1>3 DEF IsFile
<1>4. CASE Reading
    <2>1. /\ UNCHANGED <<cursor, stamp, cut>>
        BY <1>4, ReadingLeaves DEF storeVars, agentVars
    <2>2. /\ run'.adapter = run.adapter /\ run'.cursor = run.cursor
          /\ run.phase \in {"load", "bytes", "parts"} /\ run.adapter \in Adapters
          /\ run'.phase \in {"bytes", "parts", "emit"}
          /\ Looks \/ Skips \/ TakesRows \/ TakesFile \/ TakesParts
        BY <1>4, ReadingFields DEF SameImport
    <2>3. run'.cursor = cursor'[run'.adapter]
        BY <1>0, <2>1, <2>2 DEF Running
    <2>4. CASE Looks
        BY <1>2, <1>3, <2>1, <2>2, <2>3, <2>4 DEF Looks, Batching, IsFile
    <2>5. CASE Skips
        <3>1. /\ run'.outcome.stamp = stamp[run.adapter] /\ run'.phase = "emit"
              /\ run'.todo = {} /\ IsFile(run.adapter)
            BY <2>5 DEF Skips
        <3>2. RunOK'
            BY <1>2, <2>1, <2>2, <2>3, <3>1 DEF Batching, IsFile
        <3> QED BY <1>3, <2>1, <3>2
    <2>6. CASE TakesRows
        BY <1>3, <2>1, <2>2, <2>3, <2>6 DEF TakesRows, Takes, Batching, IsFile
    <2>7. CASE TakesFile
        BY <1>0, <1>3, <2>1, <2>2, <2>3, <2>7 DEF TakesFile, Takes, Batching, IsFile
    <2>8. CASE TakesParts
        <3>1. Batching
            BY <2>8 DEF TakesParts, Batching
        <3> QED BY <1>0, <1>3, <2>1, <2>2, <2>3, <2>8, <3>1 DEF TakesParts, Batching, IsFile
    <2> QED BY <2>2, <2>4, <2>5, <2>6, <2>7, <2>8
<1>5. CASE FindSession \/ UpsertSession \/ Emit
    BY <1>0, <1>3, <1>5, SinkFields DEF agentVars, Batching, Running, IsFile
<1>6. CASE SaveCursor
    <2>1. /\ run.adapter \in Adapters /\ run.phase = "emit"
          /\ cursor' = [cursor EXCEPT ![run.adapter] = run.outcome]
          /\ cut' = IF run.cut THEN cut \cup {run.adapter} ELSE cut \ {run.adapter}
          /\ \/ run'.phase = "idle"
             \/ run'.phase = "load" /\ run'.adapter = run.adapter /\ run'.cursor = run.outcome
          /\ stamp' = stamp
        BY <1>6, SaveLeaves DEF agentVars, NoRun
    <2>2. cursor \in [Adapters -> Cursor]
        BY DEF TypeInv, StoreTyped
    <2>3. ASSUME NEW a \in Adapters PROVE SavedOK(a)'
        BY <1>0, <2>1, <2>2, <2>3 DEF Batching, IsFile
    <2>4. RunOK'
        BY <2>1, <2>2 DEF Running, Batching
    <2> QED BY <2>3, <2>4
<1>7. CASE Quits
    BY <1>0, <1>3, <1>7, QuitFields DEF agentVars, Running, Batching, IsFile
<1>8. CASE Starts
    <2>1. UNCHANGED <<cursor, stamp, cut>>
        BY <1>8 DEF Starts, storeVars, agentVars
    <2> QED BY <1>3, <1>8, <2>1, StartFields DEF Running, Batching
<1>9. CASE StartHistory \/ Wraps \/ \E n \in Native : MoveHome(n)
    <2>1. UNCHANGED <<cursor, stamp, cut, run>>
        BY <1>9 DEF StartHistory, Wraps, Prepare, Complete, MoveHome, storeVars, agentVars
    <2> QED BY <1>0, <1>3, <2>1 DEF Running, Batching, IsFile
<1>10. CASE \E a, messages : AgentWrites(a, messages)
    <2>1. PICK b, messages : AgentWrites(b, messages)
        BY <1>10
    <2>2. /\ b \in Adapters /\ stamp' = [stamp EXCEPT ![b] = @ + 1]
          /\ UNCHANGED <<cursor, cut, run>>
        BY <2>1 DEF AgentWrites, Written, storeVars, TypeInv, AgentsTyped
    <2>3. stamp \in [Adapters -> Nat]
        BY DEF TypeInv, AgentsTyped
    <2>4. \A a \in Adapters : stamp[a] <= stamp'[a] /\ stamp'[a] \in Nat
        BY <2>2, <2>3
    <2>5. \A a \in Adapters : cursor[a].stamp \in Nat \cup {None}
        BY DEF TypeInv, StoreTyped, Cursor
    <2>6. ASSUME NEW a \in Adapters PROVE SavedOK(a)'
        BY <1>0, <2>2, <2>3, <2>4, <2>5 DEF IsFile
    <2>7. Running => run.adapter \in Adapters
        BY RunCases DEF TypeInv
    <2>8. run.phase = "bytes" => run.stamp \in Nat
        BY RunCases DEF TypeInv, ReadingRun
    <2>9. Batching => run.outcome.stamp \in Nat \cup {None}
        BY RunCases DEF TypeInv, BatchOf, Cursor
    <2>10. RunOK'
        BY <1>0, <1>2, <2>2, <2>4, <2>7, <2>8, <2>9 DEF Running, Batching, IsFile
    <2> QED BY <2>6, <2>10
<1> QED BY <1>4, <1>5, <1>6, <1>7, <1>8, <1>9, <1>10, StepKinds

\* A part of a source is one of the message with its key.
LEMMA PartOfMessage ==
    ASSUME AgentsTyped, NEW a \in Adapters, NEW p \in Parts(a)
    PROVE  /\ \E m \in log[a] : /\ m.key = p.key /\ m.session = p.session /\ m.rev = p.rev
                                /\ p.part \in 0..m.parts
           /\ p \in PartOf(a) /\ p.key \in 1..MaxKey /\ p.rev \in Nat
<1>1. log[a] \in SUBSET MessageOf(a)
    BY DEF AgentsTyped
<1>2. p \in PartOf(a) /\ \E m \in log[a] :
        m.key = p.key /\ m.session = p.session /\ m.rev = p.rev /\ p.part \in 0..m.parts
    BY <1>1, PartsTyped DEF Parts
<1> QED BY <1>2 DEF PartOf

\* Of what was asked for, a write leaves what is there as it was.
LEMMA AskedAfterWrite ==
    ASSUME TypeInv, LogInv, NEW a \in Adapters, NEW messages, AgentWrites(a, messages),
           NEW p \in asked[a], p \in PartsIn(messages)
    PROVE  /\ p \in Parts(a)
           /\ \A l \in log[a] : \E m \in messages : l.key = m.key
<1>1. messages \in SUBSET MessageOf(a) /\ log[a] \in SUBSET MessageOf(a) /\ a \in Adapters
    BY DEF AgentWrites, Grown, TypeInv, AgentsTyped
<1>2. PICK m \in messages :
        m.key = p.key /\ m.session = p.session /\ m.rev = p.rev /\ p.part \in 0..m.parts
    BY <1>1, PartsTyped
<1>3. RevOK(a, p.rev) /\ stamp[a] \in Nat
    BY <1>1 DEF LogInv, TypeInv, AgentsTyped
<1>4. p \in Parts(a) \/ (IsFile(a) /\ \A l \in log[a] : l.key = p.key => l.rev # p.rev)
    BY <1>1 DEF LogInv
<1>5. IsFile(a) => m.rev # stamp[a] /\ m.rev < stamp[a]
    <2>1. m.rev \in Nat
        BY <1>1 DEF MessageOf
    <2> QED BY <1>2, <1>3, <2>1 DEF RevOK
<1>6. p \in Parts(a)
    <2>1. CASE \E l \in log[a] : l.key = m.key /\ l.rev = m.rev
        BY <1>2, <1>4, <2>1
    <2>2. CASE IsFile(a) /\ m.rev = stamp[a]
        BY <1>5, <2>2
    <2>3. CASE ~IsFile(a) /\ m.key \notin Keys(log[a])
        BY <1>4, <2>3
    <2> QED BY <2>1, <2>2, <2>3 DEF AgentWrites, Grown
<1>7. ~IsFile(a) \/ \E x \in messages : x.rev # stamp[a]
    BY <1>5
<1>8. \A l \in log[a] : \E x \in messages : l.key = x.key
    BY <1>7 DEF AgentWrites, Grown
<1> QED BY <1>6, <1>8

\* Keys name one message, and what was asked for is there or was replaced.
LEMMA LogStep ==
    ASSUME TypeInv, LogInv, TargetInv, [Next]_vars
    PROVE  LogInv'
<1> DEFINE OK(a) ==
        /\ \A l, m \in log[a] : l.key = m.key => l = m
        /\ \A m \in log[a] : RevOK(a, m.rev)
        /\ \A p \in asked[a] : RevOK(a, p.rev)
        /\ \A p \in asked[a] : p \in Parts(a)
             \/ (IsFile(a) /\ \A m \in log[a] : m.key = p.key => m.rev # p.rev)
<1>0. AgentsTyped /\ \A a \in Adapters : OK(a)
    BY DEF LogInv, TypeInv
<1>1. SUFFICES ASSUME NEW a \in Adapters PROVE OK(a)'
    BY DEF LogInv, RevOK, IsFile, Parts, PartsIn
<1>2. CASE UNCHANGED <<log, stamp, asked>>
    BY <1>0, <1>2 DEF RevOK, IsFile, Parts, PartsIn
<1>3. CASE StartHistory
    <2>1. log' = log /\ stamp' = stamp /\ asked'[a] \subseteq Parts(a)
        BY <1>3 DEF StartHistory, agentVars
    <2>2. ASSUME NEW p \in Parts(a) PROVE RevOK(a, p.rev)
        BY <1>0, <2>2, PartOfMessage
    <2> QED BY <1>0, <2>1, <2>2 DEF RevOK, IsFile, Parts, PartsIn
<1>4. CASE \E b, messages : AgentWrites(b, messages)
    <2>1. PICK b, messages : AgentWrites(b, messages)
        BY <1>4
    <2>2. /\ b \in Adapters /\ stamp' = [stamp EXCEPT ![b] = @ + 1]
          /\ log' = [log EXCEPT ![b] = messages] /\ asked' = asked
          /\ messages \in SUBSET MessageOf(b)
        BY <1>0, <2>1 DEF AgentWrites, Written, Grown, AgentsTyped
    <2>3. CASE a # b
        <3>1. log'[a] = log[a] /\ stamp'[a] = stamp[a]
            BY <1>0, <2>2, <2>3 DEF AgentsTyped
        <3> QED BY <1>0, <2>2, <3>1 DEF RevOK, IsFile, Parts, PartsIn
    <2>4. CASE a = b
        <3>1. /\ log'[a] = messages /\ stamp'[a] = stamp[a] + 1 /\ stamp[a] \in Nat
              /\ Parts(a)' = PartsIn(messages)
            BY <1>0, <2>2, <2>4 DEF AgentsTyped, Parts, PartsIn
        <3>2. \A l, m \in messages : l.key = m.key => l = m
            BY <2>1, <2>4 DEF AgentWrites, Grown
        <3>3. ASSUME NEW m \in messages PROVE RevOK(a, m.rev)'
            <4>1. m.rev \in Nat
                BY <2>2 DEF MessageOf
            <4>2. CASE \E l \in log[a] : l.rev = m.rev
                BY <1>0, <3>1, <4>1, <4>2 DEF RevOK, IsFile
            <4>3. CASE IF IsFile(a) THEN m.rev = stamp[a] ELSE m.rev = 0
                BY <3>1, <4>1, <4>3 DEF RevOK, IsFile
            <4> QED BY <2>1, <2>4, <4>2, <4>3 DEF AgentWrites, Grown
        <3>4. ASSUME NEW p \in asked[a] PROVE RevOK(a, p.rev)'
            <4>1. p.rev \in Nat
                BY <1>0 DEF AgentsTyped, PartOf
            <4>2. RevOK(a, p.rev)
                BY <1>0
            <4> QED BY <3>1, <4>1, <4>2 DEF RevOK, IsFile
        <3>5. ASSUME NEW p \in asked[a]
              PROVE  p \in PartsIn(messages)
                     \/ (IsFile(a) /\ \A m \in messages : m.key = p.key => m.rev # p.rev)
            <4>1. p.rev \in Nat /\ RevOK(a, p.rev) /\ p \in PartOf(a)
                BY <1>0 DEF AgentsTyped, PartOf
            <4>2. CASE p \in Parts(a) /\ \A l \in log[a] : \E m \in messages :
                         l.key = m.key /\ l.session = m.session /\ l.rev = m.rev /\ l.parts <= m.parts
                <5>1. PICK l \in log[a] : /\ l.key = p.key /\ l.session = p.session
                                          /\ l.rev = p.rev /\ p.part \in 0..l.parts
                    BY <1>0, <4>2, PartOfMessage
                <5>2. PICK m \in messages :
                        l.key = m.key /\ l.session = m.session /\ l.rev = m.rev /\ l.parts <= m.parts
                    BY <4>2
                <5>3. l.parts \in Nat /\ m.parts \in Nat
                    BY <1>0, <2>2, <2>4, NativeAssumption DEF AgentsTyped, MessageOf
                <5>4. p.part \in 0..m.parts
                    BY <5>1, <5>2, <5>3
                <5>5. p = [key |-> m.key, part |-> p.part, session |-> m.session, rev |-> m.rev]
                    BY <4>1, <5>1, <5>2 DEF PartOf
                <5> QED BY <2>2, <2>4, <5>4, <5>5, PartsTyped
            <4>3. CASE IsFile(a) /\ \A m \in messages : m.rev = stamp[a]
                BY <3>1, <4>1, <4>3 DEF RevOK
            <4>4. CASE IsFile(a) /\ \A l \in log[a] : l.key = p.key => l.rev # p.rev
                <5>1. ASSUME NEW m \in messages, m.key = p.key PROVE m.rev # p.rev
                    <6>1. CASE \E l \in log[a] : l.key = m.key /\ l.rev = m.rev
                        BY <4>4, <5>1, <6>1
                    <6>2. CASE m.rev = stamp[a]
                        BY <3>1, <4>1, <4>4, <6>2 DEF RevOK
                    <6> QED BY <2>1, <2>4, <4>4, <6>1, <6>2 DEF AgentWrites, Grown
                <5> QED BY <4>4, <5>1
            <4>5. \/ IsFile(a) /\ \A m \in messages : m.rev = stamp[a]
                  \/ \A l \in log[a] : \E m \in messages :
                         l.key = m.key /\ l.session = m.session /\ l.rev = m.rev /\ l.parts <= m.parts
                BY <2>1, <2>4 DEF AgentWrites, Grown
            <4> QED BY <1>0, <4>2, <4>3, <4>4, <4>5
        <3>6. asked'[a] = asked[a]
            BY <2>2
        <3> QED BY <3>1, <3>2, <3>3, <3>4, <3>5, <3>6 DEF IsFile
    <2> QED BY <2>3, <2>4
<1>5. Reading \/ SaveCursor \/ Quits \/ Starts => UNCHANGED <<log, stamp, asked>>
    BY ReadingLeaves DEF SaveCursor, Quits, Starts, agentVars
<1>6. FindSession \/ UpsertSession \/ Emit => UNCHANGED <<log, stamp, asked>>
    BY DEF FindSession, UpsertSession, Emit, agentVars
<1>7. Wraps \/ (\E n \in Native : MoveHome(n)) => UNCHANGED <<log, stamp, asked>>
    BY DEF Wraps, Prepare, Complete, MoveHome, agentVars
<1> QED BY <1>2, <1>3, <1>4, <1>5, <1>6, <1>7, StepKinds

\* A write leaves no message of an earlier revision than was read.
LEMMA RevisionAfterWrite ==
    ASSUME TypeInv, LogInv, NEW a \in Adapters, NEW messages, AgentWrites(a, messages),
           NEW rev \in Nat, RevOK(a, rev), NEW key, \A m \in log[a] : key = m.key => rev <= m.rev
    PROVE  RevOK(a, rev)' /\ \A m \in messages : key = m.key => rev <= m.rev
<1>1. stamp'[a] = stamp[a] + 1 /\ stamp[a] \in Nat
    BY DEF AgentWrites, Written, TypeInv, AgentsTyped
<1>2. RevOK(a, rev)'
    BY <1>1 DEF RevOK, IsFile
<1>3. ASSUME NEW m \in messages, key = m.key PROVE rev <= m.rev
    <2>1. CASE \E l \in log[a] : l.key = m.key /\ l.rev = m.rev
        BY <1>3, <2>1
    <2>2. CASE IsFile(a) /\ m.rev = stamp[a]
        BY <1>1, <2>2 DEF RevOK
    <2>3. CASE ~IsFile(a) /\ m.rev = 0
        BY <2>3 DEF RevOK
    <2> QED BY <2>1, <2>2, <2>3 DEF AgentWrites, Grown
<1> QED BY <1>2, <1>3

\* What a write changes and what not.
LEMMA WriteFields ==
    ASSUME TypeInv, NEW a, NEW messages, AgentWrites(a, messages)
    PROVE  /\ a \in Adapters /\ messages \in SUBSET MessageOf(a)
           /\ log' = [log EXCEPT ![a] = messages] /\ stamp' = [stamp EXCEPT ![a] = @ + 1]
           /\ log'[a] = messages /\ stamp'[a] = stamp[a] + 1
           /\ Parts(a)' = PartsIn(messages)
           /\ \A b \in Adapters \ {a} : /\ log'[b] = log[b] /\ stamp'[b] = stamp[b]
                                        /\ Parts(b)' = Parts(b)
           /\ UNCHANGED <<storeVars, installed, home, run, history, cut, moved, asked>>
           /\ late \subseteq late'
<1>1. a \in Adapters /\ messages \in SUBSET MessageOf(a)
    BY DEF AgentWrites, Grown, TypeInv, AgentsTyped
<1>2. /\ log' = [log EXCEPT ![a] = messages] /\ stamp' = [stamp EXCEPT ![a] = @ + 1]
      /\ UNCHANGED <<storeVars, installed, home, run, history, cut, moved, asked>>
      /\ late \subseteq late'
    BY DEF AgentWrites, Written
<1>3. log \in [Adapters -> SUBSET Message] /\ stamp \in [Adapters -> Nat]
    BY DEF TypeInv, AgentsTyped
<1>4. log'[a] = messages /\ stamp'[a] = stamp[a] + 1
      /\ \A b \in Adapters \ {a} : log'[b] = log[b] /\ stamp'[b] = stamp[b]
    BY <1>1, <1>2, <1>3
<1> QED BY <1>1, <1>2, <1>4 DEF Parts, PartsIn

\* What is stored is not newer than what the source has under its key.
LEMMA EventStep ==
    ASSUME TypeInv, LogInv, TargetInv, EventInv, ItemInv, [Next]_vars
    PROVE  EventInv'
<1> DEFINE OK(a, e) ==
        /\ RevOK(a, e.rev)
        /\ \A m \in log[a] : e.key = m.key => e.rev <= m.rev
<1>0. \A a \in Adapters : \A e \in events[a] : OK(a, e)
    BY DEF EventInv
<1>1. SUFFICES ASSUME NEW a \in Adapters, NEW e \in events'[a] PROVE OK(a, e)'
    BY DEF EventInv, RevOK, IsFile
<1>2. CASE UNCHANGED <<log, stamp, events>>
    BY <1>0, <1>2 DEF RevOK, IsFile
<1>3. CASE Emit
    <2>1. PICK item \in run.items, s \in SessionIds :
            events' = [events EXCEPT ![run.adapter] =
                   {d \in @ : ~SameSource(d, item)}
                      \cup {[key |-> item.key, part |-> item.part, session |-> item.session,
                             rev |-> item.rev, row |-> s]}]
        BY <1>3, EmitTyped
    <2>2. UNCHANGED <<log, stamp>>
        BY <1>3 DEF Emit, agentVars
    <2>3. run.adapter \in Adapters /\ Batching
        BY <1>3, RunCases DEF Emit, TypeInv, Running, Batching
    <2>4. events \in [Adapters -> SUBSET Event]
        BY DEF TypeInv, StoreTyped
    <2>5. CASE e \in events[a]
        BY <1>0, <2>2, <2>5 DEF RevOK, IsFile
    <2>6. CASE a = run.adapter /\ e.rev = item.rev /\ e.key = item.key
        BY <2>2, <2>3, <2>6 DEF ItemInv, RevOK, IsFile
    <2> QED BY <2>1, <2>3, <2>4, <2>5, <2>6
<1>4. CASE \E b, messages : AgentWrites(b, messages)
    <2>1. PICK b, messages : AgentWrites(b, messages)
        BY <1>4
    <2>2. events' = events /\ b \in Adapters /\ log'[b] = messages
        BY <2>1, WriteFields DEF storeVars
    <2>3. e.rev \in Nat
        BY <2>2 DEF TypeInv, StoreTyped, EventOf
    <2>4. CASE a = b
        <3>1. RevOK(b, e.rev) /\ \A m \in log[b] : e.key = m.key => e.rev <= m.rev
            BY <1>0, <2>2, <2>4
        <3>2. PICK rev \in Nat, key \in {e.key} : rev = e.rev
            BY <2>3
        <3>3. RevOK(b, rev) /\ \A m \in log[b] : key = m.key => rev <= m.rev
            BY <3>1, <3>2
        <3>4. RevOK(b, rev)' /\ \A m \in messages : key = m.key => rev <= m.rev
            BY <2>1, <2>2, <3>3, RevisionAfterWrite
        <3>5. RevOK(a, e.rev)' /\ \A m \in messages : e.key = m.key => e.rev <= m.rev
            BY <2>4, <3>2, <3>4 DEF RevOK, IsFile
        <3> QED BY <2>2, <2>4, <3>5
    <2>5. CASE a # b
        <3>1. log'[a] = log[a] /\ stamp'[a] = stamp[a]
            BY <2>1, <2>5, WriteFields
        <3> QED BY <1>0, <2>2, <3>1 DEF RevOK, IsFile
    <2> QED BY <2>4, <2>5
<1>5. Reading \/ SaveCursor \/ Quits \/ Starts \/ StartHistory => UNCHANGED <<log, stamp, events>>
    BY ReadingLeaves DEF SaveCursor, Quits, Starts, StartHistory, agentVars, storeVars
<1>6. FindSession \/ UpsertSession => UNCHANGED <<log, stamp, events>>
    BY DEF FindSession, UpsertSession, agentVars, storeVars
<1>7. Wraps \/ (\E n \in Native : MoveHome(n)) => UNCHANGED <<log, stamp, events>>
    BY DEF Wraps, Prepare, Complete, MoveHome, agentVars, storeVars
<1> QED BY <1>2, <1>3, <1>4, <1>5, <1>6, <1>7, StepKinds

\* What the run has in hand is neither newer than the source nor older than the store.
LEMMA ItemStep ==
    ASSUME TypeInv, LogInv, TargetInv, CursorInv, EventInv, ItemInv, [Next]_vars
    PROVE  ItemInv'
<1> DEFINE a == run.adapter
           OK(p) ==
             /\ RevOK(a, p.rev)
             /\ \A m \in log[a] : p.key = m.key => p.rev <= m.rev
             /\ \A e \in events[a] : SameSource(e, p) => e.rev <= p.rev
             /\ \A q \in run.items : p.key = q.key => p.rev = q.rev
<1>0. Batching => \A p \in run.items : OK(p)
    BY DEF ItemInv
<1>1. CASE ~Batching'
    BY <1>1 DEF ItemInv
<1>2. CASE UNCHANGED <<run, log, stamp, events>>
    BY <1>2 DEF ItemInv, RevOK, IsFile, Batching, SameSource
<1>3. CASE Reading
    <2>1. /\ UNCHANGED <<log, stamp, events>> /\ run'.adapter = a /\ a \in Adapters
          /\ Looks \/ Skips \/ TakesRows \/ TakesFile \/ TakesParts
        BY <1>3, ReadingLeaves, ReadingFields DEF SameImport, storeVars, agentVars
    <2>2. AgentsTyped
        BY DEF TypeInv
    <2>3. ASSUME NEW p \in Parts(a)
          PROVE  /\ RevOK(a, p.rev)
                 /\ \A m \in log[a] : p.key = m.key => p.rev <= m.rev
                 /\ \A e \in events[a] : SameSource(e, p) => e.rev <= p.rev
                 /\ \A q \in Parts(a) : p.key = q.key => p.rev = q.rev
        <3>1. PICK m \in log[a] : m.key = p.key /\ m.rev = p.rev
            BY <2>1, <2>2, PartOfMessage
        <3>2. \A l \in log[a] : l.key = m.key => l = m
            BY <2>1 DEF LogInv
        <3>3. RevOK(a, p.rev) /\ p.rev \in Nat
            BY <2>1, <2>2, <3>1, PartOfMessage DEF LogInv
        <3>4. \A e \in events[a] : e.key = m.key => e.rev <= m.rev
            BY <2>1 DEF EventInv
        <3>5. ASSUME NEW q \in Parts(a), p.key = q.key PROVE p.rev = q.rev
            <4>1. PICK l \in log[a] : l.key = q.key /\ l.rev = q.rev
                BY <2>1, <2>2, PartOfMessage
            <4> QED BY <3>1, <3>2, <3>5, <4>1
        <3>6. \A l \in log[a] : p.key = l.key => p.rev <= l.rev
            BY <3>1, <3>2, <3>3
        <3>7. \A e \in events[a] : SameSource(e, p) => e.rev <= p.rev
            BY <3>1, <3>4 DEF SameSource
        <3> QED BY <3>3, <3>5, <3>6, <3>7
    <2>4. ASSUME run'.items \subseteq Parts(a) PROVE ItemInv'
        BY <2>1, <2>3, <2>4 DEF ItemInv, RevOK, IsFile, SameSource
    <2>5. CASE Looks
        BY <1>1, <2>5 DEF Looks, Batching
    <2>6. CASE Skips
        BY <2>4, <2>6 DEF Skips
    <2>7. ASSUME NEW start, NEW batch, Takes(start, batch) PROVE run'.items \subseteq Parts(a)
        <3>1. start \in Nat /\ batch = FirstOf(Newer(a, start)) /\ run'.items \subseteq PartsIn(batch)
            BY <2>7 DEF Takes
        <3>2. PartsIn(batch) \subseteq Parts(a)
            BY <2>1, <2>2, <3>1, NewerFacts
        <3> QED BY <3>1, <3>2
    <2>8. CASE TakesRows \/ TakesFile
        BY <2>4, <2>7, <2>8 DEF TakesRows, TakesFile
    <2>9. CASE TakesParts
        <3>1. Batching /\ ~IsFile(a)
            BY <2>9 DEF TakesParts, Batching, CursorInv, IsFile
        <3>2. PICK m \in log[a] : run'.items = run.items \cup PartsOf(m)
            BY <2>9 DEF TakesParts
        <3>3. PartsOf(m) \subseteq Parts(a)
            BY DEF Parts, PartsIn
        <3>4. \A p \in run'.items : p.rev = 0
            BY <1>0, <2>3, <3>1, <3>2, <3>3 DEF RevOK
        <3>5. (\A e \in events[a] : e.rev = 0) /\ (\A l \in log[a] : l.rev = 0)
            BY <2>1, <3>1 DEF LogInv, EventInv, RevOK
        <3> QED BY <2>1, <3>1, <3>4, <3>5 DEF ItemInv, RevOK, IsFile
    <2> QED BY <2>1, <2>5, <2>6, <2>8, <2>9
<1>4. CASE FindSession \/ UpsertSession
    <2>1. /\ UNCHANGED <<log, stamp, events>> /\ run'.adapter = a /\ run'.items \subseteq run.items
          /\ run.phase \in {"emit", "upsert"}
        BY <1>4, SinkFields DEF agentVars, FindSession, UpsertSession, storeVars
    <2> QED BY <1>0, <2>1 DEF ItemInv, RevOK, IsFile, Batching, SameSource
<1>5. CASE Emit
    <2>1. PICK item \in run.items, s \in SessionIds :
            /\ events' = [events EXCEPT ![run.adapter] =
                   {d \in @ : ~SameSource(d, item)}
                      \cup {[key |-> item.key, part |-> item.part, session |-> item.session,
                             rev |-> item.rev, row |-> s]}]
            /\ item \in PartOf(a)
        BY <1>5, EmitTyped
    <2>2. /\ UNCHANGED <<log, stamp>> /\ run'.adapter = a /\ run'.items \subseteq run.items
          /\ run.phase = "emit" /\ a \in Adapters
        BY <1>5, SinkFields DEF agentVars, Emit
    <2>3. events \in [Adapters -> SUBSET Event]
        BY DEF TypeInv, StoreTyped
    <2>4. \A e \in events'[a] : e \in events[a] \/ (e.key = item.key /\ e.rev = item.rev)
        BY <2>1, <2>2, <2>3
    <2>5. item.rev \in Nat
        BY <2>1 DEF PartOf
    <2>6. ASSUME NEW p \in run'.items, NEW e \in events'[a], SameSource(e, p) PROVE e.rev <= p.rev
        <3>1. CASE e \in events[a]
            BY <1>0, <2>2, <2>6, <3>1 DEF Batching
        <3>2. CASE e.key = item.key /\ e.rev = item.rev
            <4>1. p \in run.items /\ item.key = p.key
                BY <2>2, <2>6, <3>2 DEF SameSource
            <4>2. item.rev = p.rev
                BY <1>0, <2>2, <4>1 DEF Batching
            <4> QED BY <2>5, <3>2, <4>2
        <3> QED BY <2>4, <3>1, <3>2
    <2> QED BY <1>0, <2>2, <2>6 DEF ItemInv, RevOK, IsFile, Batching, SameSource
<1>6. CASE SaveCursor
    BY <1>1, <1>6, SaveLeaves DEF NoRun, Batching
<1>7. CASE Quits
    <2>1. UNCHANGED <<log, stamp, events>> /\ (run' = run \/ run'.phase = "idle")
        BY <1>7, QuitFields DEF agentVars
    <2> QED BY <1>1, <1>2, <2>1 DEF Batching
<1>8. CASE Starts
    BY <1>1, <1>8, StartFields DEF Batching
<1>9. StartHistory \/ Wraps \/ (\E n \in Native : MoveHome(n)) => UNCHANGED <<run, log, stamp, events>>
    BY DEF StartHistory, Wraps, Prepare, Complete, MoveHome, agentVars, storeVars
<1>10. CASE \E b, messages : AgentWrites(b, messages)
    <2>1. PICK b, messages : AgentWrites(b, messages)
        BY <1>10
    <2>2. /\ events' = events /\ run' = run /\ b \in Adapters /\ log'[b] = messages
        BY <2>1, WriteFields DEF storeVars
    <2>3. SUFFICES ASSUME Batching PROVE ItemInv'
        BY <1>1, <2>2 DEF Batching
    <2>4. a \in Adapters /\ run.items \subseteq PartOf(a)
        BY <2>3, RunCases DEF TypeInv, BatchOf, Running, Batching
    <2>5. CASE a # b
        <3>1. log'[a] = log[a] /\ stamp'[a] = stamp[a]
            BY <2>1, <2>4, <2>5, WriteFields
        <3> QED BY <1>0, <2>2, <2>3, <3>1 DEF ItemInv, RevOK, IsFile, SameSource
    <2>6. CASE a = b
        <3>1. ASSUME NEW p \in run.items
              PROVE  RevOK(b, p.rev)' /\ \A m \in messages : p.key = m.key => p.rev <= m.rev
            <4>1. p.rev \in Nat
                BY <2>4 DEF PartOf
            <4>2. RevOK(b, p.rev) /\ \A m \in log[b] : p.key = m.key => p.rev <= m.rev
                BY <1>0, <2>3, <2>6
            <4>3. PICK key, rev : key = p.key /\ rev = p.rev
                OBVIOUS
            <4>4. RevOK(b, rev)' /\ \A m \in messages : key = m.key => rev <= m.rev
                BY <2>1, <2>2, <4>1, <4>2, <4>3, RevisionAfterWrite
            <4> QED BY <2>2, <4>3, <4>4 DEF RevOK, IsFile
        <3>2. ASSUME NEW p \in run.items
              PROVE  /\ \A e \in events[b] : SameSource(e, p) => e.rev <= p.rev
                     /\ \A q \in run.items : p.key = q.key => p.rev = q.rev
            BY <1>0, <2>3, <2>6
        <3>3. run'.items = run.items /\ run'.adapter = b /\ events'[b] = events[b]
            BY <2>2, <2>6
        <3> QED BY <2>2, <3>1, <3>2, <3>3 DEF ItemInv, RevOK, IsFile, SameSource
    <2> QED BY <2>5, <2>6
<1> QED BY <1>2, <1>3, <1>4, <1>5, <1>6, <1>7, <1>8, <1>9, <1>10, StepKinds

-----------------------------------------------------------------------------
(* What was passed is stored *)

\* What a step emits is stored, and of what was stored only an earlier version goes.
LEMMA EmitStores ==
    ASSUME TypeInv, ItemInv, Emit, NEW a \in Adapters, a = run.adapter
    PROVE  \E item \in run.items :
             /\ run'.items = run.items \ {item}
             /\ Stored(a, item)'
             /\ \A p \in Parts(a) : Stored(a, p) => Stored(a, p)'
<1>0. a \in Adapters /\ events \in [Adapters -> SUBSET Event] /\ Batching /\ AgentsTyped
    BY DEF Emit, TypeInv, StoreTyped, Batching
<1>1. PICK item \in run.items, s \in SessionIds :
        /\ events' = [events EXCEPT ![run.adapter] =
               {d \in @ : ~SameSource(d, item)}
                  \cup {[key |-> item.key, part |-> item.part, session |-> item.session,
                         rev |-> item.rev, row |-> s]}]
        /\ run'.items = run.items \ {item}
        /\ item \in PartOf(run.adapter)
    BY EmitTyped
<1> DEFINE new == [key |-> item.key, part |-> item.part, session |-> item.session,
                   rev |-> item.rev, row |-> s]
<1>2. events'[a] = {d \in events[a] : ~SameSource(d, item)} \cup {new}
    BY <1>0, <1>1
<1>3. new \in events'[a] /\ SameSource(new, item) /\ new.rev = item.rev
      /\ new.key = item.key /\ new.part = item.part /\ new.session = item.session
    BY <1>2 DEF SameSource
<1> HIDE DEF new
<1>4. Stored(a, item)'
    BY <1>3 DEF Stored, SameSource
<1>5. ASSUME NEW p \in Parts(a), Stored(a, p) PROVE Stored(a, p)'
    <2>1. PICK e \in events[a] : SameSource(e, p) /\ e.rev = p.rev
        BY <1>5 DEF Stored
    <2>2. CASE ~SameSource(e, item)
        BY <1>2, <2>1, <2>2 DEF Stored, SameSource
    <2>3. CASE SameSource(e, item)
        <3>1. PICK m \in log[a] : m.key = p.key /\ m.rev = p.rev
            BY <1>0, PartOfMessage
        <3>2. e.rev <= item.rev
            BY <1>0, <2>3 DEF ItemInv
        <3>3. item.key = m.key
            BY <2>1, <2>3, <3>1 DEF SameSource
        <3>4. item.rev <= m.rev
            BY <1>0, <3>3 DEF ItemInv
        <3>5. item.rev \in Nat /\ p.rev \in Nat
            BY <1>0, <1>1, PartOfMessage DEF PartOf
        <3>6. item.rev = p.rev
            BY <2>1, <3>1, <3>2, <3>4, <3>5
        <3>7. SameSource(new, p) /\ new.rev = p.rev
            BY <1>3, <2>1, <2>3, <3>6 DEF SameSource
        <3> QED BY <1>3, <3>7 DEF Stored, SameSource
    <2> QED BY <2>2, <2>3
<1> QED BY <1>1, <1>4, <1>5

\* Nothing late is forgotten, and only Emit changes events.
LEMMA StoreKinds ==
    ASSUME TypeInv, LogInv, TargetInv, [Next]_vars
    PROVE  /\ late \subseteq late'
           /\ events' = events \/ Emit
<1>1. Reading \/ SaveCursor \/ Quits \/ Starts \/ StartHistory => UNCHANGED <<late, events>>
    BY ReadingLeaves DEF SaveCursor, Quits, Starts, StartHistory, agentVars, storeVars
<1>2. FindSession \/ UpsertSession => UNCHANGED <<late, events>>
    BY DEF FindSession, UpsertSession, agentVars, storeVars
<1>3. Wraps \/ (\E n \in Native : MoveHome(n)) => UNCHANGED <<late, events>>
    BY DEF Wraps, Prepare, Complete, MoveHome, agentVars, storeVars
<1>4. Emit => UNCHANGED late
    BY DEF Emit, agentVars
<1>5. (\E a, messages : AgentWrites(a, messages)) => late \subseteq late' /\ events' = events
    BY WriteFields DEF storeVars
<1> QED BY <1>1, <1>2, <1>3, <1>4, <1>5, StepKinds

\* What is accounted for stays so.
LEMMA AccountedStep ==
    ASSUME TypeInv, LogInv, TargetInv, ItemInv, [Next]_vars,
           NEW a \in Adapters, NEW p \in Parts(a), Accounted(a, p)
    PROVE  Accounted(a, p)'
<1>1. CASE <<a, p>> \in late
    BY <1>1, StoreKinds DEF Accounted
<1>2. CASE Stored(a, p)
    <2>1. CASE events' = events
        BY <1>2, <2>1 DEF Accounted, Stored, SameSource
    <2>2. CASE Emit /\ a = run.adapter
        BY <1>2, <2>2, EmitStores DEF Accounted
    <2>3. CASE Emit /\ a # run.adapter
        <3>1. events'[a] = events[a]
            BY <2>3, EmitTyped DEF TypeInv, StoreTyped
        <3> QED BY <1>2, <3>1 DEF Accounted, Stored, SameSource
    <2> QED BY <2>1, <2>2, <2>3, StoreKinds
<1> QED BY <1>1, <1>2 DEF Accounted

\* A part behind a write: it is accounted for, or the run has it in hand.
LEMMA WrittenPart ==
    ASSUME TypeInv, NEW a \in Adapters, NEW messages, AgentWrites(a, messages),
           NEW p \in PartsIn(messages)
    PROVE  /\ PassedBy(a, Position(cursor[a]), messages, p.key) => Accounted(a, p)'
           /\ PassedByRun(a, messages, p.key) => Accounted(a, p)' \/ InHand(a, p)
<1>1. late' = late \cup {a} \X {q \in PartsIn(messages) :
            /\ ~Stored(a, q)
            /\ \/ PassedBy(a, Position(cursor[a]), messages, q.key)
               \/ PassedByRun(a, messages, q.key) /\ ~InHand(a, q)}
    BY DEF AgentWrites, Written
<1>2. Stored(a, p) => Stored(a, p)'
    BY WriteFields DEF storeVars, Stored, SameSource
<1>3. ~Stored(a, p) /\ PassedBy(a, Position(cursor[a]), messages, p.key) => <<a, p>> \in late'
    BY <1>1
<1>4. ~Stored(a, p) /\ PassedByRun(a, messages, p.key) /\ ~InHand(a, p) => <<a, p>> \in late'
    BY <1>1
<1> QED BY <1>2, <1>3, <1>4 DEF Accounted

\* What the saved cursor has passed is accounted for,
LEMMA SavedStep ==
    ASSUME TypeInv, LogInv, TargetInv, CursorInv, ItemInv, RunInv, SavedInv, [Next]_vars
    PROVE  SavedInv'
<1>1. SUFFICES ASSUME NEW a \in Adapters, NEW p \in Parts(a)', Behind(a, p)' PROVE Accounted(a, p)'
    BY DEF SavedInv
<1>2. ASSUME log'[a] = log[a], cursor'[a] = cursor[a], stamp'[a] = stamp[a], a \in cut <=> a \in cut'
      PROVE  Accounted(a, p)'
    <2>1. p \in Parts(a) /\ Behind(a, p)
        BY <1>1, <1>2 DEF Behind, Parts, PartsIn, PassedBy, Reaches
    <2>2. Accounted(a, p)
        BY <2>1 DEF SavedInv
    <2> QED BY <2>1, <2>2, AccountedStep
<1>3. CASE UNCHANGED <<log, cursor, stamp, cut>>
    BY <1>2, <1>3
<1>4. CASE SaveCursor
    <2>1. /\ run.adapter \in Adapters /\ run.phase = "emit" /\ run.items = {}
          /\ cursor' = [cursor EXCEPT ![run.adapter] = run.outcome]
          /\ cut' = IF run.cut THEN cut \cup {run.adapter} ELSE cut \ {run.adapter}
          /\ log' = log /\ stamp' = stamp
        BY <1>4, SaveLeaves DEF agentVars
    <2>2. cursor \in [Adapters -> Cursor]
        BY DEF TypeInv, StoreTyped
    <2>3. CASE a # run.adapter
        BY <1>2, <2>1, <2>2, <2>3
    <2>4. CASE a = run.adapter
        <3>1. cursor'[a] = run.outcome /\ p \in Parts(a) /\ run.todo = {} /\ Batching
            BY <2>1, <2>2, <2>4 DEF Parts, PartsIn, CursorInv, Batching
        <3>2. CASE PassedBy(a, Position(run.outcome), log[a], p.key)
            <4>1. PassedByRun(a, log[a], p.key)
                BY <2>1, <2>4, <3>1, <3>2 DEF PassedByRun, InBatch
            <4>2. Accounted(a, p)
                BY <2>1, <2>4, <3>1, <4>1 DEF RunInv
            <4> QED BY <3>1, <4>2, AccountedStep
        <3>3. CASE IsFile(a) /\ run.outcome.stamp = stamp[a] /\ a \notin cut'
            <4>1. ~run.cut
                BY <2>1, <2>4, <3>3
            <4>2. Accounted(a, p)
                BY <2>1, <2>4, <3>1, <3>3, <4>1 DEF RunInv
            <4> QED BY <3>1, <4>2, AccountedStep
        <3> QED BY <1>1, <2>1, <3>1, <3>2, <3>3 DEF Behind, IsFile, PassedBy, Reaches
    <2> QED BY <2>3, <2>4
<1>5. CASE \E b, messages : AgentWrites(b, messages)
    <2>1. PICK b, messages : AgentWrites(b, messages)
        BY <1>5
    <2>2. UNCHANGED <<cursor, cut>> /\ b \in Adapters
        BY <2>1, WriteFields DEF storeVars
    <2>3. CASE a # b
        BY <1>2, <2>1, <2>2, <2>3, WriteFields
    <2>4. CASE a = b
        <3>1. log'[a] = messages /\ stamp'[a] = stamp[a] + 1 /\ p \in PartsIn(messages)
            BY <1>1, <2>1, <2>4, WriteFields
        <3>2. ~(IsFile(a) /\ cursor[a].stamp = stamp'[a])
            <4>1. stamp[a] \in Nat /\ cursor[a].stamp \in Nat \cup {None}
                BY DEF TypeInv, AgentsTyped, StoreTyped, Cursor
            <4>2. IsFile(a) => cursor[a].stamp = None \/ cursor[a].stamp <= stamp[a]
                BY DEF CursorInv
            <4> QED BY <3>1, <4>1, <4>2, NativeAssumption
        <3>3. PassedBy(a, Position(cursor[a]), messages, p.key)
            BY <1>1, <2>2, <3>1, <3>2 DEF Behind, IsFile, PassedBy, Reaches
        <3> QED BY <2>1, <2>4, <3>1, <3>3, WrittenPart
    <2> QED BY <2>3, <2>4
<1>6. Reading \/ Quits \/ Starts \/ StartHistory => UNCHANGED <<log, cursor, stamp, cut>>
    BY ReadingLeaves DEF Quits, Starts, StartHistory, agentVars, storeVars
<1>7. FindSession \/ UpsertSession \/ Emit => UNCHANGED <<log, cursor, stamp, cut>>
    BY DEF FindSession, UpsertSession, Emit, agentVars, storeVars
<1>8. Wraps \/ (\E n \in Native : MoveHome(n)) => UNCHANGED <<log, cursor, stamp, cut>>
    BY DEF Wraps, Prepare, Complete, MoveHome, agentVars, storeVars
<1> QED BY <1>3, <1>4, <1>5, <1>6, <1>7, <1>8, StepKinds

\* What a batch behind start takes: every part up to its end is behind start or in it.
LEMMA TakenParts ==
    ASSUME TypeInv, LogInv, NEW start, NEW batch, Takes(start, batch),
           run.adapter \in Adapters, run'.adapter = run.adapter, log' = log,
           NEW p \in Parts(run.adapter)
    PROVE  LET a == run.adapter
               end == run'.outcome.native
           IN /\ end \in Nat /\ start <= end /\ start \in Nat
              /\ Position(run'.outcome) = end
              /\ p.key <= end => p.key <= start \/ p \in run'.items \/ p.key \in run'.todo
              /\ p.key <= end \/ \E m \in Newer(a, end) : TRUE
              /\ start = end => p.key <= end
              /\ end # start => \E m \in log[a] : m.key = end
<1> DEFINE a == run.adapter
           end == LastKey(batch, start)
<1>0. AgentsTyped /\ a \in Adapters
    BY DEF TypeInv
<1>1. /\ start \in Nat /\ batch = FirstOf(Newer(a, start)) /\ run'.outcome.native = end
      /\ \/ run'.items = PartsIn(batch) /\ run'.todo = {}
         \/ run'.todo = Keys(batch)
    BY DEF Takes
<1>2. /\ batch \subseteq log[a] /\ batch \in SUBSET MessageOf(a)
      /\ end \in Nat /\ start <= end
      /\ \A m \in log[a] : m.key <= end => m.key <= start \/ m \in batch
      /\ batch = {} => end = start /\ \A m \in log[a] : m.key <= start
      /\ batch # {} => start < end /\ \E m \in batch : m.key = end
    BY <1>0, <1>1, NewerFacts
<1> HIDE DEF end
<1>3. Position(run'.outcome) = end
    BY <1>1, <1>2, NativeAssumption DEF Position
<1>4. PICK m \in log[a] : /\ m.key = p.key /\ m.session = p.session /\ m.rev = p.rev
                          /\ p.part \in 0..m.parts
    BY <1>0, PartOfMessage
<1>5. p = [key |-> m.key, part |-> p.part, session |-> m.session, rev |-> m.rev]
      /\ p.key \in Nat
    BY <1>0, <1>4, PartOfMessage DEF PartOf
<1>6. ASSUME p.key <= end PROVE p.key <= start \/ p \in run'.items \/ p.key \in run'.todo
    <2>1. CASE m.key <= start
        BY <1>4, <2>1
    <2>2. CASE m \in batch
        <3>1. p \in PartsIn(batch)
            BY <1>2, <1>4, <1>5, <2>2, PartsTyped
        <3>2. p.key \in Keys(batch)
            BY <1>4, <2>2 DEF Keys
        <3> QED BY <1>1, <3>1, <3>2
    <2> QED BY <1>2, <1>4, <1>6, <2>1, <2>2
<1>7. p.key <= end \/ \E l \in Newer(a, end) : TRUE
    BY <1>2, <1>4, <1>5 DEF Newer
<1>8. start = end => p.key <= end
    BY <1>1, <1>2, <1>4
<1>9. end # start => \E l \in log[a] : l.key = end
    BY <1>2
<1> QED BY <1>1, <1>2, <1>3, <1>6, <1>7, <1>8, <1>9

\* what the run has passed is so or is in hand,
LEMMA RunStep ==
    ASSUME TypeInv, LogInv, TargetInv, CursorInv, ItemInv, RunInv, SavedInv, [Next]_vars
    PROVE  RunInv'
<1> DEFINE a == run.adapter
<1>1. CASE ~Batching'
    BY <1>1 DEF RunInv
<1>0. AgentsTyped /\ (Running => a \in Adapters)
    BY RunCases DEF TypeInv
\* The batch is the same and still has in hand what is not accounted for.
<1>2. ASSUME Batching, run'.adapter = a, run'.outcome = run.outcome, run'.todo = run.todo,
             run'.cut = run.cut, log'[a] = log[a], stamp'[a] = stamp[a],
             \A p \in run.items : p \in Parts(a) => p \in run'.items \/ Accounted(a, p)'
      PROVE  RunInv'
    <2>1. a \in Adapters
        BY <1>0, <1>2 DEF Batching, Running
    <2>2. SUFFICES ASSUME Batching', NEW p \in Parts(a)
                   PROVE  /\ PassedByRun(a, log[a], p.key)' =>
                               Accounted(a, p)' \/ p \in run'.items
                          /\ IsFile(a) /\ run.outcome.stamp = stamp[a] /\ ~run.cut =>
                               Accounted(a, p)' \/ p \in run'.items
        BY <1>2 DEF RunInv, Parts, PartsIn, PassedByRun, PassedBy, InBatch, Accounted, Stored,
                    IsFile, Reaches, SameSource
    <2>3. PassedByRun(a, log[a], p.key)' => PassedByRun(a, log[a], p.key)
        BY <1>2 DEF PassedByRun, PassedBy, InBatch, Batching, Reaches
    <2>4. ASSUME PassedByRun(a, log[a], p.key) \/ (IsFile(a) /\ run.outcome.stamp = stamp[a] /\ ~run.cut)
          PROVE  Accounted(a, p)' \/ p \in run'.items
        <3>1. Accounted(a, p) \/ p \in run.items
            BY <1>2, <2>4 DEF RunInv
        <3> QED BY <1>2, <2>1, <3>1, AccountedStep
    <2> QED BY <2>3, <2>4
<1>3. CASE Reading
    <2>1. /\ UNCHANGED <<log, stamp, cursor, cut, events, late>>
          /\ run'.adapter = a /\ a \in Adapters /\ run'.cursor = run.cursor
          /\ run.cursor = cursor[a] /\ run.phase \in {"load", "bytes", "parts"}
          /\ Looks \/ Skips \/ TakesRows \/ TakesFile \/ TakesParts
        BY <1>3, ReadingLeaves, ReadingFields DEF SameImport, storeVars, agentVars, CursorInv, Running
    <2>2. Looks => RunInv'
        BY <1>1 DEF Looks, Batching
    <2>3. SUFFICES ASSUME Batching', ~Looks, NEW p \in Parts(a)
                   PROVE  /\ PassedBy(a, Position(run'.outcome), log[a], p.key) /\ p.key \notin run'.todo =>
                               Accounted(a, p) \/ p \in run'.items
                          /\ IsFile(a) /\ run'.outcome.stamp = stamp[a] /\ ~run'.cut =>
                               Accounted(a, p) \/ p \in run'.items
        BY <2>1, <2>2 DEF RunInv, Parts, PartsIn, PassedByRun, PassedBy, InBatch, Accounted, Stored,
                    IsFile, Reaches, SameSource
    <2>4. Position(cursor[a]) \in Nat
        BY <2>1, PositionTyped DEF TypeInv, StoreTyped
    <2>5. Behind(a, p) => Accounted(a, p)
        BY <2>1 DEF SavedInv
    <2>6. p.key \in 1..MaxKey
        BY <1>0, <2>1, PartOfMessage
    <2>7. CASE Skips
        BY <2>1, <2>5, <2>7 DEF Skips, Behind, IsFile
    <2>8. CASE TakesRows
        <3>1. PICK batch : Takes(Position(cursor[a]), batch)
            BY <2>1, <2>8 DEF TakesRows
        <3>2. /\ Position(run'.outcome) = run'.outcome.native
              /\ p.key <= run'.outcome.native =>
                   p.key <= Position(cursor[a]) \/ p \in run'.items \/ p.key \in run'.todo
            BY <2>1, <3>1, TakenParts
        <3>3. ~IsFile(a)
            BY <2>8 DEF TakesRows
        <3> QED BY <2>5, <3>2, <3>3 DEF PassedBy, Behind, IsFile
    <2>9. CASE TakesFile
        <3> DEFINE start == StartIndex(Position(cursor[a]), log[a])
                   end == run'.outcome.native
        <3>1. PICK batch : Takes(start, batch)
            BY <2>1, <2>9 DEF TakesFile
        <3>2. run'.cut <=> Newer(a, end) # {}
            BY <2>9 DEF TakesFile
        <3> HIDE DEF start
        <3>3. /\ Position(run'.outcome) = end
              /\ p.key <= end => p.key <= start \/ p \in run'.items \/ p.key \in run'.todo
              /\ p.key <= end \/ \E m \in Newer(a, end) : TRUE
            BY <2>1, <3>1, TakenParts
        <3>4. run'.todo = {}
            <4>1. run'.phase # "parts"
                BY <2>1, <2>9, <3>1 DEF TakesFile, Takes, CursorInv, IsFile
            <4> QED BY <3>1, <4>1 DEF Takes
        <3>5. p.key <= start => Accounted(a, p)
            BY <2>4, <2>5, <2>6 DEF start, StartIndex, Behind, PassedBy
        <3>6. p.key <= end => Accounted(a, p) \/ p \in run'.items
            BY <3>3, <3>4, <3>5
        <3> QED BY <3>2, <3>3, <3>6 DEF PassedBy
    <2>10. CASE TakesParts
        <3>1. PICK m \in log[a] :
                run'.items = run.items \cup PartsOf(m) /\ run'.todo = run.todo \ {m.key}
            BY <2>10 DEF TakesParts
        <3>2. run'.outcome = run.outcome /\ Batching /\ ~IsFile(a)
            BY <2>10 DEF TakesParts, Batching, CursorInv, IsFile
        <3>3. ASSUME PassedBy(a, Position(run.outcome), log[a], p.key), p.key \notin run'.todo
              PROVE  Accounted(a, p) \/ p \in run'.items
            <4>1. CASE p.key \in run.todo
                <5>1. p.key = m.key
                    BY <3>1, <3>3, <4>1
                <5>2. PICK l \in log[a] : p \in PartsOf(l)
                    BY DEF Parts, PartsIn
                <5>3. l.key = p.key
                    BY <5>2 DEF PartsOf
                <5>4. l = m
                    BY <2>1, <5>1, <5>3 DEF LogInv
                <5> QED BY <3>1, <5>2, <5>4
            <4>2. CASE p.key \notin run.todo
                BY <3>1, <3>2, <3>3, <4>2 DEF RunInv, PassedByRun, InBatch, Batching
            <4> QED BY <4>1, <4>2
        <3> QED BY <3>2, <3>3
    <2> QED BY <2>1, <2>3, <2>7, <2>8, <2>9, <2>10
<1>4. CASE FindSession \/ UpsertSession
    <2>1. /\ run'.outcome = run.outcome /\ run'.todo = run.todo /\ run'.cut = run.cut
          /\ run'.adapter = a /\ run.phase \in {"emit", "upsert"} /\ log' = log /\ stamp' = stamp
        BY <1>4, SinkFields DEF agentVars
    <2>2. run'.items = run.items
        BY <1>4, FindTyped, UpsertTyped
    <2> QED BY <1>2, <2>1, <2>2 DEF Batching
<1>5. CASE Emit
    <2>1. /\ run'.outcome = run.outcome /\ run'.todo = run.todo /\ run'.cut = run.cut
          /\ run'.adapter = a /\ run.phase \in {"emit", "upsert"} /\ log' = log /\ stamp' = stamp
          /\ a \in Adapters
        BY <1>5, SinkFields DEF agentVars
    <2>2. PICK b \in Adapters : b = a
        BY <2>1
    <2>3. PICK item \in run.items : run'.items = run.items \ {item} /\ Stored(b, item)'
        BY <1>5, <2>2, EmitStores
    <2>4. \E e \in events'[a] : SameSource(e, item) /\ e.rev = item.rev
        BY <2>2, <2>3 DEF Stored, SameSource
    <2>5. \A p \in run.items : p \in run'.items \/ Accounted(a, p)'
        BY <2>1, <2>3, <2>4 DEF Accounted, Stored, SameSource
    <2> QED BY <1>2, <2>1, <2>5 DEF Batching
<1>6. CASE SaveCursor
    BY <1>1, <1>6, SaveLeaves DEF NoRun, Batching
<1>7. ASSUME UNCHANGED <<run, log, stamp>> PROVE RunInv'
    BY <1>1, <1>2, <1>7 DEF Batching
<1>8. CASE Quits
    <2>1. UNCHANGED <<log, stamp>> /\ (run' = run \/ run'.phase = "idle")
        BY <1>8, QuitFields DEF agentVars
    <2> QED BY <1>1, <1>7, <2>1 DEF Batching
<1>9. CASE Starts
    BY <1>1, <1>9, StartFields DEF Batching
<1>10. StartHistory \/ Wraps \/ (\E n \in Native : MoveHome(n)) => UNCHANGED <<run, log, stamp>>
    BY DEF StartHistory, Wraps, Prepare, Complete, MoveHome, agentVars, storeVars
<1>11. CASE \E b, messages : AgentWrites(b, messages)
    <2>1. PICK b, messages : AgentWrites(b, messages)
        BY <1>11
    <2>2. run' = run /\ b \in Adapters
        BY <2>1, WriteFields
    <2>3. SUFFICES ASSUME Batching PROVE RunInv'
        BY <1>1, <2>2 DEF Batching
    <2>4. a \in Adapters
        BY <1>0, <2>3 DEF Batching, Running
    <2>5. CASE a # b
        <3>1. log'[a] = log[a] /\ stamp'[a] = stamp[a]
            BY <2>1, <2>4, <2>5, WriteFields
        <3> QED BY <1>2, <2>2, <2>3, <3>1
    <2>6. CASE a = b
        <3>1. log'[b] = messages /\ stamp'[b] = stamp[b] + 1 /\ Parts(b)' = PartsIn(messages)
            BY <2>1, WriteFields
        <3>2. ~(IsFile(b) /\ run.outcome.stamp = stamp'[b])
            <4>1. stamp[b] \in Nat
                BY <2>2 DEF TypeInv, AgentsTyped
            <4>2. run.outcome.stamp \in Nat \cup {None}
                BY <2>3, RunCases DEF TypeInv, BatchOf, Cursor
            <4>3. IsFile(b) => run.outcome.stamp = None \/ run.outcome.stamp <= stamp[b]
                BY <2>3, <2>6 DEF CursorInv
            <4> QED BY <3>1, <4>1, <4>2, <4>3, NativeAssumption
        <3>3. ASSUME NEW p \in PartsIn(messages), PassedByRun(b, messages, p.key)
              PROVE  Accounted(b, p)' \/ p \in run.items
            BY <2>1, <2>2, <3>3, WrittenPart DEF InHand
        <3>4. SUFFICES ASSUME NEW p \in PartsIn(messages)
                       PROVE  PassedByRun(b, messages, p.key)' => Accounted(b, p)' \/ p \in run.items
            BY <2>2, <2>6, <3>1, <3>2
            DEF RunInv, PassedByRun, PassedBy, InBatch, Accounted, Stored, IsFile, Reaches, SameSource
        <3>5. PassedByRun(b, messages, p.key)' => PassedByRun(b, messages, p.key)
            BY <2>2 DEF PassedByRun, PassedBy, InBatch, Reaches
        <3> QED BY <3>3, <3>5
    <2> QED BY <2>5, <2>6
<1> QED BY <1>3, <1>4, <1>5, <1>6, <1>7, <1>8, <1>9, <1>10, <1>11, StepKinds

-----------------------------------------------------------------------------
(* The history import *)

\* The worker, the gate and the report agree.
LEMMA HistoryStep ==
    ASSUME TypeInv, LogInv, TargetInv, HistoryInv, [Next]_vars
    PROVE  HistoryInv'
<1> DEFINE AskedOK == \A a \in Adapters : asked[a] # {} => a \in installed
           GateOK ==
             /\ history.worker = "import" <=> Running /\ run.by = "history"
             /\ history.worker = "import" => history.agents[run.adapter] = "running"
           AgentsOK ==
             /\ history.worker = "next" => \A a \in Adapters : history.agents[a] # "running"
             /\ history.worker \in {"gate", "import"} =>
                  \A a, b \in Adapters :
                    history.agents[a] = "running" /\ history.agents[b] = "running" => a = b
             /\ history.worker \in {"next", "gate", "import"} =>
                  \A a \in installed : history.agents[a] # "absent"
             /\ history.status = "running" <=> history.worker # "none"
             /\ history.status = "completed" => \A a \in installed : history.agents[a] = "completed"
<1>0. /\ AskedOK /\ GateOK /\ AgentsOK
      /\ history \in HistoryType /\ installed \subseteq Adapters
      /\ Running => run.adapter \in Adapters
    BY RunCases DEF HistoryInv, TypeInv, AgentsTyped
<1>1. SUFFICES AskedOK' /\ GateOK' /\ AgentsOK'
    BY DEF HistoryInv
<1>2. ASSUME UNCHANGED <<asked, installed>> PROVE AskedOK'
    BY <1>0, <1>2
<1>3. ASSUME UNCHANGED <<history, installed>> PROVE AgentsOK'
    BY <1>0, <1>3
<1>4. ASSUME UNCHANGED history, Running, Running', run'.by = run.by, run'.adapter = run.adapter
      PROVE  GateOK'
    BY <1>0, <1>4
<1>5. CASE Reading
    <2>1. UNCHANGED <<history, installed, asked>> /\ Running /\ Running'
          /\ run'.by = run.by /\ run'.adapter = run.adapter
        BY <1>5, ReadingLeaves, ReadingFields DEF SameImport, agentVars, Running
    <2> QED BY <1>2, <1>3, <1>4, <2>1
<1>6. CASE FindSession \/ UpsertSession \/ Emit
    <2>1. UNCHANGED <<history, installed, asked>> /\ Running /\ Running'
          /\ run'.by = run.by /\ run'.adapter = run.adapter
        BY <1>6, SinkFields DEF agentVars, Running
    <2> QED BY <1>2, <1>3, <1>4, <2>1
\* The gate is released with a result for the agent that was running.
<1>7. ASSUME NEW result \in {"failed", "completed"}, Ended(run, result), Running,
             UNCHANGED <<asked, installed>>
      PROVE  AskedOK' /\ GateOK' /\ AgentsOK'
    <2>1. run' = NoRun /\ ~Running'
        BY <1>7 DEF Ended, NoRun, Running
    <2>2. CASE run.by = "history"
        <3>1. PICK c \in Adapters : c = run.adapter
            BY <1>0, <1>7
        <3>2. history' = [history EXCEPT !.agents[c] = result, !.worker = "next"]
            BY <1>7, <2>2, <3>1 DEF Ended
        <3>3. history.worker = "import" /\ history.agents[c] = "running"
            BY <1>0, <1>7, <2>2, <3>1
        <3>4. /\ history'.worker = "next" /\ history'.status = history.status
              /\ history'.agents = [history.agents EXCEPT ![c] = result]
            BY <1>0, <3>2 DEF HistoryType
        <3>5. history.agents \in [Adapters -> {"absent", "queued", "running", "completed", "failed"}]
            BY <1>0 DEF HistoryType
        <3>6. history.status = "running"
            BY <1>0, <3>3
        <3>7. \A a \in Adapters : history'.agents[a] # "running"
            BY <1>0, <3>1, <3>3, <3>4, <3>5
        <3>8. \A a \in installed : history'.agents[a] # "absent"
            BY <1>0, <3>1, <3>3, <3>4, <3>5
        <3> QED BY <1>2, <1>7, <2>1, <3>4, <3>6, <3>7, <3>8
    <2>3. CASE run.by # "history"
        <3>1. history' = history
            BY <1>7, <2>3 DEF Ended
        <3> QED BY <1>0, <1>2, <1>3, <1>7, <2>1, <2>3, <3>1
    <2> QED BY <2>2, <2>3
<1>8. CASE SaveCursor
    <2>1. UNCHANGED <<asked, installed>> /\ Running
        BY <1>8 DEF SaveCursor, agentVars, Running
    <2>2. CASE Ended(run, "completed")
        BY <1>7, <2>1, <2>2
    <2>3. CASE UNCHANGED history /\ run'.phase = "load" /\ run'.by = run.by /\ run'.adapter = run.adapter
        BY <1>2, <1>3, <1>4, <2>1, <2>3 DEF Running
    <2> QED BY <1>8, <2>2, <2>3 DEF SaveCursor
<1>9. CASE ImportFails
    BY <1>7, <1>9 DEF ImportFails, FailedResult, Running, agentVars
<1>10. CASE RequestImport
    <2>1. UNCHANGED <<asked, installed, history>> /\ ~Running /\ Running' /\ run'.by = "user"
        BY <1>10 DEF RequestImport, agentVars, Running, NewRun
    <2> QED BY <1>0, <1>2, <1>3, <2>1
<1>11. CASE StartHistory
    <2>1. /\ history'.status = "running" /\ history'.worker = "views"
          /\ UNCHANGED <<run, installed>>
        BY <1>11 DEF StartHistory, Idle, agentVars
    <2>2. AskedOK'
        BY <1>11, <2>1 DEF StartHistory
    <2>3. ~(Running /\ run.by = "history")
        BY <1>0, <1>11 DEF StartHistory
    <2> QED BY <2>1, <2>2, <2>3 DEF Running
<1>12. CASE ListAgents
    <2> DEFINE agents == [a \in Adapters |-> IF a \in installed THEN "queued" ELSE "absent"]
    <2>1. /\ UNCHANGED <<asked, installed, run>> /\ history.worker = "views"
          /\ \/ history' = [history EXCEPT !.agents = agents, !.worker = "next"]
             \/ history' = [history EXCEPT !.status = "completed_with_errors", !.worker = "none"]
        BY <1>12 DEF ListAgents, agentVars
    <2>2. /\ \A a \in Adapters : agents[a] # "running"
          /\ \A a \in installed : agents[a] # "absent"
        BY <1>0
    <2> HIDE DEF agents
    <2>3. ~(Running /\ run.by = "history") /\ history.status = "running"
        BY <1>0, <2>1
    <2>4. \/ history'.worker = "next" /\ history'.agents = agents /\ history'.status = "running"
          \/ history'.worker = "none" /\ history'.status = "completed_with_errors"
        BY <1>0, <2>1, <2>3 DEF HistoryType
    <2>5. GateOK'
        BY <2>1, <2>3, <2>4 DEF Running
    <2>6. AgentsOK'
        BY <1>0, <2>1, <2>2, <2>4
    <2> QED BY <1>2, <2>1, <2>5, <2>6
<1>13. CASE NextAgent
    <2>1. PICK i \in DOMAIN AdapterOrder :
            history' = [history EXCEPT !.agents[AdapterOrder[i]] = "running", !.worker = "gate"]
        BY <1>13 DEF NextAgent
    <2>2. PICK c \in Adapters : c = AdapterOrder[i]
        BY DEF Adapters
    <2>3. UNCHANGED <<asked, installed, run>> /\ history.worker = "next"
        BY <1>13 DEF NextAgent, agentVars
    <2>4. /\ history'.worker = "gate" /\ history'.status = history.status
          /\ history'.agents = [history.agents EXCEPT ![c] = "running"]
          /\ history.agents \in [Adapters -> {"absent", "queued", "running", "completed", "failed"}]
        BY <1>0, <2>1, <2>2 DEF HistoryType
    <2>5. ~(Running /\ run.by = "history") /\ history.status = "running"
        BY <1>0, <2>3
    <2>6. \A a \in Adapters : history'.agents[a] = "running" => a = c
        BY <1>0, <2>3, <2>4
    <2>7. \A a \in installed : history'.agents[a] # "absent"
        BY <1>0, <2>3, <2>4
    <2>8. GateOK'
        BY <2>3, <2>4, <2>5 DEF Running
    <2> QED BY <1>2, <2>3, <2>4, <2>5, <2>6, <2>7, <2>8
<1>14. CASE TakeGate
    <2>1. PICK c \in Adapters : history.agents[c] = "running" /\ run' = NewRun("history", c)
        BY <1>14 DEF TakeGate
    <2>2. /\ history'.worker = "import" /\ history'.status = history.status
          /\ history'.agents = history.agents /\ history.worker = "gate"
          /\ UNCHANGED <<asked, installed>>
        BY <1>0, <1>14 DEF TakeGate, HistoryType, agentVars
    <2>3. run'.by = "history" /\ run'.adapter = c /\ Running'
        BY <2>1 DEF NewRun, Running
    <2>4. GateOK'
        BY <2>1, <2>2, <2>3
    <2>5. AgentsOK'
        BY <1>0, <2>2
    <2> QED BY <1>2, <2>2, <2>4, <2>5
<1>15. CASE FinishHistory
    <2>1. /\ UNCHANGED <<asked, installed, run>> /\ history.worker = "next"
          /\ \A a \in Adapters : history.agents[a] # "queued"
          /\ history'.worker = "none" /\ history'.agents = history.agents
          /\ history'.status = IF \E a \in Adapters : history.agents[a] = "failed"
                               THEN "completed_with_errors" ELSE "completed"
        BY <1>0, <1>15 DEF FinishHistory, agentVars, HistoryType
    <2>2. ASSUME history'.status = "completed", NEW a \in installed
          PROVE  history.agents[a] = "completed"
        <3>1. a \in Adapters /\ history.agents[a] \in {"absent", "queued", "running", "completed", "failed"}
            BY <1>0 DEF HistoryType
        <3> QED BY <1>0, <2>1, <2>2, <3>1
    <2>3. ~(Running /\ run.by = "history")
        BY <1>0, <2>1
    <2>4. AgentsOK'
        BY <2>1, <2>2
    <2>5. GateOK'
        BY <2>1, <2>3 DEF Running
    <2> QED BY <1>2, <2>1, <2>4, <2>5
<1>16. CASE Panic
    <2>1. /\ UNCHANGED <<asked, installed>> /\ history.worker # "none"
          /\ run' = IF history.worker = "import" THEN NoRun ELSE run
          /\ history'.worker = "none" /\ history'.status = "completed_with_errors"
        BY <1>0, <1>16 DEF Panic, StatusAfterPanic, agentVars, HistoryType
    <2>2. GateOK'
        BY <1>0, <2>1 DEF Running, NoRun
    <2>3. AgentsOK'
        BY <2>1
    <2> QED BY <1>2, <2>1, <2>2, <2>3
<1>17. CASE Crash
    <2>1. /\ UNCHANGED <<asked, installed>> /\ ~Running'
          /\ history'.worker = "none" /\ history'.status = "idle"
        BY <1>17 DEF Crash, Idle, NoRun, agentVars, Running
    <2> QED BY <1>2, <2>1
<1>18. CASE Environment
    <2>1. UNCHANGED <<history, run, asked, installed>>
        BY <1>18 DEF Environment, Write, WritePart, Replace, Written, MoveHome, Prepare, Complete,
                     agentVars
    <2> QED BY <1>0, <1>2, <1>3, <2>1 DEF Running
<1>19. CASE UNCHANGED vars
    BY <1>0, <1>19 DEF vars, agentVars, Running
<1> QED BY <1>5, <1>6, <1>8, <1>9, <1>10, <1>11, <1>12, <1>13, <1>14, <1>15, <1>16, <1>17, <1>18, <1>19
        DEF Next, Import, Worker, Reading

\* Only a run that ends well completes an agent, and only its own.
LEMMA Completes ==
    ASSUME TypeInv, [Next]_vars, NEW a \in Adapters, history'.agents[a] = "completed"
    PROVE  \/ history.agents[a] = "completed"
           \/ SaveCursor /\ ~More /\ run.by = "history" /\ a = run.adapter
<1>0. history \in HistoryType /\ (Running => run.adapter \in Adapters)
    BY RunCases DEF TypeInv
<1>1. CASE UNCHANGED history
    BY <1>1
<1>2. ASSUME NEW result, Ended(run, result), Running, history.agents[a] # "completed"
      PROVE  result = "completed" /\ run.by = "history" /\ a = run.adapter
    <2>1. PICK c \in Adapters : c = run.adapter
        BY <1>0, <1>2
    <2>2. history' = IF run.by = "history"
                     THEN [history EXCEPT !.agents[c] = result, !.worker = "next"] ELSE history
        BY <1>2, <2>1 DEF Ended
    <2>3. CASE run.by = "history"
        <3>1. history'.agents = [history.agents EXCEPT ![c] = result]
              /\ DOMAIN history.agents = Adapters
            BY <1>0, <2>2, <2>3 DEF HistoryType
        <3> QED BY <1>2, <2>1, <2>3, <3>1
    <2> QED BY <1>2, <2>2, <2>3
<1>3. CASE SaveCursor
    <2>1. Running
        BY <1>3 DEF SaveCursor, Running
    <2>2. UNCHANGED history \/ (~More /\ Ended(run, "completed"))
        BY <1>3 DEF SaveCursor
    <2> QED BY <1>1, <1>2, <1>3, <2>1, <2>2
<1>4. CASE ImportFails
    <2>1. Running /\ Ended(run, "failed")
        BY <1>4 DEF ImportFails, FailedResult, Running
    <2> QED BY <1>2, <2>1
<1>5. CASE Reading \/ FindSession \/ UpsertSession \/ Emit
    BY <1>1, <1>5, ReadingLeaves DEF FindSession, UpsertSession, Emit
<1>6. CASE RequestImport \/ Environment \/ UNCHANGED vars
    <2>1. RequestImport \/ UNCHANGED vars => UNCHANGED history
        BY DEF RequestImport, vars
    <2>2. \A b : Write(b) \/ WritePart(b) \/ Replace(b) => UNCHANGED history
        <3>1. \A b, messages : Written(b, messages) => UNCHANGED history
            BY DEF Written
        <3> QED BY <3>1 DEF Write, WritePart, Replace
    <2>3. \A x : MoveHome(x) \/ Prepare(x) \/ Complete(x) => UNCHANGED history
        BY DEF MoveHome, Prepare, Complete
    <2>4. Environment => UNCHANGED history
        BY <2>2, <2>3 DEF Environment
    <2> QED BY <1>1, <1>6, <2>1, <2>4
<1>7. CASE StartHistory \/ Crash
    <2>1. Idle.agents = [b \in Adapters |-> "absent"] /\ Idle.agents[a] = "absent"
        BY DEF Idle
    <2>2. CASE StartHistory
        <3>1. history'.agents = Idle.agents
            BY <2>2 DEF StartHistory, Idle
        <3> QED BY <2>1, <3>1
    <2>3. CASE Crash
        BY <2>1, <2>3 DEF Crash
    <2> QED BY <1>7, <2>2, <2>3
<1>8. CASE ListAgents
    <2> DEFINE agents == [b \in Adapters |-> IF b \in installed THEN "queued" ELSE "absent"]
    <2>1. \/ history' = [history EXCEPT !.agents = agents, !.worker = "next"]
          \/ history' = [history EXCEPT !.status = "completed_with_errors", !.worker = "none"]
        BY <1>8 DEF ListAgents
    <2>2. agents[a] # "completed"
        OBVIOUS
    <2> HIDE DEF agents
    <2>3. history'.agents = agents \/ history'.agents = history.agents
        BY <1>0, <2>1 DEF HistoryType
    <2> QED BY <2>2, <2>3
<1>9. CASE NextAgent
    <2>1. PICK i \in DOMAIN AdapterOrder :
            history' = [history EXCEPT !.agents[AdapterOrder[i]] = "running", !.worker = "gate"]
        BY <1>9 DEF NextAgent
    <2>2. PICK c \in Adapters : c = AdapterOrder[i]
        BY DEF Adapters
    <2>3. history'.agents = [history.agents EXCEPT ![c] = "running"] /\ DOMAIN history.agents = Adapters
        BY <1>0, <2>1, <2>2 DEF HistoryType
    <2> QED BY <2>3
<1>10. CASE TakeGate \/ FinishHistory \/ Panic
    BY <1>0, <1>10 DEF TakeGate, FinishHistory, Panic, HistoryType
<1> QED BY <1>3, <1>4, <1>5, <1>6, <1>7, <1>8, <1>9, <1>10 DEF Next, Import, Worker, Reading

\* An agent that is reported completed has its parts accounted for.
LEMMA ReportStep ==
    ASSUME TypeInv, LogInv, TargetInv, CursorInv, ItemInv, SavedInv, RunInv, HistoryInv, ReportInv,
           [Next]_vars
    PROVE  ReportInv'
<1> DEFINE Told(a) == history.agents[a] = "completed"
           Ends == run.by = "history" /\ ~More
           Seen(a, p) == PassedBy(a, Position(run.outcome), log[a], p.key)
<1>1. SUFFICES ASSUME NEW a \in Adapters, NEW p \in asked'[a], p \in Parts(a)'
               PROVE  /\ Told(a)' => Accounted(a, p)' \/ a \in cut'
                      /\ InBatch(a)' /\ ~run'.cut /\ (Told(a)' \/ Ends') =>
                           Accounted(a, p)' \/ Seen(a, p)'
    BY DEF ReportInv
<1>0. /\ AgentsTyped
      /\ p \in asked[a] /\ p \in Parts(a) /\ Told(a) => Accounted(a, p) \/ a \in cut
      /\ p \in asked[a] /\ p \in Parts(a) /\ InBatch(a) /\ ~run.cut /\ (Told(a) \/ Ends) =>
           Accounted(a, p) \/ Seen(a, p)
    BY DEF ReportInv, TypeInv
<1>2. p \in Parts(a) /\ Accounted(a, p) => Accounted(a, p)'
    BY AccountedStep
<1>3. ASSUME p \in asked[a], p \in Parts(a), cut' = cut, Told(a)' => Told(a),
             ~InBatch(a)' \/ (/\ InBatch(a) /\ run'.outcome = run.outcome /\ run'.cursor = run.cursor
                              /\ run'.by = run.by /\ run'.cut = run.cut
                              /\ (Seen(a, p) => PassedBy(a, Position(run.outcome), log'[a], p.key)))
      PROVE  /\ Told(a)' => Accounted(a, p)' \/ a \in cut'
             /\ InBatch(a)' /\ ~run'.cut /\ (Told(a)' \/ Ends') => Accounted(a, p)' \/ Seen(a, p)'
    <2>1. Told(a)' => Accounted(a, p)' \/ a \in cut'
        BY <1>0, <1>2, <1>3
    <2>2. ASSUME InBatch(a)', ~run'.cut, Told(a)' \/ Ends' PROVE Accounted(a, p)' \/ Seen(a, p)'
        <3>1. /\ InBatch(a) /\ run'.outcome = run.outcome /\ run'.cursor = run.cursor
              /\ run'.by = run.by /\ run'.cut = run.cut
              /\ (Seen(a, p) => PassedBy(a, Position(run.outcome), log'[a], p.key))
            BY <1>3, <2>2
        <3>2. Told(a) \/ Ends
            BY <1>3, <2>2, <3>1 DEF More
        <3>3. Accounted(a, p) \/ Seen(a, p)
            BY <1>0, <1>3, <2>2, <3>1, <3>2
        <3> QED BY <1>2, <1>3, <3>1, <3>3 DEF PassedBy, Reaches
    <2> QED BY <2>1, <2>2
<1>4. ASSUME UNCHANGED <<log, asked, cut>>, Told(a)' => Told(a),
             ~InBatch(a)' \/ (/\ InBatch(a) /\ run'.outcome = run.outcome /\ run'.cursor = run.cursor
                              /\ run'.by = run.by /\ run'.cut = run.cut)
      PROVE  /\ Told(a)' => Accounted(a, p)' \/ a \in cut'
             /\ InBatch(a)' /\ ~run'.cut /\ (Told(a)' \/ Ends') => Accounted(a, p)' \/ Seen(a, p)'
    <2>1. p \in asked[a] /\ p \in Parts(a)
        BY <1>1, <1>4 DEF Parts, PartsIn
    <2> QED BY <1>3, <1>4, <2>1
<1>5. ASSUME ~SaveCursor PROVE Told(a)' => Told(a)
    BY <1>5, Completes
<1>6. CASE Reading
    <2>1. /\ UNCHANGED <<log, stamp, asked, cut, history, cursor>>
          /\ run'.adapter = run.adapter /\ run'.by = run.by /\ run'.cursor = run.cursor
          /\ run.adapter \in Adapters /\ run.cursor = cursor[run.adapter]
          /\ run.phase \in {"load", "bytes", "parts"}
          /\ Looks \/ Skips \/ TakesRows \/ TakesFile \/ TakesParts
        BY <1>6, ReadingLeaves, ReadingFields
        DEF SameImport, agentVars, storeVars, CursorInv, Running
    <2>2. p \in asked[a] /\ p \in Parts(a)
        BY <1>1, <2>1 DEF Parts, PartsIn
    <2>3. CASE a # run.adapter \/ Looks
        BY <1>4, <2>1, <2>3 DEF InBatch, Looks
    <2>4. CASE a = run.adapter /\ TakesParts
        BY <1>4, <2>1, <2>4 DEF InBatch, TakesParts
    <2>5. ASSUME a = run.adapter, Skips \/ TakesRows \/ TakesFile, ~run'.cut, Told(a) \/ Ends'
          PROVE  Accounted(a, p) \/ PassedBy(a, Position(run'.outcome), log[a], p.key)
        <3>1. Behind(a, p) => Accounted(a, p)
            BY <2>2 DEF SavedInv
        <3>2. CASE Skips
            BY <2>1, <2>5, <3>1, <3>2 DEF Skips, Behind, IsFile
        <3>3. CASE TakesRows
            <4>1. ~IsFile(a)
                BY <2>5, <3>3 DEF TakesRows
            <4>2. CASE Told(a)
                BY <1>0, <2>2, <4>1, <4>2 DEF CursorInv
            <4>3. CASE Ends'
                <5>1. run'.outcome.native = run.cursor.native
                    BY <2>1, <4>3 DEF More
                <5>2. PICK batch : Takes(Position(run.cursor), batch)
                    BY <3>3 DEF TakesRows
                <5>3. /\ run'.outcome.native \in Nat /\ Position(run'.outcome) = run'.outcome.native
                      /\ Position(run.cursor) = run'.outcome.native => p.key <= run'.outcome.native
                    BY <2>1, <2>2, <2>5, <5>2, TakenParts
                <5>4. run.cursor \in Cursor
                    BY <2>1 DEF TypeInv, StoreTyped
                <5>5. Position(run.cursor) = run'.outcome.native
                    BY <5>1, <5>3, <5>4, PositionTyped
                <5> QED BY <4>1, <5>3, <5>5 DEF PassedBy, IsFile
            <4> QED BY <2>5, <4>2, <4>3
        <3>4. CASE TakesFile
            <4> DEFINE start == StartIndex(Position(run.cursor), log[a])
                       end == run'.outcome.native
            <4>1. PICK batch : Takes(start, batch)
                BY <2>5, <3>4 DEF TakesFile
            <4>2. Newer(a, end) = {}
                BY <2>5, <3>4 DEF TakesFile
            <4>3. start = 0 \/ Reaches(log[a], start)
                BY DEF StartIndex
            <4> HIDE DEF start
            <4>4. /\ end \in Nat /\ Position(run'.outcome) = end
                  /\ p.key <= end \/ \E m \in Newer(a, end) : TRUE
                  /\ end # start => \E m \in log[a] : m.key = end
                BY <2>1, <2>2, <2>5, <4>1, TakenParts
            <4>5. p.key <= end
                BY <4>2, <4>4
            <4>6. Reaches(log[a], end)
                BY <4>3, <4>4 DEF Reaches
            <4> QED BY <4>4, <4>5, <4>6 DEF PassedBy
        <3> QED BY <2>5, <3>2, <3>3, <3>4
    <2>6. CASE a = run.adapter /\ (Skips \/ TakesRows \/ TakesFile)
        <3>1. Told(a)' => Accounted(a, p)' \/ a \in cut'
            BY <1>0, <1>2, <2>1, <2>2
        <3>2. ASSUME ~run'.cut, Told(a)' \/ Ends' PROVE Accounted(a, p)' \/ Seen(a, p)'
            <4>1. Told(a) \/ Ends'
                BY <2>1, <3>2
            <4>2. Accounted(a, p) \/ PassedBy(a, Position(run'.outcome), log[a], p.key)
                BY <2>5, <2>6, <3>2, <4>1
            <4> QED BY <1>2, <2>1, <2>2, <4>2 DEF PassedBy, Reaches
        <3> QED BY <3>1, <3>2
    <2> QED BY <2>1, <2>3, <2>4, <2>6
<1>7. CASE FindSession \/ UpsertSession \/ Emit
    <2>1. /\ run'.outcome = run.outcome /\ run'.cut = run.cut /\ run'.adapter = run.adapter
          /\ run'.by = run.by /\ run'.cursor = run.cursor
          /\ run.phase \in {"emit", "upsert"} /\ UNCHANGED <<log, asked, cut, history>>
        BY <1>7, SinkFields DEF agentVars
    <2> QED BY <1>4, <2>1 DEF InBatch
<1>8. CASE SaveCursor
    <2>1. /\ run.adapter \in Adapters /\ run.phase = "emit" /\ run.items = {}
          /\ cut' = IF run.cut THEN cut \cup {run.adapter} ELSE cut \ {run.adapter}
          /\ UNCHANGED <<log, asked>> /\ run'.phase \in {"idle", "load"}
        BY <1>8, SaveLeaves DEF agentVars, NoRun
    <2>2. p \in asked[a] /\ p \in Parts(a) /\ ~InBatch(a)'
        BY <1>1, <2>1 DEF Parts, PartsIn, InBatch
    <2>3. Told(a)' => Told(a) \/ (~More /\ run.by = "history" /\ a = run.adapter)
        BY Completes
    <2>4. CASE a # run.adapter
        BY <1>0, <1>2, <2>1, <2>2, <2>3, <2>4
    <2>5. ASSUME a = run.adapter, Told(a)', a \notin cut' PROVE Accounted(a, p)'
        <3>1. ~run.cut /\ InBatch(a) /\ Batching /\ run.todo = {}
            BY <2>1, <2>5 DEF InBatch, Batching, CursorInv
        <3>2. Accounted(a, p) \/ Seen(a, p)
            BY <1>0, <2>2, <2>3, <2>5, <3>1
        <3>3. Seen(a, p) => Accounted(a, p)
            BY <2>1, <2>2, <2>5, <3>1 DEF RunInv, PassedByRun
        <3> QED BY <1>2, <2>2, <3>2, <3>3
    <2> QED BY <2>2, <2>4, <2>5
<1>9. CASE Quits
    <2>1. UNCHANGED <<log, asked, cut>> /\ (run' = run \/ run'.phase = "idle")
        BY <1>9, QuitFields DEF agentVars
    <2>2. ~InBatch(a)' \/ (/\ InBatch(a) /\ run'.outcome = run.outcome /\ run'.cursor = run.cursor
                           /\ run'.by = run.by /\ run'.cut = run.cut)
        BY <2>1 DEF InBatch
    <2>3. CASE SaveCursor
        BY <1>8, <2>3
    <2> QED BY <1>4, <1>5, <2>1, <2>2, <2>3
<1>10. CASE Starts
    <2>1. UNCHANGED <<log, asked, cut>> /\ ~InBatch(a)' /\ ~SaveCursor
        BY <1>10, StartFields DEF Starts, agentVars, InBatch, SaveCursor
    <2> QED BY <1>4, <1>5, <2>1
<1>11. CASE StartHistory
    <2>1. ~Told(a)' /\ run' = run
        BY <1>11 DEF StartHistory, Idle
    <2>2. InBatch(a) => run.by # "history"
        BY <1>11 DEF StartHistory, HistoryInv, InBatch, Running
    <2> QED BY <2>1, <2>2 DEF InBatch
<1>12. CASE Wraps \/ \E n \in Native : MoveHome(n)
    <2>1. UNCHANGED <<log, asked, cut, run, history>>
        BY <1>12 DEF Wraps, Prepare, Complete, MoveHome, agentVars
    <2> QED BY <1>4, <2>1 DEF InBatch
<1>13. CASE \E b, messages : AgentWrites(b, messages)
    <2>1. PICK b, messages : AgentWrites(b, messages)
        BY <1>13
    <2>2. UNCHANGED <<asked, cut, run, history>> /\ b \in Adapters
        BY <2>1, WriteFields
    <2>3. CASE a # b
        <3>1. log'[a] = log[a] /\ p \in Parts(a)
            BY <1>1, <2>1, <2>3, WriteFields
        <3> QED BY <1>1, <1>3, <2>2, <3>1 DEF InBatch
    <2>4. CASE a = b
        <3>1. log'[a] = messages /\ p \in PartsIn(messages)
            BY <1>1, <2>1, <2>4, WriteFields
        <3>2. /\ p \in Parts(a) /\ p \in asked[a]
              /\ \A l \in log[a] : \E m \in messages : l.key = m.key
            BY <1>1, <2>1, <2>2, <2>4, <3>1, AskedAfterWrite
        <3>3. Seen(a, p) => PassedBy(a, Position(run.outcome), log'[a], p.key)
            BY <3>1, <3>2 DEF PassedBy, Reaches
        <3> QED BY <1>3, <2>2, <3>2, <3>3 DEF InBatch
    <2> QED BY <2>3, <2>4
<1> QED BY <1>6, <1>7, <1>8, <1>9, <1>10, <1>11, <1>12, <1>13, StepKinds

-----------------------------------------------------------------------------
(* Sessions *)

\* The adapter of a native session is one.
LEMMA OneAdapter ==
    ASSUME NEW a \in Adapters, NEW b \in Adapters, NEW n, n \in SessionsOf[a], n \in SessionsOf[b]
    PROVE  a = b
BY NativeAssumption

\* Events are of sessions and in rows.
LEMMA EventRow ==
    ASSUME TypeInv, NEW a \in Adapters, NEW e \in events[a]
    PROVE  e.row \in SessionIds /\ e.session \in Native
BY DEF TypeInv, StoreTyped, Event

\* A step that leaves the rows' native sessions, agents and projects, adds none with a
\* native session, and forgets no directory that moved.
RowsKept ==
    /\ \A s \in SessionIds : sessions[s] # None =>
         /\ sessions'[s] # None /\ sessions'[s].native = sessions[s].native
         /\ sessions'[s].agent = sessions[s].agent /\ sessions'[s].project = sessions[s].project
    /\ \A s \in SessionIds : sessions[s] = None =>
         sessions'[s] = None \/ (s \in Wrappers /\ sessions'[s].native = None)
    /\ moved \subseteq moved'
    /\ \A n \in Native \ moved' : home'[n] = home[n]

\* Such a step keeps the joins of rows and native sessions.
LEMMA RowsKeptKeepRows ==
    ASSUME TypeInv, RowInv, RowsKept, events' = events,
           Running' => \/ Running /\ run'.ensured = run.ensured
                       \/ run'.ensured = [s \in SessionIds |-> None]
    PROVE  RowInv'
<1>0. Wrappers \cap Native = {} /\ None \notin Native
    BY NativeAssumption
<1>1. \A s \in SessionIds, n \in Native : Joined(s, n) => Joined(s, n)'
    BY DEF RowsKept, Joined
<1>2. ASSUME NEW s \in SessionIds, NEW n \in Native, Joined(s, n)' PROVE Joined(s, n)
    BY <1>0, <1>2 DEF RowsKept, Joined
<1>3. \A n \in Native : sessions'[n] # None => sessions'[n].native = n
    BY <1>0 DEF RowInv, RowsKept, SessionIds
<1>4. ASSUME NEW s \in SessionIds, NEW a \in Adapters, sessions'[s] # None,
             sessions'[s].native \in SessionsOf[a]
      PROVE  sessions'[s].agent = a
    <2>1. sessions'[s].native \in Native
        BY <1>4 DEF Native
    <2> QED BY <1>0, <1>4, <2>1 DEF RowInv, RowsKept
<1>5. ASSUME NEW n \in Native \ moved'
      PROVE  /\ home'[n] = Project
             /\ \A s \in SessionIds : Joined(s, n)' => sessions'[s].project = Project
             /\ \A s, t \in SessionIds : Joined(s, n)' /\ Joined(t, n)' => s = t
    <2>1. n \in Native \ moved
        BY DEF RowsKept
    <2>2. home'[n] = home[n]
        BY DEF RowsKept
    <2>3. ASSUME NEW s \in SessionIds, Joined(s, n)' PROVE sessions'[s].project = Project
        <3>1. Joined(s, n) /\ sessions[s] # None
            BY <1>2, <2>3 DEF Joined
        <3> QED BY <2>1, <3>1 DEF RowInv, RowsKept
    <2> QED BY <1>2, <2>1, <2>2, <2>3 DEF RowInv
<1>6. ASSUME Running', NEW s \in SessionIds, NEW n \in Native, run'.ensured[s] = n PROVE Joined(s, n)'
    <2>1. Running /\ run'.ensured = run.ensured
        BY <1>0, <1>6
    <2> QED BY <1>1, <1>6, <2>1 DEF RowInv
<1>7. ASSUME NEW a \in Adapters, NEW e \in events[a]
      PROVE  Joined(e.row, e.session)'
    <2>1. e.row \in SessionIds /\ e.session \in Native
        BY <1>7, EventRow
    <2> QED BY <1>1, <1>7, <2>1 DEF RowInv
<1> QED BY <1>3, <1>4, <1>5, <1>6, <1>7 DEF RowInv

\* The sink keeps its sessions; a session's row becomes that of its native session.
LEMMA UpsertKeepsRows ==
    ASSUME TypeInv, RowInv, TargetInv, UpsertSession
    PROVE  RowInv'
<1>1. PICK a, n, s : a = run.adapter /\ n = run.target.native /\ s = run.target.session
    OBVIOUS
<1>2. /\ a \in Adapters /\ n \in SessionsOf[a] /\ n \in Native /\ s \in SessionIds
      /\ sessions' = [sessions EXCEPT ![s] = sessions'[s]]
      /\ sessions'[s] # None /\ sessions'[s].native = n
      /\ sessions[s] = None => sessions'[s].agent = a /\ sessions'[s].project = run.target.project
      /\ sessions[s] # None =>
           /\ sessions'[s].agent = sessions[s].agent
           /\ sessions'[s].project = IF run.target.project = None THEN sessions[s].project
                                     ELSE run.target.project
      /\ run'.ensured = [run.ensured EXCEPT ![s] = n]
    BY <1>1, UpsertTyped, SinkFields
<1>3. run.phase = "upsert" /\ UNCHANGED <<events, moved, home>>
    BY DEF UpsertSession, agentVars
<1>4. /\ s = n \/ sessions[s] # None
      /\ sessions[s] # None => sessions[s].native \in {None, n} /\ sessions[s].agent = a
      /\ n \notin moved => run.target.project = Project /\ \A t \in SessionIds : Joined(t, n) => t = s
    BY <1>1, <1>3 DEF TargetInv
<1>5. None \notin Native /\ Project # None
    BY NativeAssumption
<1>6. /\ sessions \in [SessionIds -> Row \cup {None}] /\ Native \subseteq SessionIds
      /\ run.ensured \in Ensured
    BY <1>3, RunCases DEF TypeInv, StoreTyped, SessionIds, Running
<1>7. \A t \in SessionIds : t # s => sessions'[t] = sessions[t]
    BY <1>2, <1>6
<1>8. \A m \in Native, t \in SessionIds : Joined(t, m)' <=> (t = s /\ m = n) \/ (t # s /\ Joined(t, m))
    BY <1>2, <1>7 DEF Joined
<1>9. \A m \in Native, t \in SessionIds : Joined(t, m) => Joined(t, m)'
    BY <1>4, <1>5, <1>8 DEF Joined
<1>10. ASSUME NEW m \in Native, sessions'[m] # None PROVE sessions'[m].native = m
    <2>1. CASE m = s
        BY <1>2, <1>4, <1>5, <2>1 DEF RowInv
    <2>2. CASE m # s
        BY <1>6, <1>7, <1>10, <2>2 DEF RowInv
    <2> QED BY <2>1, <2>2
<1>11. ASSUME NEW t \in SessionIds, NEW b \in Adapters, sessions'[t] # None,
              sessions'[t].native \in SessionsOf[b]
       PROVE  sessions'[t].agent = b
    <2>1. CASE t = s
        <3>1. a = b
            BY <1>2, <1>11, <2>1, OneAdapter
        <3> QED BY <1>2, <1>4, <2>1, <3>1
    <2>2. CASE t # s
        BY <1>7, <1>11, <2>2 DEF RowInv
    <2> QED BY <2>1, <2>2
<1>12. ASSUME NEW m \in Native \ moved
       PROVE  /\ home[m] = Project
              /\ \A t \in SessionIds : Joined(t, m)' => sessions'[t].project = Project
              /\ \A t, u \in SessionIds : Joined(t, m)' /\ Joined(u, m)' => t = u
    <2>1. home[m] = Project
        BY DEF RowInv
    <2>2. ASSUME NEW t \in SessionIds, Joined(t, m)' PROVE sessions'[t].project = Project
        <3>1. CASE t = s
            <4>1. m = n
                BY <1>8, <2>2, <3>1
            <4> QED BY <1>2, <1>4, <1>5, <3>1, <4>1
        <3>2. CASE t # s
            <4>1. Joined(t, m)
                BY <1>8, <2>2, <3>2
            <4> QED BY <1>7, <3>2, <4>1 DEF RowInv
        <3> QED BY <3>1, <3>2
    <2>3. ASSUME NEW t \in SessionIds, NEW u \in SessionIds, Joined(t, m)', Joined(u, m)'
          PROVE  t = u
        <3>1. CASE m = n
            BY <1>4, <1>8, <2>3, <3>1
        <3>2. CASE m # n
            <4>1. Joined(t, m) /\ Joined(u, m)
                BY <1>8, <2>3, <3>2
            <4> QED BY <4>1 DEF RowInv
        <3> QED BY <3>1, <3>2
    <2> QED BY <2>1, <2>2, <2>3
<1>13. ASSUME NEW t \in SessionIds, NEW m \in Native, run'.ensured[t] = m PROVE Joined(t, m)'
    <2>1. CASE t = s
        BY <1>2, <1>6, <1>8, <1>13, <2>1 DEF Ensured
    <2>2. CASE t # s
        <3>1. run.ensured[t] = m
            BY <1>2, <1>6, <1>13, <2>2 DEF Ensured
        <3> QED BY <1>3, <1>9, <3>1 DEF RowInv, Running
    <2> QED BY <2>1, <2>2
<1>14. ASSUME NEW b \in Adapters, NEW e \in events[b] PROVE Joined(e.row, e.session)'
    <2>1. e.row \in SessionIds /\ e.session \in Native
        BY <1>14, EventRow
    <2> QED BY <1>9, <1>14, <2>1 DEF RowInv
<1> QED BY <1>3, <1>10, <1>11, <1>12, <1>13, <1>14 DEF RowInv

\* An event goes to the row that its native session is joined to.
LEMMA EmitKeepsRows ==
    ASSUME TypeInv, RowInv, Emit
    PROVE  RowInv'
<1>1. PICK a : a = run.adapter
    OBVIOUS
<1>2. PICK item \in run.items, s \in SessionIds :
        /\ item \in PartOf(a) /\ run.ensured[s] = item.session
        /\ events' = [events EXCEPT ![a] =
             {e \in @ : ~SameSource(e, item)}
                \cup {[key |-> item.key, part |-> item.part, session |-> item.session,
                       rev |-> item.rev, row |-> s]}]
        /\ run'.ensured = run.ensured
    BY <1>1, EmitTyped
<1>3. run.phase = "emit" /\ UNCHANGED <<sessions, moved, home>>
    BY DEF Emit, agentVars
<1>4. a \in Adapters /\ item.session \in Native
    <2>1. a \in Adapters
        BY <1>1, <1>3, RunCases DEF TypeInv, Running
    <2> QED BY <1>2, <2>1 DEF PartOf, Native
<1>5. Joined(s, item.session)
    BY <1>2, <1>3, <1>4 DEF RowInv, Running
<1>6. \A n \in Native, t \in SessionIds : Joined(t, n)' <=> Joined(t, n)
    BY <1>3 DEF Joined
<1>7. ASSUME NEW b \in Adapters, NEW e \in events'[b] PROVE Joined(e.row, e.session)'
    <2>1. CASE e \in events[b]
        <3>1. e.row \in SessionIds /\ e.session \in Native
            BY <2>1, EventRow
        <3> QED BY <1>6, <2>1, <3>1 DEF RowInv
    <2>2. CASE e \notin events[b]
        <3>1. e = [key |-> item.key, part |-> item.part, session |-> item.session,
                   rev |-> item.rev, row |-> s]
            BY <1>2, <1>4, <1>7, <2>2 DEF TypeInv, StoreTyped
        <3>2. e.row = s /\ e.session = item.session
            BY <3>1
        <3> QED BY <1>4, <1>5, <1>6, <3>2
    <2> QED BY <2>1, <2>2
<1>8. \A t \in SessionIds, n \in Native : run'.ensured[t] = n => Joined(t, n)'
    BY <1>2, <1>3, <1>6 DEF RowInv, Running
<1> QED BY <1>3, <1>6, <1>7, <1>8 DEF RowInv

\* The wrapper touches no join.
LEMMA WrapsKeepRows ==
    ASSUME TypeInv, Wraps
    PROVE  RowsKept
<1>1. PICK w \in Wrappers : Prepare(w) \/ Complete(w)
    BY DEF Wraps
<1>2. w \in SessionIds /\ sessions \in [SessionIds -> Row \cup {None}] /\ None \notin Row
      /\ EndOf[w] \in Int
    BY NativeAssumption DEF TypeInv, StoreTyped, SessionIds
<1>3. UNCHANGED <<home, moved>>
    BY <1>1 DEF Prepare, Complete, agentVars
<1>4. CASE Prepare(w)
    <2> DEFINE new == [project |-> Project, agent |-> AgentOf[w], native |-> None,
                       kind |-> "wrapper", state |-> "active", started |-> StartOf[w], ended |-> None]
    <2>1. sessions[w] = None /\ sessions' = [sessions EXCEPT ![w] = new] /\ new.native = None
        BY <1>4 DEF Prepare
    <2> HIDE DEF new
    <2>2. sessions'[w].native = None /\ \A s \in SessionIds : s # w => sessions'[s] = sessions[s]
        BY <1>2, <2>1
    <2> QED BY <1>2, <1>3, <2>1, <2>2 DEF RowsKept
<1>5. CASE Complete(w)
    <2>1. PICK old : old = sessions[w]
        OBVIOUS
    <2>2. old \in Row /\ old # None
        BY <1>2, <1>5, <2>1 DEF Complete
    <2> DEFINE new == [old EXCEPT !.state = "complete", !.ended = EndOf[w]]
    <2>3. new \in Row /\ new.native = old.native /\ new.agent = old.agent /\ new.project = old.project
        BY <1>2, <2>2 DEF Row
    <2>4. sessions' = [sessions EXCEPT ![w] = new]
        BY <1>5, <2>1 DEF Complete
    <2> HIDE DEF new
    <2>5. sessions'[w] = new /\ \A s \in SessionIds : s # w => sessions'[s] = sessions[s]
        BY <1>2, <2>4
    <2> QED BY <1>2, <1>3, <2>1, <2>2, <2>3, <2>5 DEF RowsKept
<1> QED BY <1>1, <1>4, <1>5

\* Every step keeps the joins,
LEMMA RowStep ==
    ASSUME TypeInv, LogInv, RowInv, TargetInv, [Next]_vars
    PROVE  RowInv'
\* Steps that touch neither rows nor directories.
<1>1. ASSUME UNCHANGED <<sessions, home, moved>> PROVE RowsKept
    BY <1>1 DEF RowsKept
<1>2. CASE Reading
    <2>1. UNCHANGED <<sessions, events, home, moved>>
        BY <1>2, ReadingLeaves DEF storeVars, agentVars
    <2>2. Running /\ run'.ensured = run.ensured
        BY <1>2, ReadingFields DEF SameImport, Running
    <2> QED BY <1>1, <2>1, <2>2, RowsKeptKeepRows
<1>3. CASE SaveCursor
    <2>1. UNCHANGED <<sessions, events, home, moved>> /\ Running
        BY <1>3, SaveLeaves DEF agentVars, Running
    <2>2. Running' => run'.ensured = run.ensured
        BY <1>3, SaveLeaves DEF Running, NoRun
    <2> QED BY <1>1, <2>1, <2>2, RowsKeptKeepRows
<1>4. CASE FindSession
    <2>1. UNCHANGED <<sessions, events, home, moved>> /\ Running
        BY <1>4 DEF FindSession, storeVars, agentVars, Running
    <2>2. run'.ensured = run.ensured
        BY <1>4, FindTyped
    <2> QED BY <1>1, <2>1, <2>2, RowsKeptKeepRows
<1>5. CASE Quits \/ \E a, messages : AgentWrites(a, messages)
    <2>1. /\ UNCHANGED <<sessions, events, home, moved>>
          /\ run' = run \/ run'.phase = "idle"
        BY <1>5, QuitFields, WriteFields DEF storeVars, agentVars
    <2>2. Running' => Running /\ run'.ensured = run.ensured
        BY <2>1 DEF Running
    <2> QED BY <1>1, <2>1, <2>2, RowsKeptKeepRows
<1>6. CASE Starts
    <2>1. UNCHANGED <<sessions, events, home, moved>>
        BY <1>6 DEF Starts, storeVars, agentVars
    <2>2. run'.ensured = [s \in SessionIds |-> None]
        BY <1>6, StartFields
    <2> QED BY <1>1, <2>1, <2>2, RowsKeptKeepRows
<1>7. CASE StartHistory
    <2>1. UNCHANGED <<sessions, events, home, moved, run>>
        BY <1>7 DEF StartHistory, storeVars, agentVars
    <2> QED BY <1>1, <2>1, RowsKeptKeepRows DEF Running
<1>8. CASE Wraps
    <2>1. UNCHANGED <<events, run>>
        BY <1>8 DEF Wraps, Prepare, Complete
    <2> QED BY <1>8, <2>1, WrapsKeepRows, RowsKeptKeepRows DEF Running
<1>9. CASE \E n \in Native : MoveHome(n)
    <2>1. PICK n \in Native : MoveHome(n)
        BY <1>9
    <2>2. UNCHANGED <<sessions, events, run>> /\ moved' = moved \cup {n}
          /\ \A m \in Native : m # n => home'[m] = home[m]
        BY <2>1 DEF MoveHome, storeVars, TypeInv, AgentsTyped
    <2>3. RowsKept
        BY <2>2 DEF RowsKept
    <2> QED BY <2>2, <2>3, RowsKeptKeepRows DEF Running
<1> QED BY <1>2, <1>3, <1>4, <1>5, <1>6, <1>7, <1>8, <1>9, UpsertKeepsRows, EmitKeepsRows, StepKinds

\* The session that the store finds, or the native session's own.
LEMMA FindSetsTarget ==
    ASSUME TypeInv, RowInv, FindSession
    PROVE  TargetInv'
<1>1. PICK a : a = run.adapter
    OBVIOUS
<1>2. PICK n, s :
        /\ n = run'.target.native /\ s = run'.target.session
        /\ run'.target \in TargetOf(a) /\ run'.adapter = a
        /\ run'.target.project = home[n]
        /\ s \in IF home[n] = None \/ Matching(a, n) = {} THEN {n} ELSE Preferred(n, Matching(a, n))
    BY <1>1, FindTyped
<1>3. /\ n \in SessionsOf[a] /\ s \in SessionIds /\ a \in Adapters
      /\ UNCHANGED <<sessions, moved>>
    <2>1. a \in Adapters
        BY <1>1, SinkFields, RunCases DEF FindSession, TypeInv, Running
    <2> QED BY <1>2, <2>1 DEF TargetOf, FindSession, storeVars, agentVars
<1>4. n \in Native /\ n \in SessionIds /\ None \notin {Project} /\ None \notin Native
    BY <1>3, NativeAssumption DEF Native, SessionIds
<1>5. ASSUME NEW t \in SessionIds, n \notin moved, Joined(t, n) PROVE t \in Matching(a, n)
    <2>1. sessions[t] # None /\ sessions[t].native = n
        BY <1>5 DEF Joined
    <2>2. sessions[t].agent = a /\ sessions[t].project = Project
        BY <1>3, <1>4, <1>5, <2>1 DEF RowInv
    <2> QED BY <2>1, <2>2 DEF Matching
<1>6. n \notin moved => home[n] = Project
    BY <1>4 DEF RowInv
<1>7. CASE home[n] = None \/ Matching(a, n) = {}
    <2>1. s = n
        BY <1>2, <1>7
    <2>2. sessions[s] # None => sessions[s].native = n /\ sessions[s].agent = a
        BY <1>3, <1>4, <2>1 DEF RowInv
    <2>3. n \notin moved => \A t \in SessionIds : Joined(t, n) => t = s
        BY <1>4, <1>5, <1>6, <1>7
    <2> QED BY <1>2, <1>3, <1>6, <2>1, <2>2, <2>3 DEF TargetInv, Joined
<1>8. CASE home[n] # None /\ Matching(a, n) # {}
    <2> DEFINE same == {t \in Matching(a, n) : sessions[t].native = n}
    <2>1. s \in Preferred(n, Matching(a, n))
        BY <1>2, <1>8
    <2>2. s \in Matching(a, n) /\ (same # {} => s \in same)
        BY <2>1 DEF Preferred
    <2>3. sessions[s] # None /\ sessions[s].agent = a /\ sessions[s].native \in {None, n}
        BY <2>2 DEF Matching, Unassigned
    <2>4. ASSUME n \notin moved, NEW t \in SessionIds, Joined(t, n) PROVE t = s
        <3>1. t \in same
            BY <1>5, <2>4 DEF Joined
        <3>2. Joined(s, n)
            BY <2>2, <2>3, <3>1 DEF Joined
        <3> QED BY <1>3, <1>4, <2>4, <3>2 DEF RowInv
    <2> QED BY <1>2, <1>3, <1>6, <2>3, <2>4 DEF TargetInv, Joined
<1> QED BY <1>7, <1>8

\* A step that keeps the rows keeps the answer of the lookup valid.
LEMMA TargetKept ==
    ASSUME TypeInv, TargetInv, RowsKept, run' = run
    PROVE  TargetInv'
<1>1. SUFFICES ASSUME run.phase = "upsert" PROVE TargetInv'
    BY DEF TargetInv
<1>2. PICK a, n, s : a = run.adapter /\ n = run.target.native /\ s = run.target.session
    OBVIOUS
<1>3. /\ run.target \in TargetOf(a)
      /\ s = n \/ sessions[s] # None
      /\ sessions[s] # None => sessions[s].native \in {None, n} /\ sessions[s].agent = a
      /\ n \notin moved => run.target.project = Project /\ \A t \in SessionIds : Joined(t, n) => t = s
    BY <1>1, <1>2 DEF TargetInv
<1>4. a \in Adapters
    BY <1>1, <1>2, RunCases DEF TypeInv, Running
<1>5. n \in Native /\ s \in SessionIds /\ Wrappers \cap Native = {} /\ None \notin Native
    BY <1>2, <1>3, <1>4, NativeAssumption DEF TargetOf, Native
<1>6. s = n \/ sessions'[s] # None
    BY <1>3, <1>5 DEF RowsKept
<1>7. sessions'[s] # None => sessions'[s].native \in {None, n} /\ sessions'[s].agent = a
    <2>1. CASE sessions[s] # None
        BY <1>3, <1>5, <2>1 DEF RowsKept
    <2>2. CASE sessions[s] = None
        BY <1>3, <1>5, <2>2 DEF RowsKept
    <2> QED BY <2>1, <2>2
<1>8. ASSUME NEW t \in SessionIds, Joined(t, n)' PROVE Joined(t, n)
    BY <1>5, <1>8 DEF RowsKept, Joined
<1>9. n \notin moved' => n \notin moved
    BY DEF RowsKept
<1> QED BY <1>2, <1>3, <1>6, <1>7, <1>8, <1>9 DEF TargetInv

\* Every step does, until the upsert.
LEMMA TargetStep ==
    ASSUME TypeInv, LogInv, RowInv, TargetInv, [Next]_vars
    PROVE  TargetInv'
<1>1. CASE Reading
    <2>1. run'.phase # "upsert"
        BY <1>1, ReadingFields
    <2> QED BY <2>1 DEF TargetInv
<1>2. CASE UpsertSession \/ Emit
    <2>1. run'.phase # "upsert"
        BY <1>2, UpsertTyped, EmitTyped
    <2> QED BY <2>1 DEF TargetInv
<1>3. CASE SaveCursor
    <2>1. run'.phase # "upsert"
        BY <1>3, SaveLeaves DEF NoRun
    <2> QED BY <2>1 DEF TargetInv
<1>4. CASE Starts
    <2>1. run'.phase # "upsert"
        BY <1>4, StartFields
    <2> QED BY <2>1 DEF TargetInv
<1>5. ASSUME UNCHANGED <<sessions, home, moved>> PROVE RowsKept
    BY <1>5 DEF RowsKept
<1>6. CASE Quits \/ StartHistory \/ \E a, messages : AgentWrites(a, messages)
    <2>1. /\ UNCHANGED <<sessions, home, moved>>
          /\ run' = run \/ run'.phase = "idle"
        BY <1>6, QuitFields, WriteFields DEF StartHistory, storeVars, agentVars
    <2>2. CASE run' = run
        BY <1>5, <2>1, <2>2, TargetKept
    <2>3. CASE run'.phase = "idle"
        BY <2>3 DEF TargetInv
    <2> QED BY <2>1, <2>2, <2>3
<1>7. CASE Wraps
    <2>1. run' = run
        BY <1>7 DEF Wraps, Prepare, Complete
    <2> QED BY <1>7, <2>1, WrapsKeepRows, TargetKept
<1>8. CASE \E n \in Native : MoveHome(n)
    <2>1. PICK n \in Native : MoveHome(n)
        BY <1>8
    <2>2. UNCHANGED <<sessions, run>> /\ moved' = moved \cup {n}
          /\ \A m \in Native : m # n => home'[m] = home[m]
        BY <2>1 DEF MoveHome, storeVars, TypeInv, AgentsTyped
    <2>3. RowsKept
        BY <2>2 DEF RowsKept
    <2> QED BY <2>2, <2>3, TargetKept
<1> QED BY <1>1, <1>2, <1>3, <1>4, <1>6, <1>7, <1>8, FindSetsTarget, StepKinds
-----------------------------------------------------------------------------
(* The start *)

\* The start has the types,
LEMMA InitTyped == Init => TypeInv
<1> SUFFICES ASSUME Init PROVE TypeInv
    OBVIOUS
<1>1. AgentsTyped
    BY NativeAssumption DEF Init, AgentsTyped
<1>2. StoreTyped
    BY DEF Init, StoreTyped, NoCursor, Cursor
<1>3. RunTyped
    BY DEF Init, RunTyped
<1>4. history \in HistoryType
    BY DEF Init, Idle, HistoryType
<1> QED BY <1>1, <1>2, <1>3, <1>4 DEF TypeInv

NativeInv == /\ TypeInv /\ CursorInv /\ LogInv /\ EventInv /\ ItemInv /\ SavedInv /\ RunInv
             /\ HistoryInv /\ ReportInv /\ RowInv /\ TargetInv

\* and the rest of the invariant.
LEMMA InitInv == Init => NativeInv
<1> SUFFICES ASSUME Init PROVE NativeInv
    OBVIOUS
<1>1. ~Running /\ ~Batching /\ run.phase = "idle"
    BY DEF Init, NoRun, Running, Batching
<1>2. \A a \in Adapters : log[a] = {} /\ events[a] = {} /\ asked[a] = {} /\ cursor[a] = NoCursor
    BY DEF Init
<1>3. \A a \in Adapters : Parts(a) = {}
    BY <1>2 DEF Parts, PartsIn
<1>4. history.worker = "none" /\ history.status = "idle"
    BY DEF Init, Idle
<1>5. CursorInv
    BY <1>1, <1>2 DEF Init, CursorInv, NoCursor
<1>6. LogInv /\ EventInv
    BY <1>2 DEF LogInv, EventInv
<1>7. ItemInv /\ RunInv /\ TargetInv
    BY <1>1 DEF ItemInv, RunInv, TargetInv
<1>8. SavedInv /\ ReportInv
    BY <1>2, <1>3 DEF SavedInv, ReportInv
<1>9. HistoryInv
    BY <1>1, <1>2, <1>4 DEF HistoryInv
<1>10. RowInv
    <2>1. \A s \in SessionIds : sessions[s] = None
        BY DEF Init
    <2>2. Native \subseteq SessionIds /\ \A n \in Native : home[n] = Project
        BY DEF Init, SessionIds
    <2> QED BY <1>1, <1>2, <2>1, <2>2 DEF RowInv, Joined
<1> QED BY <1>5, <1>6, <1>7, <1>8, <1>9, <1>10, InitTyped DEF NativeInv

\* Every step keeps the invariant.
LEMMA InvStep == NativeInv /\ [Next]_vars => NativeInv'
<1> SUFFICES ASSUME NativeInv, [Next]_vars PROVE NativeInv'
    OBVIOUS
<1>1. /\ TypeInv /\ CursorInv /\ LogInv /\ EventInv /\ ItemInv /\ SavedInv /\ RunInv
      /\ HistoryInv /\ ReportInv /\ RowInv /\ TargetInv
    BY DEF NativeInv
<1>2. TypeInv' /\ CursorInv' /\ LogInv' /\ EventInv' /\ ItemInv'
    BY <1>1, TypeStep, CursorStep, LogStep, EventStep, ItemStep
<1>3. SavedInv' /\ RunInv' /\ HistoryInv' /\ ReportInv'
    BY <1>1, SavedStep, RunStep, HistoryStep, ReportStep
<1>4. RowInv' /\ TargetInv'
    BY <1>1, RowStep, TargetStep
<1> QED BY <1>2, <1>3, <1>4 DEF NativeInv
-----------------------------------------------------------------------------
(* Results *)

\* The inductive invariant holds in every state.
THEOREM ImportInvariant == Spec => []NativeInv
BY InitInv, InvStep, PTL DEF Spec

\* What no later import will look at again is stored, and a history import that
\* says it completed has stored what was there when it was asked for: the order of
\* reading, ingesting and saving the cursor in run_import, and the worker that
\* turns a failed agent into completed_with_errors.  The only exceptions are a part
\* committed behind a reader, and one that a limited batch of a Gemini file left.
THEOREM NothingIsMissed == Spec => []NothingMissed
<1>1. ASSUME NativeInv PROVE NothingMissed
    <2>1. /\ SavedInv /\ HistoryInv /\ ReportInv
        BY <1>1 DEF NativeInv
    <2>2. PassedMeansStored
        BY <2>1 DEF SavedInv, Accounted, PassedMeansStored
    <2>3. ASSUME history.status = "completed", NEW a \in Adapters, NEW p \in asked[a] \cap Parts(a)
          PROVE  Stored(a, p) \/ <<a, p>> \in late \/ a \in cut
        <3>1. history.agents[a] = "completed"
            BY <2>1, <2>3 DEF HistoryInv
        <3> QED BY <2>1, <2>3, <3>1 DEF ReportInv, Accounted
    <2> QED BY <2>2, <2>3 DEF NothingMissed, CompletedMeansStored
<1> QED BY <1>1, ImportInvariant, PTL

\* No step takes a row or resets its state.
LEMMA WrapperStep ==
    ASSUME TypeInv, LogInv, RowInv, TargetInv, [Next]_vars
    PROVE  WrapperKept
<1>1. CASE UNCHANGED sessions
    BY <1>1 DEF WrapperKept
<1>2. CASE UpsertSession
    <2>1. PICK n, s : n = run.target.native /\ s = run.target.session
        OBVIOUS
    <2>2. /\ s \in SessionIds /\ n \in Native
          /\ sessions' = [sessions EXCEPT ![s] = sessions'[s]] /\ sessions'[s].native = n
          /\ sessions[s] # None =>
               sessions'[s].state = IF sessions[s].state \in {"active", "complete"}
                                    THEN sessions[s].state ELSE "imported"
        BY <1>2, <2>1, UpsertTyped
    <2>3. sessions[s] # None => sessions[s].native \in {None, n}
        BY <1>2, <2>1 DEF TargetInv, UpsertSession
    <2>4. \A t \in SessionIds : t # s => sessions'[t] = sessions[t]
        BY <2>2 DEF TypeInv, StoreTyped
    <2> QED BY <2>2, <2>3, <2>4 DEF WrapperKept
<1>3. CASE Wraps
    <2>1. PICK w \in Wrappers : Prepare(w) \/ Complete(w)
        BY <1>3 DEF Wraps
    <2>2. sessions \in [SessionIds -> Row \cup {None}]
        BY DEF TypeInv, StoreTyped
    <2>3. \A t \in SessionIds : t # w => sessions'[t] = sessions[t]
        BY <2>1, <2>2 DEF Prepare, Complete
    <2>4. Prepare(w) => sessions[w] = None
        BY DEF Prepare
    <2>5. ASSUME Complete(w), sessions[w] # None
          PROVE  sessions'[w].native = sessions[w].native /\ sessions'[w].state = "complete"
        <3>1. PICK old : old = sessions[w]
            OBVIOUS
        <3>2. old \in Row /\ w \in SessionIds
            BY <2>2, <2>5, <3>1 DEF SessionIds
        <3> DEFINE new == [old EXCEPT !.state = "complete", !.ended = EndOf[w]]
        <3>3. new.native = old.native /\ new.state = "complete"
            BY <3>2 DEF Row
        <3>4. sessions' = [sessions EXCEPT ![w] = new]
            BY <2>5, <3>1 DEF Complete
        <3> HIDE DEF new
        <3> QED BY <2>2, <3>1, <3>2, <3>3, <3>4
    <2> QED BY <2>1, <2>3, <2>4, <2>5 DEF WrapperKept
<1>4. Reading \/ FindSession \/ Emit \/ SaveCursor \/ Quits \/ Starts \/ StartHistory
      \/ (\E a, messages : AgentWrites(a, messages)) \/ (\E n \in Native : MoveHome(n))
      => UNCHANGED sessions
    BY ReadingLeaves, SaveLeaves, WriteFields
    DEF FindSession, Emit, Quits, Starts, StartHistory, MoveHome, storeVars
<1> QED BY <1>1, <1>2, <1>3, <1>4, StepKinds

\* A native session stays in the one row it was first joined to while its directory
\* stays, no import takes a row that another native session has or turns a wrapper's
\* session into an imported one: find_session_for_native_import, whose answer
\* ensure_session uses in a later call, and upsert_session's ON CONFLICT.
THEOREM SessionsStayMatched == Spec => SessionsMatched
<1>1. ASSUME RowInv, TypeInv PROVE OneRowPerSession
    <2>1. SUFFICES ASSUME NEW a \in Adapters, NEW d \in events[a], NEW e \in events[a],
                          d.session = e.session, d.session \notin moved
                   PROVE  d.row = e.row
        BY DEF OneRowPerSession
    <2>2. d.row \in SessionIds /\ e.row \in SessionIds /\ d.session \in Native
        BY <1>1, EventRow
    <2> QED BY <1>1, <2>1, <2>2 DEF RowInv
<1>2. NativeInv /\ NativeInv' /\ [Next]_vars => [WrapperKept /\ OneRowPerSession']_vars
    <2>1. NativeInv /\ [Next]_vars => WrapperKept
        BY WrapperStep DEF NativeInv
    <2>2. NativeInv' => OneRowPerSession'
        <3>1. NativeInv => OneRowPerSession
            BY <1>1 DEF NativeInv
        <3> QED BY <3>1, PTL
    <2> QED BY <2>1, <2>2
<1> QED BY <1>2, ImportInvariant, PTL DEF Spec, SessionsMatched
=============================================================================
