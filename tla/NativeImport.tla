----------------------------- MODULE NativeImport -----------------------------
(* Import of agents that keep databases or whole-file logs: OpenCode and       *)
(* Hermes (SQLite) and Gemini (one JSON file).  The import runs in bounded      *)
(* batches under a gate, links what it reads to sessions of the store, which    *)
(* the wrapper creates too, and is driven by requests of the user or by the     *)
(* background history import.  The agents write all the time.                   *)
EXTENDS Integers, Sequences, FiniteSets

CONSTANTS
    AdapterOrder,   \* the adapters in the registry's order
    Installations,  \* which of them a machine may have
    Format,         \* Format[a]: "opencode", "hermes" or "gemini"
    SessionsOf,     \* SessionsOf[a]: the native sessions of its agent
    Wrappers,       \* sessions of the wrapper
    AgentOf,        \* AgentOf[w]: the adapter of the agent that w runs
    Project,        \* the project all of them belong to
    TimeOf,         \* TimeOf[n]: when the first event of native session n was
    StartOf, EndOf, \* StartOf[w], EndOf[w]: when w starts and ends
    Hour,           \* how far apart the two may be
    None,
    MaxBatch,       \* MAX_MESSAGES_PER_BATCH, MAX_RECORDS
    MaxKey,         \* bound: keys of messages
    MaxParts,       \* bound: parts of a message
    MaxWrites,      \* bound: MaxWrites[a] writes of the agent
    MaxTurns        \* bound: requests, directories removed or back, files replaced

Adapters == {AdapterOrder[i] : i \in DOMAIN AdapterOrder}
Native == UNION {SessionsOf[a] : a \in Adapters}
\* The id an adapter derives from the native session stands for itself.
SessionIds == Wrappers \cup Native

\* A row of the sessions' table.
Row == [project : {Project, None}, agent : Adapters, native : Native \cup {None},
        kind : {"import", "wrapper"}, state : {"imported", "active", "complete"},
        started : Int, ended : Int \cup {None}]

ASSUME NativeAssumption ==
    /\ None \notin Nat \cup Wrappers \cup Native \cup {Project}
    /\ None \notin Row
    /\ Wrappers \cap Native = {}
    /\ \A a, b \in Adapters : a # b => SessionsOf[a] \cap SessionsOf[b] = {}
    /\ \A a \in Adapters : Format[a] \in {"opencode", "hermes", "gemini"}
    /\ \A i \in Installations : i \subseteq Adapters
    /\ TimeOf \in [Native -> Int] /\ StartOf \in [Wrappers -> Int] /\ EndOf \in [Wrappers -> Int]
    /\ MaxBatch \in Nat \ {0} /\ MaxKey \in Nat /\ MaxParts \in Nat

VARIABLES
    installed,  \* the adapters that detection finds
    log,        \* log[a]: the messages the agent has written
    stamp,      \* stamp[a]: size and modification time, as a count of writes
    home,       \* home[n]: the project directory n names, or None if it is gone
    sessions,   \* sessions[s]: the row of the store, or None
    events,     \* events[a]: live versions of what was imported
    cursor,     \* cursor[a]: import_cursors
    run,        \* who holds the import gate
    history,    \* HistoryImportStatus and where its worker is
    late,       \* history: parts committed behind a reader that had passed
    cut,        \* history: adapters whose saved cursor is of a limited batch
    moved,      \* history: native sessions whose directory went or came back
    asked,      \* history: parts there when the history import began
    turns       \* bound: turns so far

storeVars == <<sessions, events, cursor>>
agentVars == <<installed, log, stamp, home, late, moved>>
vars == <<storeVars, agentVars, run, history, cut, asked, turns>>

\* A message is one part and those in its row, in the part table or among its
\* function calls.
Message == [key : 1..MaxKey, session : Native, rev : Nat, parts : 0..MaxParts]
PartsOf(m) == {[key |-> m.key, part |-> p, session |-> m.session, rev |-> m.rev] : p \in 0..m.parts}
PartsIn(messages) == UNION {PartsOf(m) : m \in messages}
Parts(a) == PartsIn(log[a])

NoCursor == [native |-> None, stamp |-> None]
Position(c) == IF c.native = None THEN 0 ELSE c.native
NoRun == [phase |-> "idle"]
Idle == [status |-> "idle", agents |-> [a \in Adapters |-> "absent"], worker |-> "none"]

Keys(messages) == {m.key : m \in messages}

\* ORDER BY with LIMIT, or the file's order.
FirstOf(messages) == {m \in messages : Cardinality({k \in Keys(messages) : k < m.key}) < MaxBatch}

LastKey(messages, position) ==
    IF messages = {} THEN position
    ELSE CHOOSE k \in Keys(messages) : \A l \in Keys(messages) : l <= k
-----------------------------------------------------------------------------
(* Reading: load_batch and Gemini's import_source *)

\* The run reads adapter a and has got past its queries.
LoadedBatch(r, items, end, isCut) ==
    [phase |-> "emit", by |-> r.by, adapter |-> r.adapter, cursor |-> r.cursor,
     ensured |-> r.ensured, items |-> items, todo |-> {}, target |-> None,
     outcome |-> end, cut |-> isCut]

\* Faulty variant: the row the cursor names is no longer behind it.
NewerByTime(a, position) == {m \in log[a] : m.key > position + 1}

\* WHERE m.id > last, or the pair of time and id.
Newer(a, position) == {m \in log[a] : m.key > position}

\* Hermes: one query reads messages with their tool calls.
LoadHermes ==
    /\ run.phase = "load" /\ Format[run.adapter] = "hermes"
    /\ LET messages == FirstOf(Newer(run.adapter, Position(run.cursor)))
       IN run' = LoadedBatch(run, PartsIn(messages),
                             [native |-> LastKey(messages, Position(run.cursor)), stamp |-> None],
                             FALSE)
    /\ UNCHANGED <<storeVars, agentVars, history, cut, asked, turns>>

\* OpenCode: one query for the messages,
LoadOpenCode ==
    /\ run.phase = "load" /\ Format[run.adapter] = "opencode"
    /\ LET messages == FirstOf(Newer(run.adapter, Position(run.cursor)))
       IN run' = [LoadedBatch(run, {},
                              [native |-> LastKey(messages, Position(run.cursor)), stamp |-> None],
                              FALSE)
                  EXCEPT !.phase = IF messages = {} THEN "emit" ELSE "parts",
                         !.todo = Keys(messages)]
    /\ UNCHANGED <<storeVars, agentVars, history, cut, asked, turns>>

\* and one for the parts of each.
LoadParts ==
    /\ run.phase = "parts"
    /\ \E m \in log[run.adapter] :
         /\ m.key \in run.todo /\ \A k \in run.todo : m.key <= k
         /\ run' = [run EXCEPT !.items = @ \cup PartsOf(m), !.todo = @ \ {m.key},
                               !.phase = IF run.todo = {m.key} THEN "emit" ELSE "parts"]
    /\ UNCHANGED <<storeVars, agentVars, history, cut, asked, turns>>

\* Gemini: size and time first; a file that has not changed is not read.
Stat ==
    /\ run.phase = "load" /\ Format[run.adapter] = "gemini"
    /\ run' = IF run.cursor.stamp = stamp[run.adapter]
              THEN LoadedBatch(run, {}, run.cursor, run.adapter \in cut)
              ELSE [phase |-> "bytes", by |-> run.by, adapter |-> run.adapter,
                    cursor |-> run.cursor, ensured |-> run.ensured, stamp |-> stamp[run.adapter]]
    /\ UNCHANGED <<storeVars, agentVars, history, cut, asked, turns>>

\* Keys of a file are places, so it has a message at or behind its last one.
Reaches(messages, position) == position = 0 \/ \E m \in messages : position <= m.key

\* A file with fewer messages than were imported was replaced.
StartIndex(position, messages) == IF Reaches(messages, position) THEN position ELSE 0

ReadFile ==
    /\ run.phase = "bytes"
    /\ LET a == run.adapter
           start == StartIndex(Position(run.cursor), log[a])
           batch == FirstOf(Newer(a, start))
           end == LastKey(batch, start)
       IN run' = LoadedBatch(run, PartsIn(batch), [native |-> end, stamp |-> run.stamp],
                             Newer(a, end) # {})
    /\ UNCHANGED <<storeVars, agentVars, history, cut, asked, turns>>
-----------------------------------------------------------------------------
(* The sink: ensure_session, ingest *)

\* A session without a native one, which is not itself an import.
Unassigned(s) == sessions[s].native = None /\ sessions[s].kind # "import"

\* find_session_for_native_import
Matching(a, n) ==
    {s \in SessionIds :
        /\ sessions[s] # None
        /\ sessions[s].project = Project /\ sessions[s].agent = a
        /\ \/ sessions[s].native = n
           \/ /\ Unassigned(s)
              /\ sessions[s].started <= TimeOf[n] + Hour
              /\ sessions[s].ended = None \/ sessions[s].ended >= TimeOf[n] - Hour}

\* Faulty variant: the latest session, whosever it is.
Latest(n, matching) ==
    {s \in matching : \A t \in matching : sessions[s].started >= sessions[t].started}

\* The same native session first, then the latest.
Preferred(n, matching) ==
    LET same == {s \in matching : sessions[s].native = n}
        best == IF same # {} THEN same ELSE matching
    IN {s \in best : \A t \in best : sessions[s].started >= sessions[t].started}

\* What was read is emitted in its order.
IsNext(item) ==
    \A other \in run.items :
        item.key < other.key \/ (item.key = other.key /\ item.part <= other.part)

\* Discover the project, ask the store; the native session's own id otherwise.
FindSession ==
    /\ run.phase = "emit"
    /\ \E item \in run.items :
         LET n == item.session
             matching == Matching(run.adapter, n)
         IN /\ IsNext(item)
            /\ \A s \in SessionIds : run.ensured[s] # n
            /\ \E s \in IF home[n] = None \/ matching = {} THEN {n} ELSE Preferred(n, matching) :
                 run' = [run EXCEPT !.phase = "upsert",
                                    !.target = [native |-> n, session |-> s, project |-> home[n]]]
    /\ UNCHANGED <<storeVars, agentVars, history, cut, asked, turns>>

Coalesce(new, old) == IF new = None THEN old ELSE new

\* An import leaves an active or ended session as it is.
StateKept(old, new) == IF old \in {"active", "complete"} THEN old ELSE new

ImportedRow(a, n, project) ==
    [project |-> project, agent |-> a, native |-> n, kind |-> "import", state |-> "imported",
     started |-> TimeOf[n], ended |-> None]

\* ON CONFLICT(id) DO UPDATE
MergedRow(row, n, project) ==
    [row EXCEPT !.project = Coalesce(project, @), !.native = n, !.state = StateKept(@, "imported"),
                !.started = IF TimeOf[n] < @ THEN TimeOf[n] ELSE @]

UpsertSession ==
    /\ run.phase = "upsert"
    /\ LET n == run.target.native
           s == run.target.session
       IN /\ sessions' = [sessions EXCEPT ![s] =
               IF sessions[s] = None THEN ImportedRow(run.adapter, n, run.target.project)
               ELSE MergedRow(sessions[s], n, run.target.project)]
          /\ run' = [run EXCEPT !.phase = "emit", !.target = None, !.ensured[s] = n]
    /\ UNCHANGED <<events, cursor, agentVars, history, cut, asked, turns>>

SameSource(e, item) == e.key = item.key /\ e.part = item.part /\ e.session = item.session

\* ingest: a new version of a known source supersedes the old one.
Emit ==
    /\ run.phase = "emit"
    /\ \E item \in run.items, s \in SessionIds :
         /\ IsNext(item)
         /\ run.ensured[s] = item.session
         /\ events' = [events EXCEPT ![run.adapter] =
              {e \in @ : ~SameSource(e, item)}
                 \cup {[key |-> item.key, part |-> item.part, session |-> item.session,
                        rev |-> item.rev, row |-> s]}]
         /\ run' = [run EXCEPT !.items = @ \ {item}]
    /\ UNCHANGED <<sessions, cursor, agentVars, history, cut, asked, turns>>
-----------------------------------------------------------------------------
(* run_import, the user's requests and the history import *)

NewRun(by, a) ==
    [phase |-> "load", by |-> by, adapter |-> a, cursor |-> cursor[a],
     ensured |-> [s \in SessionIds |-> None]]

\* The gate is released; the history's worker gets the result.
Ended(r, result) ==
    /\ run' = NoRun
    /\ history' = IF r.by = "history"
                  THEN [history EXCEPT !.agents[r.adapter] = result, !.worker = "next"]
                  ELSE history

\* Databases and Gemini go on while the cursor moves.
More == run.outcome.native # run.cursor.native

\* The cursor of the batch; Gemini's has the size and time before the read.
OutcomeCursor == run.outcome

SaveCursor ==
    /\ run.phase = "emit" /\ run.items = {}
    /\ cursor' = [cursor EXCEPT ![run.adapter] = OutcomeCursor]
    /\ cut' = IF run.cut THEN cut \cup {run.adapter} ELSE cut \ {run.adapter}
    /\ IF More
       THEN /\ run' = [phase |-> "load", by |-> run.by, adapter |-> run.adapter,
                       cursor |-> OutcomeCursor, ensured |-> run.ensured]
            /\ UNCHANGED history
       ELSE Ended(run, "completed")
    /\ UNCHANGED <<sessions, events, agentVars, asked, turns>>

FailedResult == "failed"

\* A query, the parser, the store or the pipeline failed; the cursor stays.
ImportFails ==
    /\ run.phase # "idle"
    /\ Ended(run, FailedResult)
    /\ UNCHANGED <<storeVars, agentVars, cut, asked, turns>>

Import == \/ LoadHermes \/ LoadOpenCode \/ LoadParts \/ Stat \/ ReadFile
          \/ FindSession \/ UpsertSession \/ Emit \/ SaveCursor \/ ImportFails

Turn == turns < MaxTurns /\ turns' = turns + 1

\* import_adapter
RequestImport ==
    /\ run.phase = "idle"
    /\ Turn
    /\ \E a \in installed : run' = NewRun("user", a)
    /\ UNCHANGED <<storeVars, agentVars, history, cut, asked>>

\* start_history_import: a running one is returned as it is.
StartHistory ==
    /\ history.status # "running"
    /\ Turn
    /\ history' = [Idle EXCEPT !.status = "running", !.worker = "views"]
    /\ asked' = [a \in Adapters |-> IF a \in installed THEN Parts(a) ELSE {}]
    /\ UNCHANGED <<storeVars, agentVars, run, cut>>

\* Detection lists the agents, or fails.
ListAgents ==
    /\ history.worker = "views"
    /\ history' \in {[history EXCEPT !.agents = [a \in Adapters |-> IF a \in installed THEN "queued" ELSE "absent"],
                                     !.worker = "next"],
                     [history EXCEPT !.status = "completed_with_errors", !.worker = "none"]}
    /\ UNCHANGED <<storeVars, agentVars, run, cut, asked, turns>>

\* The next agent, in the registry's order, is running; its import waits for the gate.
NextAgent ==
    /\ history.worker = "next"
    /\ \E i \in DOMAIN AdapterOrder :
         /\ history.agents[AdapterOrder[i]] = "queued"
         /\ \A j \in 1..(i - 1) : history.agents[AdapterOrder[j]] # "queued"
         /\ history' = [history EXCEPT !.agents[AdapterOrder[i]] = "running", !.worker = "gate"]
    /\ UNCHANGED <<storeVars, agentVars, run, cut, asked, turns>>

TakeGate ==
    /\ history.worker = "gate" /\ run.phase = "idle"
    /\ \E a \in Adapters :
         /\ history.agents[a] = "running"
         /\ run' = NewRun("history", a)
    /\ history' = [history EXCEPT !.worker = "import"]
    /\ UNCHANGED <<storeVars, agentVars, cut, asked, turns>>

FinishHistory ==
    /\ history.worker = "next"
    /\ \A a \in Adapters : history.agents[a] # "queued"
    /\ history' = [history EXCEPT
         !.worker = "none",
         !.status = IF \E a \in Adapters : history.agents[a] = "failed"
                    THEN "completed_with_errors" ELSE "completed"]
    /\ UNCHANGED <<storeVars, agentVars, run, cut, asked, turns>>

\* Faulty variant: nobody looks after the worker.
Unsupervised == history.status

StatusAfterPanic == "completed_with_errors"

\* The worker panics; its guard is dropped and the supervisor says so.
Panic ==
    /\ history.worker # "none"
    /\ run' = IF history.worker = "import" THEN NoRun ELSE run
    /\ history' = [history EXCEPT !.worker = "none", !.status = StatusAfterPanic]
    /\ UNCHANGED <<storeVars, agentVars, cut, asked, turns>>

\* The daemon dies; the store stays.
Crash ==
    /\ run' = NoRun
    /\ history' = Idle
    /\ UNCHANGED <<storeVars, agentVars, cut, asked, turns>>

Worker == ListAgents \/ NextAgent \/ TakeGate \/ FinishHistory
-----------------------------------------------------------------------------
(* The agents, the wrapper and the user's directories *)

Stored(a, p) ==
    \E e \in events[a] : SameSource(e, p) /\ e.rev = p.rev

\* A cursor or a reader at position has been where the message is; of a Gemini
\* file only if it will not start again.
PassedBy(a, position, messages, key) ==
    /\ key <= position
    /\ Format[a] = "gemini" => Reaches(messages, position)

\* The run has read a batch of a and not yet saved its cursor.
InBatch(a) == run.phase \in {"parts", "emit", "upsert"} /\ run.adapter = a

PassedByRun(a, messages, key) ==
    InBatch(a) /\ PassedBy(a, Position(run.outcome), messages, key) /\ key \notin run.todo

\* Read by the run and not yet emitted.
InHand(a, p) == InBatch(a) /\ p \in run.items

\* A write takes a part behind a reader for good: behind the run it counts unless
\* the run has it in hand, behind the saved cursor in any case, for the run may fail.
Written(a, messages) ==
    /\ stamp[a] < MaxWrites[a]
    /\ log' = [log EXCEPT ![a] = messages]
    /\ stamp' = [stamp EXCEPT ![a] = @ + 1]
    /\ late' = late \cup {a} \X {p \in PartsIn(messages) :
            /\ ~Stored(a, p)
            /\ \/ PassedBy(a, Position(cursor[a]), messages, p.key)
               \/ PassedByRun(a, messages, p.key) /\ ~InHand(a, p)}
    /\ UNCHANGED <<storeVars, installed, home, run, history, cut, moved, asked>>

\* Hermes numbers its rows, Gemini its messages; OpenCode's keys come from
\* clocks of several processes.
NewKeys(a) ==
    IF Format[a] = "opencode" THEN 1..MaxKey \ Keys(log[a])
    ELSE {LastKey(log[a], 0) + 1} \cap 1..MaxKey

\* What Gemini writes in a new file differs from what was there.
RevisionOf(a) == IF Format[a] = "gemini" THEN stamp[a] ELSE 0

Write(a) ==
    \E key \in NewKeys(a), n \in SessionsOf[a] :
        /\ Written(a, log[a] \cup {[key |-> key, session |-> n, rev |-> RevisionOf(a), parts |-> 0]})
        /\ UNCHANGED turns

\* A message that is being streamed gets another part.
WritePart(a) ==
    \E m \in log[a] :
        /\ m.parts < MaxParts
        /\ Written(a, (log[a] \ {m}) \cup {[m EXCEPT !.parts = @ + 1]})
        /\ UNCHANGED turns

\* Gemini's file is written anew with one message.
Replace(a) ==
    /\ Format[a] = "gemini" /\ log[a] # {}
    /\ Turn
    /\ \E n \in SessionsOf[a] :
         Written(a, {[key |-> 1, session |-> n, rev |-> RevisionOf(a), parts |-> 0]})

\* The directory of a native session is removed, or there again.
MoveHome(n) ==
    /\ Turn
    /\ home' = [home EXCEPT ![n] = IF @ = None THEN Project ELSE None]
    /\ moved' = moved \cup {n}
    /\ UNCHANGED <<storeVars, installed, log, stamp, late, run, history, cut, asked>>

\* prepare_wrapper and complete_wrapper, as far as the session's row goes.
Prepare(w) ==
    /\ sessions[w] = None /\ AgentOf[w] \in installed
    /\ sessions' = [sessions EXCEPT ![w] =
         [project |-> Project, agent |-> AgentOf[w], native |-> None, kind |-> "wrapper",
          state |-> "active", started |-> StartOf[w], ended |-> None]]
    /\ UNCHANGED <<events, cursor, agentVars, run, history, cut, asked, turns>>

Complete(w) ==
    /\ sessions[w] # None /\ sessions[w].state = "active"
    /\ sessions' = [sessions EXCEPT ![w].state = "complete", ![w].ended = EndOf[w]]
    /\ UNCHANGED <<events, cursor, agentVars, run, history, cut, asked, turns>>

Init ==
    /\ installed \in Installations
    /\ log = [a \in Adapters |-> {}]
    /\ stamp = [a \in Adapters |-> 0]
    /\ home = [n \in Native |-> Project]
    /\ sessions = [s \in SessionIds |-> None]
    /\ events = [a \in Adapters |-> {}]
    /\ cursor = [a \in Adapters |-> NoCursor]
    /\ run = NoRun
    /\ history = Idle
    /\ late = {} /\ cut = {} /\ moved = {}
    /\ asked = [a \in Adapters |-> {}]
    /\ turns = 0

Environment ==
    \/ \E a \in installed : Write(a) \/ WritePart(a) \/ Replace(a)
    \/ \E n \in UNION {SessionsOf[a] : a \in installed} : MoveHome(n)
    \/ \E w \in Wrappers : Prepare(w) \/ Complete(w)

Next == Import \/ RequestImport \/ StartHistory \/ Worker \/ Panic \/ Crash \/ Environment

\* Imports and the worker are tasks, which are polled while they are ready.
Spec == Init /\ [][Next]_vars /\ WF_vars(Import) /\ WF_vars(Worker)
-----------------------------------------------------------------------------
(* Correctness *)

\* The next import with the saved cursor does not look at this part again.
Behind(a, p) ==
    \/ PassedBy(a, Position(cursor[a]), log[a], p.key)
    \/ Format[a] = "gemini" /\ cursor[a].stamp = stamp[a] /\ a \notin cut

\* What later imports will not look at again was imported, whatever failed, died
\* or was written in between: unless it was committed behind a reader that had
\* passed, or a limited batch of a Gemini file left it behind.
PassedMeansStored ==
    \A a \in Adapters : \A p \in Parts(a) :
        Behind(a, p) => Stored(a, p) \/ <<a, p>> \in late

\* The events of a native session are in one session of the store, across batches,
\* restarts and wrappers that come and go, if its directory stays.
OneRowPerSession ==
    \A a \in Adapters : \A d, e \in events[a] :
        d.session = e.session /\ d.session \notin moved => d.row = e.row

\* An import never takes a session from another native one, and never makes a
\* running or ended wrapper session an imported one.
WrapperKept ==
    \A s \in SessionIds : sessions[s] # None =>
        /\ sessions[s].native # None => sessions'[s].native = sessions[s].native
        /\ sessions[s].state \in {"active", "complete"} =>
             sessions'[s].state \in {sessions[s].state, "complete"}

\* A native session is found again in the one row it was first joined to, however
\* wrappers and directories come and go, and takes nobody else's.
SessionsMatched == [][WrapperKept /\ OneRowPerSession']_vars

\* A history import that reports completion has imported all that was there when
\* it was asked for, but for what came late or was left behind by a limited batch.
CompletedMeansStored ==
    history.status = "completed" =>
        \A a \in Adapters : \A p \in asked[a] \cap Parts(a) :
            Stored(a, p) \/ <<a, p>> \in late \/ a \in cut

\* Neither the cursor nor the report of an import vouches for what is not stored.
NothingMissed == PassedMeansStored /\ CompletedMeansStored

\* A history import comes to an end.
HistoryEnds == history.status = "running" ~> history.status # "running"
=============================================================================
