--------------------------- MODULE IngestionPipeline ---------------------------
(* The ingestion pipeline of agenttraceback-events: producers queue events,  *)
(* one worker persists them one by one, saves the findings of each and       *)
(* correlates it with independent evidence.  The store is seen through what  *)
(* append_events promises (module EvidenceStore has the writer behind it).   *)
EXTENDS Integers, Sequences, FiniteSets

CONSTANTS
    Producers,       \* tasks that call ingest or close
    Sources,         \* source identities
    Sessions,
    Projects,
    Bodies,          \* contents
    Targets,         \* paths an event may be about
    None,
    QueueCapacity,   \* of the channel to the worker
    Window,          \* window_us and batch_window_us of the correlation engine
    BatchWindow,
    CandidateLimit   \* LIMIT of the candidate query

ASSUME PipelineAssumption ==
    /\ QueueCapacity \in Nat \ {0}
    /\ Window \in Nat /\ BatchWindow \in Nat /\ Window <= BatchWindow
    /\ CandidateLimit \in Nat \ {0}
    /\ None \notin Sessions \cup Projects \cup Targets

VARIABLES
    queue,      \* commands sent to the worker and not received
    job,        \* the event the worker is at, or NoJob
    serving,    \* the worker runs
    reply,      \* what each producer knows of its command
    events,     \* persisted events in the order of their chain
    findings,   \* positions of events whose findings were saved
    pairs,      \* correlations and conflicts, in order
    cut         \* ghost: events whose processing ended before their findings

pipelineVars == <<queue, job, serving, reply, events, findings, pairs, cut>>

\* An event before it is persisted.  Two drafts are equal when the store's
\* identity comparison of their envelopes says so.
Draft == [source : Sources, session : Sessions \cup {None},
          project : Projects \cup {None}, body : Bodies, risky : BOOLEAN,
          class : {"reported", "observed", "verified"},
          sound : BOOLEAN,                        \* attribution exact or high
          family : {"file_mutation", "file_delete", "command", "none"},
          target : Targets \cup {None}, hash : Bodies \cup {None},
          subagent : BOOLEAN, time : Nat]

\* live: no later event of the source supersedes it.
Event == [draft : Draft, live : BOOLEAN]
Pair == [kind : {"correlation", "conflict"}, reported : Nat, observed : Nat]

Shutdown == [from : Producers, kind : {"shutdown"}]
Command == [from : Producers, kind : {"event"}, draft : Draft] \cup Shutdown
NoJob == [stage |-> "none"]
Job == [stage : {"append"}, from : Producers, draft : Draft]
         \cup [stage : {"findings", "correlate"}, from : Producers, id : Nat]

\* A producer is idle, or waits, or has its answer: the persisted event, the
\* end of the worker, an error.
Idle == [state |-> "idle"]
Waiting == [state |-> "waiting"]
Failed == [state |-> "failed"]
Closed == [state |-> "closed"]
Stored(id) == [state |-> "stored", id |-> id]
Reply == {Idle, Waiting, Failed, Closed} \cup [state : {"stored"}, id : Nat]
-----------------------------------------------------------------------------
(* Correlation *)

TimeDelta(a, b) == IF a.time > b.time THEN a.time - b.time ELSE b.time - a.time

\* Faulty variant: events of one boundary support each other.
AnyTwo(a, b) == TRUE

\* Only a reported and an observed event are independent evidence.
Independent(a, b) == {a.class, b.class} = {"reported", "observed"}

ReportedOf(a, b) == IF a.class = "reported" THEN a ELSE b
ObservedOf(a, b) == IF a.class = "reported" THEN b ELSE a

\* The two are about one change: of one session and project, at one path, of
\* one family of actions, close in time, and observed with a sound attribution.
SameChange(a, b) ==
    /\ Independent(a, b)
    /\ a.session = b.session /\ a.project = b.project
    /\ ObservedOf(a, b).sound
    /\ a.target # None /\ a.target = b.target
    /\ a.family = b.family
    /\ TimeDelta(a, b) <= BatchWindow
    /\ TimeDelta(a, b) > Window => a.subagent = b.subagent

HashesDisagree(a, b) == a.hash # None /\ b.hash # None /\ a.hash # b.hash

\* CorrelationEngine::evaluate.
Decision(a, b) ==
    IF ~SameChange(a, b) THEN "no_match"
    ELSE IF HashesDisagree(a, b) THEN "conflict" ELSE "correlation"

\* correlation_candidates: persisted events, superseded versions included, of
\* the other class in the same project and at the same path; the nearest in
\* time, as many as the query returns.
NearbyEvents(id) ==
    LET e == events[id].draft
    IN {j \in DOMAIN events \ {id} :
          /\ e.project # None /\ events[j].draft.project = e.project
          /\ e.target # None /\ events[j].draft.target = e.target
          /\ Independent(e, events[j].draft)
          /\ TimeDelta(e, events[j].draft) <= BatchWindow}

Nearer(id, i, j) ==
    TimeDelta(events[id].draft, events[i].draft) < TimeDelta(events[id].draft, events[j].draft)

Candidates(id) ==
    {j \in NearbyEvents(id) :
       Cardinality({i \in NearbyEvents(id) : Nearer(id, i, j)}) < CandidateLimit}

\* The candidates for which the loop of correlate_event may stop.
Matches(id) ==
    LET decided == {j \in Candidates(id) :
                      Decision(events[id].draft, events[j].draft) # "no_match"}
    IN {j \in decided : \A i \in decided : ~Nearer(id, i, j)}

PairOf(i, j) ==
    [kind |-> Decision(events[i].draft, events[j].draft),
     reported |-> IF events[i].draft.class = "reported" THEN i ELSE j,
     observed |-> IF events[i].draft.class = "reported" THEN j ELSE i]

\* A correlation of a known pair is not inserted again, a conflict is.
WithPair(pair) ==
    IF pair.kind = "correlation" /\ \E k \in DOMAIN pairs : pairs[k] = pair
    THEN pairs ELSE Append(pairs, pair)
-----------------------------------------------------------------------------
PipelineInit ==
    /\ queue = <<>>
    /\ job = NoJob
    /\ serving = TRUE
    /\ reply = [p \in Producers |-> Idle]
    /\ events = <<>>
    /\ findings = {}
    /\ pairs = <<>>
    /\ cut = {}

stored == <<events, findings, pairs, cut>>

Room == Len(queue) < QueueCapacity

\* The sender waits for room in the channel.
Send(command) ==
    /\ serving /\ Room
    /\ queue' = Append(queue, command)
    /\ reply' = [reply EXCEPT ![command.from] = Waiting]
    /\ UNCHANGED <<job, serving, stored>>

\* The receiver is gone: the queue is unavailable.
SendRefused(p) ==
    /\ ~serving
    /\ reply' = [reply EXCEPT ![p] = Failed]
    /\ UNCHANGED <<queue, job, serving, stored>>

Ingest(p, draft) ==
    /\ reply[p] = Idle
    /\ Send([from |-> p, kind |-> "event", draft |-> draft]) \/ SendRefused(p)

Close(p) ==
    /\ reply[p] = Idle
    /\ Send([from |-> p, kind |-> "shutdown"]) \/ SendRefused(p)

Collect(p) ==
    /\ reply[p] \notin {Idle, Waiting}
    /\ reply' = [reply EXCEPT ![p] = Idle]
    /\ UNCHANGED <<queue, job, serving, stored>>

Answer(p, r) ==
    /\ job' = NoJob
    /\ reply' = [reply EXCEPT ![p] = r]

Receive ==
    /\ serving /\ job = NoJob /\ queue # <<>>
    /\ Head(queue).kind = "event"
    /\ job' = [stage |-> "append", from |-> Head(queue).from, draft |-> Head(queue).draft]
    /\ queue' = Tail(queue)
    /\ UNCHANGED <<serving, reply, stored>>

\* Faulty variant: the commands behind the shutdown stay in a queue that
\* nobody reads.
StopWithoutDropping(p) == [reply EXCEPT ![p] = Closed]

\* The receiver is dropped with the queue: who is still in it learns that the
\* worker stopped.
Dismissed(p) ==
    [q \in Producers |-> IF q = p THEN Closed
                         ELSE IF reply[q] = Waiting THEN Failed ELSE reply[q]]

Stop ==
    /\ serving /\ job = NoJob /\ queue # <<>>
    /\ Head(queue).kind = "shutdown"
    /\ serving' = FALSE
    /\ reply' = Dismissed(Head(queue).from)
    /\ queue' = <<>>
    /\ UNCHANGED <<job, stored>>

LiveVersion(source) ==
    {i \in DOMAIN events : events[i].live /\ events[i].draft.source = source}

\* Faulty variant: a replayed event goes through the steps of a new one.
ReplayContinues(id) ==
    /\ job' = [stage |-> "findings", from |-> job.from, id |-> id]
    /\ UNCHANGED reply

\* A source that was persisted before: its event is the answer, and neither its
\* findings nor its correlation are looked at again.
Replay(id) == Answer(job.from, Stored(id))

\* append_events with one event: a known one is returned, another supersedes
\* the live version of its source.
AppendEvent ==
    /\ job.stage = "append"
    /\ LET known == {i \in LiveVersion(job.draft.source) : events[i].draft = job.draft}
       IN \/ \E id \in known : Replay(id) /\ UNCHANGED events
          \/ /\ known = {}
             /\ events' = Append([i \in DOMAIN events |->
                                    IF i \in LiveVersion(job.draft.source)
                                    THEN [events[i] EXCEPT !.live = FALSE] ELSE events[i]],
                                 [draft |-> job.draft, live |-> TRUE])
             /\ job' = [stage |-> "findings", from |-> job.from, id |-> Len(events) + 1]
             /\ UNCHANGED reply
    /\ UNCHANGED <<queue, serving, findings, pairs, cut>>

\* Faulty variant: what an agent reports is not reviewed.
FindingsOfObserved(id) ==
    {i \in {id} : events[i].draft.risky /\ events[i].draft.class = "observed"}

FindingsOf(id) == {i \in {id} : events[i].draft.risky}

SaveFindings ==
    /\ job.stage = "findings"
    /\ findings' = findings \cup FindingsOf(job.id)
    /\ job' = [job EXCEPT !.stage = "correlate"]
    /\ UNCHANGED <<queue, serving, reply, events, pairs, cut>>

\* The first match ends the search.  Failures are logged and nothing else.
CorrelateEvent ==
    /\ job.stage = "correlate"
    /\ \/ \E j \in Matches(job.id) : pairs' = WithPair(PairOf(job.id, j))
       \/ UNCHANGED pairs          \* no match, or it could not be saved
    /\ Answer(job.from, Stored(job.id))
    /\ UNCHANGED <<queue, serving, events, findings, cut>>

\* The events whose findings will not be saved if the job ends here.
CutShort == {id \in DOMAIN events : job.stage = "findings" /\ job.id = id
                                      /\ events[id].draft.risky}

\* The payload, the event or its findings could not be written.
Fail ==
    /\ job.stage \in {"append", "findings"}
    /\ Answer(job.from, Failed)
    /\ cut' = cut \cup CutShort
    /\ UNCHANGED <<queue, serving, events, findings, pairs>>

\* The daemon dies and is started again.
PipelineCrash ==
    /\ queue' = <<>>
    /\ job' = NoJob
    /\ serving' = TRUE
    /\ reply' = [p \in Producers |-> Idle]
    /\ cut' = cut \cup CutShort
    /\ UNCHANGED <<events, findings, pairs>>

Work == Receive \/ Stop \/ AppendEvent \/ SaveFindings \/ CorrelateEvent \/ Fail
-----------------------------------------------------------------------------
(* Correctness *)

PipelineTypeOK ==
    /\ queue \in Seq(Command) /\ Len(queue) <= QueueCapacity
    /\ job \in Job \cup {NoJob}
    /\ serving \in BOOLEAN
    /\ reply \in [Producers -> Reply]
    /\ events \in Seq(Event)
    /\ findings \subseteq DOMAIN events
    /\ pairs \in Seq(Pair)
    /\ cut \subseteq DOMAIN events

\* Every flagged event gets its findings, once it is no longer being processed,
\* unless the process died or failed between the event and its findings: a
\* replay answers with the event and does not make up for them.
FindingsFollowEvents ==
    \A i \in DOMAIN events : events[i].draft.risky =>
        \/ i \in findings
        \/ i \in cut
        \/ job.stage = "findings" /\ job.id = i

\* Replays, retries and crashes never show one agreement or one conflict twice,
\* and a pair always joins independent evidence of one change.
PairsSound ==
    /\ \A k, l \in DOMAIN pairs :
          pairs[k].reported = pairs[l].reported /\ pairs[k].observed = pairs[l].observed => k = l
    /\ \A k \in DOMAIN pairs :
          LET reported == events[pairs[k].reported].draft
              observed == events[pairs[k].observed].draft
          IN /\ reported.class = "reported" /\ observed.class = "observed"
             /\ pairs[k].kind = "correlation" => ~HashesDisagree(reported, observed)

\* Whoever waits is queued or being processed: a reply is never lost, also when
\* the worker stops with commands behind the shutdown.
NobodyForgotten ==
    \A p \in Producers : reply[p] = Waiting =>
        \/ job # NoJob /\ job.from = p
        \/ \E k \in DOMAIN queue : queue[k].from = p
=============================================================================
