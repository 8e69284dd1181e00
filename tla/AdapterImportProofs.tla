-------------------------- MODULE AdapterImportProofs --------------------------
(* The ingestion pipeline under an import and any number of other producers:  *)
(* no reply is forgotten, findings follow their events, pairs are sound.      *)
(* There the proofs rest on the shape of the commands alone, never on the     *)
(* contents of a draft.  Then the import itself: what it has persisted is     *)
(* what the agent wrote, in order and without gaps, and a run that ends well  *)
(* has drained the log it found.                                              *)
EXTENDS AdapterImport, SequenceTheorems, FiniteSetTheorems, TLAPS

PipelineNext ==
    \/ \E p \in Producers : \E draft : Ingest(p, draft)
    \/ \E p \in Producers : Close(p) \/ Collect(p)
    \/ Work
    \/ PipelineCrash

CommandOver(D) == [from : Producers, kind : {"event"}, draft : D] \cup Shutdown
JobOver(D) ==
    {NoJob} \cup [stage : {"append"}, from : Producers, draft : D]
            \cup [stage : {"findings", "correlate"}, from : Producers, id : Nat]
EventOver(D) == [draft : D, live : BOOLEAN]

\* Commands, the job and events are records over some set of drafts.
ShapeOver(D) ==
    /\ queue \in Seq(CommandOver(D))
    /\ job \in JobOver(D)
    /\ events \in Seq(EventOver(D))

Shape == DOMAIN reply = Producers /\ \E D : ShapeOver(D)

\* Every step of the import is one of the pipeline or leaves it alone.
LEMMA ImportDrivesPipeline == [Next]_vars => [PipelineNext]_pipelineVars
<1> SUFFICES ASSUME [Next]_vars PROVE [PipelineNext]_pipelineVars
    OBVIOUS
<1>1. CASE Import
    <2>1. CASE Emit
        <3>1. \E draft : Ingest(Importer, draft)
            BY <2>1 DEF Emit
        <3> QED BY <3>1, ImportAssumption DEF PipelineNext
    <2>2. CASE Await
        BY <2>2, ImportAssumption DEF Await, PipelineNext
    <2>3. CASE \/ Discover \/ CheckPrefix \/ ReadBatch \/ ReadHeader
               \/ TakeDigest \/ SaveCursor \/ ImportFails
        BY <2>3 DEF Discover, CheckPrefix, ReadBatch, ReadHeader, TakeDigest, SaveCursor,
                    ImportFails
    <2> QED BY <1>1, <2>1, <2>2, <2>3 DEF Import
<1>2. CASE Crash
    BY <1>2 DEF Crash, PipelineNext
<1>3. CASE Write \/ Rewrite
    BY <1>3 DEF Write, Rewrite
<1>4. CASE Observe
    <2> PICK p \in Producers \ {Importer} :
              Close(p) \/ (\E draft \in Drafts : Ingest(p, draft)) \/ Collect(p)
        BY <1>4 DEF Observe
    <2>1. CASE \E draft \in Drafts : Ingest(p, draft)
        <3>1. \E draft : Ingest(p, draft)
            BY <2>1
        <3> QED BY <3>1 DEF PipelineNext
    <2>2. CASE Close(p) \/ Collect(p)
        BY <2>2 DEF PipelineNext
    <2> QED BY <2>1, <2>2
<1>5. CASE Work
    BY <1>5 DEF PipelineNext
<1>6. CASE UNCHANGED vars
    BY <1>6 DEF vars
<1> QED BY <1>1, <1>2, <1>3, <1>4, <1>5, <1>6 DEF Next
-----------------------------------------------------------------------------
(* Replies *)

\* Whoever waits is queued or in work, and the commands keep their shape.
RepliesInv == Shape /\ NobodyForgotten

\* Records over fewer drafts are records over more.
LEMMA ShapeGrows ==
    ASSUME NEW D, NEW E, D \subseteq E, ShapeOver(D)
    PROVE  ShapeOver(E)
<1>1. CommandOver(D) \subseteq CommandOver(E) /\ EventOver(D) \subseteq EventOver(E)
    BY DEF CommandOver, EventOver
<1>2. JobOver(D) \subseteq JobOver(E)
    BY DEF JobOver
<1>3. queue \in Seq(CommandOver(E)) /\ events \in Seq(EventOver(E))
    BY <1>1 DEF ShapeOver
<1> QED BY <1>2, <1>3 DEF ShapeOver

\* A command that is sent or refused.
LEMMA SendKeepsReplies ==
    ASSUME RepliesInv, NEW D, ShapeOver(D), NEW command \in CommandOver(D),
           reply[command.from] = Idle,
           Send(command) \/ SendRefused(command.from)
    PROVE  RepliesInv'
<1>0. command.from \in Producers /\ DOMAIN reply = Producers
    BY DEF CommandOver, Shutdown, RepliesInv, Shape
<1>1. CASE Send(command)
    <2>1. queue' = Append(queue, command) /\ queue \in Seq(CommandOver(D))
          /\ UNCHANGED <<job, events>>
        BY <1>1 DEF Send, ShapeOver, stored
    <2>2. queue' \in Seq(CommandOver(D)) /\ Len(queue') = Len(queue) + 1
          /\ queue'[Len(queue) + 1] = command
          /\ \A k \in 1..Len(queue) : queue'[k] = queue[k]
        BY <2>1
    <2>3. Shape'
        BY <1>0, <1>1, <2>1, <2>2 DEF Shape, ShapeOver, Send
    <2>4. ASSUME NEW p \in Producers, reply'[p] = Waiting
          PROVE  \/ job' # NoJob /\ job'.from = p
                 \/ \E k \in DOMAIN queue' : queue'[k].from = p
        <3>1. CASE p = command.from
            BY <2>2, <2>1, <3>1
        <3>2. CASE p # command.from
            <4>1. reply[p] = Waiting
                BY <1>0, <1>1, <2>4, <3>2 DEF Send
            <4>2. CASE job # NoJob /\ job.from = p
                BY <2>1, <4>2
            <4>3. CASE \E k \in DOMAIN queue : queue[k].from = p
                BY <2>1, <2>2, <4>3
            <4> QED BY <4>1, <4>2, <4>3 DEF RepliesInv, NobodyForgotten
        <3> QED BY <3>1, <3>2
    <2> QED BY <2>3, <2>4 DEF RepliesInv, NobodyForgotten
<1>2. CASE SendRefused(command.from)
    <2>1. Shape'
        BY <1>0, <1>2 DEF SendRefused, Shape, ShapeOver, stored, RepliesInv
    <2>2. \A p \in Producers : reply'[p] = Waiting => reply[p] = Waiting
        BY <1>0, <1>2 DEF SendRefused, Failed, Waiting
    <2> QED BY <1>2, <2>1, <2>2 DEF SendRefused, RepliesInv, NobodyForgotten
<1> QED BY <1>1, <1>2

\* A producer sends an event, whatever it says.
LEMMA IngestKeepsReplies ==
    ASSUME RepliesInv, NEW p \in Producers, NEW draft, Ingest(p, draft)
    PROVE  RepliesInv'
<1> PICK D : ShapeOver(D)
    BY DEF RepliesInv, Shape
<1> DEFINE E == D \cup {draft}
           command == [from |-> p, kind |-> "event", draft |-> draft]
<1>1. ShapeOver(E)
    BY ShapeGrows
<1>2. command \in CommandOver(E) /\ command.from = p
    BY DEF CommandOver
<1>3. reply[p] = Idle /\ (Send(command) \/ SendRefused(p))
    BY DEF Ingest
<1> HIDE DEF E, command
<1> QED BY <1>1, <1>2, <1>3, SendKeepsReplies

\* A producer asks the worker to stop.
LEMMA CloseKeepsReplies ==
    ASSUME RepliesInv, NEW p \in Producers, Close(p)
    PROVE  RepliesInv'
<1> PICK D : ShapeOver(D)
    BY DEF RepliesInv, Shape
<1> DEFINE command == [from |-> p, kind |-> "shutdown"]
<1>1. command \in CommandOver(D) /\ command.from = p
    BY DEF CommandOver, Shutdown
<1>2. reply[p] = Idle /\ (Send(command) \/ SendRefused(p))
    BY DEF Close
<1> HIDE DEF command
<1> QED BY <1>1, <1>2, SendKeepsReplies

\* The producer of the job gets an answer, nobody else notices.
LEMMA AnswerKeepsReplies ==
    ASSUME RepliesInv, job # NoJob, NEW r, r # Waiting, Answer(job.from, r),
           UNCHANGED queue, NEW F, F = events', (\E D : ShapeOver(D) /\ F \in Seq(EventOver(D)))
    PROVE  RepliesInv'
<1> PICK D : ShapeOver(D) /\ F \in Seq(EventOver(D))
    OBVIOUS
<1>1. DOMAIN reply' = Producers
    BY DEF RepliesInv, Shape, Answer
<1>2. ShapeOver(D)'
    BY DEF ShapeOver, Answer, JobOver
<1>3. \A p \in Producers : reply'[p] = Waiting => p # job.from /\ reply[p] = Waiting
    BY DEF RepliesInv, Shape, Answer
<1> QED BY <1>1, <1>2, <1>3 DEF RepliesInv, Shape, NobodyForgotten

\* The worker: one step per await of run_worker and process_event.
LEMMA WorkKeepsReplies ==
    ASSUME RepliesInv, Work
    PROVE  RepliesInv'
<1> PICK D : ShapeOver(D)
    BY DEF RepliesInv, Shape
<1>a. DOMAIN reply = Producers
    BY DEF RepliesInv, Shape
<1>b. /\ queue \in Seq(CommandOver(D)) /\ job \in JobOver(D) /\ events \in Seq(EventOver(D))
    BY DEF ShapeOver
<1>1. CASE Receive
    <2>1. queue # <<>> /\ Head(queue) \in CommandOver(D) /\ Head(queue).kind = "event"
        BY <1>b, <1>1 DEF Receive
    <2>2. Head(queue).from \in Producers /\ Head(queue).draft \in D
        BY <2>1 DEF CommandOver, Shutdown
    <2>3. job' \in JobOver(D) /\ job' # NoJob /\ job'.from = queue[1].from
        BY <1>b, <1>1, <2>1, <2>2 DEF Receive, JobOver, NoJob
    <2>4. queue' \in Seq(CommandOver(D)) /\ Len(queue') = Len(queue) - 1
          /\ \A k \in 2..Len(queue) : queue'[k - 1] = queue[k]
        BY <1>b, <1>1, <2>1 DEF Receive
    <2>5. Shape'
        BY <1>a, <1>b, <1>1, <2>3, <2>4 DEF Shape, ShapeOver, Receive, stored
    <2>6. ASSUME NEW p \in Producers, reply[p] = Waiting
          PROVE  \/ job' # NoJob /\ job'.from = p
                 \/ \E k \in DOMAIN queue' : queue'[k].from = p
        <3> PICK k \in DOMAIN queue : queue[k].from = p
            BY <1>1, <2>6 DEF RepliesInv, NobodyForgotten, Receive
        <3>1. CASE k = 1
            BY <2>3, <3>1
        <3>2. CASE k # 1
            <4>1. k - 1 \in DOMAIN queue' /\ queue'[k - 1].from = p
                BY <1>b, <2>4, <3>2
            <4> QED BY <4>1
        <3> QED BY <3>1, <3>2
    <2> QED BY <1>1, <2>5, <2>6 DEF Receive, RepliesInv, NobodyForgotten
<1>2. CASE Stop
    <2>1. Head(queue) \in CommandOver(D)
        BY <1>b, <1>2 DEF Stop
    <2>2. ShapeOver(D)'
        BY <1>b, <1>2 DEF Stop, ShapeOver, stored
    <2>3. DOMAIN reply' = Producers /\ \A p \in Producers : reply'[p] # Waiting
        BY <1>2 DEF Stop, Dismissed, Closed, Failed, Waiting
    <2> QED BY <2>2, <2>3 DEF RepliesInv, Shape, NobodyForgotten
<1>3. CASE AppendEvent
    <2>0. job.stage = "append" /\ job # NoJob /\ job.from \in Producers /\ job.draft \in D
        BY <1>b, <1>3 DEF AppendEvent, JobOver, NoJob
    <2>1. CASE \E id \in DOMAIN events : Replay(id) /\ UNCHANGED events
        <3> PICK id \in DOMAIN events : Replay(id) /\ UNCHANGED events
            BY <2>1
        <3>1. Stored(id) # Waiting
            BY DEF Stored, Waiting
        <3>2. UNCHANGED queue
            BY <1>3 DEF AppendEvent
        <3> QED BY <1>b, <2>0, <3>1, <3>2, AnswerKeepsReplies DEF Replay
    <2>2. CASE /\ events' = Append([i \in DOMAIN events |->
                                     IF i \in LiveVersion(job.draft.source)
                                     THEN [events[i] EXCEPT !.live = FALSE] ELSE events[i]],
                                   [draft |-> job.draft, live |-> TRUE])
               /\ job' = [stage |-> "findings", from |-> job.from, id |-> Len(events) + 1]
               /\ UNCHANGED reply
        <3> DEFINE old == [i \in DOMAIN events |->
                             IF i \in LiveVersion(job.draft.source)
                             THEN [events[i] EXCEPT !.live = FALSE] ELSE events[i]]
        <3>1. \A e \in EventOver(D) : [e EXCEPT !.live = FALSE] \in EventOver(D)
            BY DEF EventOver
        <3>2. \A i \in DOMAIN events : events[i] \in EventOver(D)
            BY <1>b
        <3>3. old \in Seq(EventOver(D))
            BY <1>b, <3>1, <3>2
        <3>4. [draft |-> job.draft, live |-> TRUE] \in EventOver(D)
            BY <2>0 DEF EventOver
        <3>5. events' \in Seq(EventOver(D))
            BY <2>2, <3>3, <3>4
        <3>6. job' \in JobOver(D) /\ job' # NoJob /\ job'.from = job.from
            BY <1>b, <2>0, <2>2 DEF JobOver, NoJob
        <3>7. Shape'
            BY <1>a, <1>b, <1>3, <2>2, <3>5, <3>6 DEF Shape, ShapeOver, AppendEvent
        <3> QED BY <1>3, <2>0, <2>2, <3>6, <3>7 DEF AppendEvent, RepliesInv, NobodyForgotten
    <2> QED BY <1>3, <2>1, <2>2 DEF AppendEvent, LiveVersion
<1>4. CASE SaveFindings
    <2>1. job' \in JobOver(D) /\ job' # NoJob /\ job'.from = job.from /\ job # NoJob
        BY <1>b, <1>4 DEF SaveFindings, JobOver, NoJob
    <2> QED BY <1>a, <1>b, <1>4, <2>1 DEF SaveFindings, RepliesInv, NobodyForgotten, Shape, ShapeOver
<1>5. CASE CorrelateEvent
    <2>1. Stored(job.id) # Waiting /\ job # NoJob
        BY <1>5 DEF Stored, Waiting, CorrelateEvent, NoJob
    <2> QED BY <1>b, <1>5, <2>1, AnswerKeepsReplies DEF CorrelateEvent
<1>6. CASE Fail
    <2>1. Failed # Waiting /\ job # NoJob
        BY <1>6 DEF Failed, Waiting, Fail, NoJob
    <2> QED BY <1>b, <1>6, <2>1, AnswerKeepsReplies DEF Fail
<1> QED BY <1>1, <1>2, <1>3, <1>4, <1>5, <1>6 DEF Work

\* Every step of the pipeline, the crash included.
LEMMA RepliesStep == RepliesInv /\ [PipelineNext]_pipelineVars => RepliesInv'
<1> SUFFICES ASSUME RepliesInv, [PipelineNext]_pipelineVars PROVE RepliesInv'
    OBVIOUS
<1> PICK D : ShapeOver(D)
    BY DEF RepliesInv, Shape
<1>1. CASE \E p \in Producers : \E draft : Ingest(p, draft)
    BY <1>1, IngestKeepsReplies
<1>2. CASE \E p \in Producers : Close(p)
    BY <1>2, CloseKeepsReplies
<1>3. CASE \E p \in Producers : Collect(p)
    <2> PICK p \in Producers : Collect(p)
        BY <1>3
    <2>1. Shape' /\ \A q \in Producers : reply'[q] = Waiting => reply[q] = Waiting
        BY DEF Collect, RepliesInv, Shape, ShapeOver, stored, Idle, Waiting
    <2> QED BY <2>1 DEF Collect, RepliesInv, NobodyForgotten
<1>4. CASE Work
    BY <1>4, WorkKeepsReplies
<1>5. CASE PipelineCrash
    <2>1. ShapeOver(D)'
        BY <1>5 DEF PipelineCrash, ShapeOver, JobOver
    <2>2. DOMAIN reply' = Producers /\ \A q \in Producers : reply'[q] # Waiting
        BY <1>5 DEF PipelineCrash, Idle, Waiting
    <2> QED BY <2>1, <2>2 DEF RepliesInv, Shape, NobodyForgotten
<1>6. CASE UNCHANGED pipelineVars
    BY <1>6 DEF pipelineVars, RepliesInv, Shape, ShapeOver, NobodyForgotten
<1> QED BY <1>1, <1>2, <1>3, <1>4, <1>5, <1>6 DEF PipelineNext

\* Nobody waits at the start.
LEMMA RepliesStart == Init => RepliesInv
<1> SUFFICES ASSUME Init PROVE RepliesInv
    OBVIOUS
<1>1. ShapeOver({})
    BY DEF Init, PipelineInit, ShapeOver, JobOver
<1>2. DOMAIN reply = Producers /\ \A p \in Producers : reply[p] # Waiting
    BY DEF Init, PipelineInit, Idle, Waiting
<1> QED BY <1>1, <1>2 DEF RepliesInv, Shape, NobodyForgotten

\* run_worker: whoever waits for a reply is queued or in work, for any number of
\* producers and any interleaving of sends, answers, failures, the end of the
\* worker and restarts.
THEOREM NoReplyForgotten == Spec => []NobodyForgotten
<1>1. Spec => []RepliesInv
    <2>1. RepliesInv /\ [Next]_vars => RepliesInv'
        BY RepliesStep, ImportDrivesPipeline
    <2> QED BY <2>1, RepliesStart, PTL DEF Spec
<1>2. RepliesInv => NobodyForgotten
    BY DEF RepliesInv
<1> QED BY <1>1, <1>2, PTL
-----------------------------------------------------------------------------
(* Findings and pairs *)

\* The event in work is the latest one, no pair has it, and all pairs are of
\* persisted events.
LatestInWork ==
    /\ job.stage \in {"findings", "correlate"} => job.id = Len(events) /\ job.id > 0
    /\ pairs \in Seq(Pair)
    /\ \A k \in DOMAIN pairs :
          /\ pairs[k].reported \in DOMAIN events /\ pairs[k].observed \in DOMAIN events
          /\ job.stage \in {"findings", "correlate"} =>
                pairs[k].reported # job.id /\ pairs[k].observed # job.id

EvidenceInv == Shape /\ FindingsFollowEvents /\ LatestInWork /\ PairsSound

\* AppendEvent either knows the event or puts a new one behind the others.
LEMMA AppendCases ==
    ASSUME NEW D, ShapeOver(D), AppendEvent
    PROVE  \/ job' = NoJob /\ UNCHANGED events
           \/ /\ job' = [stage |-> "findings", from |-> job.from, id |-> Len(events) + 1]
              /\ Len(events') = Len(events) + 1 /\ DOMAIN events' = 1..(Len(events) + 1)
              /\ \A i \in DOMAIN events : events'[i].draft = events[i].draft
<1>1. CASE \E id \in DOMAIN events : Replay(id) /\ UNCHANGED events
    BY <1>1 DEF Replay, Answer
<1>2. CASE /\ events' = Append([i \in DOMAIN events |->
                                 IF i \in LiveVersion(job.draft.source)
                                 THEN [events[i] EXCEPT !.live = FALSE] ELSE events[i]],
                               [draft |-> job.draft, live |-> TRUE])
           /\ job' = [stage |-> "findings", from |-> job.from, id |-> Len(events) + 1]
    <2> DEFINE old == [i \in DOMAIN events |->
                         IF i \in LiveVersion(job.draft.source)
                         THEN [events[i] EXCEPT !.live = FALSE] ELSE events[i]]
    <2>0. job.draft \in D
        BY DEF ShapeOver, AppendEvent, JobOver, NoJob
    <2>1. \A e \in EventOver(D) : /\ [e EXCEPT !.live = FALSE] \in EventOver(D)
                                  /\ [e EXCEPT !.live = FALSE].draft = e.draft
        BY DEF EventOver
    <2>2. events \in Seq(EventOver(D)) /\ \A i \in DOMAIN events : events[i] \in EventOver(D)
        BY DEF ShapeOver
    <2>3. old \in Seq(EventOver(D)) /\ Len(old) = Len(events)
        BY <2>1, <2>2
    <2>4. \A i \in DOMAIN events : old[i].draft = events[i].draft
        BY <2>1, <2>2
    <2>5. [draft |-> job.draft, live |-> TRUE] \in EventOver(D)
        BY <2>0 DEF EventOver
    <2>6. /\ Len(events') = Len(events) + 1 /\ DOMAIN events' = 1..(Len(events) + 1)
          /\ \A i \in DOMAIN events : events'[i] = old[i]
        BY <1>2, <2>2, <2>3, <2>5
    <2> HIDE DEF old
    <2> QED BY <1>2, <2>4, <2>6
<1> QED BY <1>1, <1>2 DEF AppendEvent, LiveVersion

\* Steps that leave events, findings, pairs and the losses alone, and begin or
\* end no review.
LEMMA NothingReviewed ==
    ASSUME EvidenceInv, Shape', UNCHANGED stored,
           job.stage \notin {"findings", "correlate"} \/ UNCHANGED job,
           job'.stage \notin {"findings", "correlate"} \/ UNCHANGED job
    PROVE  EvidenceInv'
<1>1. FindingsFollowEvents'
    BY DEF stored, EvidenceInv, FindingsFollowEvents
<1>2. LatestInWork'
    BY DEF stored, EvidenceInv, LatestInWork
<1>3. PairsSound'
    BY DEF stored, EvidenceInv, PairsSound, HashesDisagree
<1> QED BY <1>1, <1>2, <1>3 DEF EvidenceInv

\* A new event goes into work, a known one does not.
LEMMA AppendKeepsEvidence ==
    ASSUME EvidenceInv, AppendEvent, Shape'
    PROVE  EvidenceInv'
<1> PICK D : ShapeOver(D)
    BY DEF EvidenceInv, Shape
<1>0. events \in Seq(EventOver(D)) /\ UNCHANGED <<findings, pairs, cut>> /\ job.stage = "append"
    BY DEF ShapeOver, AppendEvent
<1>1. CASE job' = NoJob /\ UNCHANGED events
    BY <1>0, <1>1, NothingReviewed DEF stored, NoJob
<1>2. CASE /\ job' = [stage |-> "findings", from |-> job.from, id |-> Len(events) + 1]
           /\ Len(events') = Len(events) + 1 /\ DOMAIN events' = 1..(Len(events) + 1)
           /\ \A i \in DOMAIN events : events'[i].draft = events[i].draft
    <2>0. DOMAIN events = 1..Len(events) /\ Len(events) \in Nat
        BY <1>0
    <2>1. FindingsFollowEvents'
        <3> SUFFICES ASSUME NEW i \in DOMAIN events', events'[i].draft.risky
                     PROVE  i \in findings' \/ i \in cut' \/ (job'.stage = "findings" /\ job'.id = i)
            BY DEF FindingsFollowEvents
        <3>1. CASE i \in DOMAIN events
            BY <1>0, <1>2, <3>1 DEF EvidenceInv, FindingsFollowEvents
        <3>2. CASE i = Len(events) + 1
            BY <1>2, <3>2
        <3> QED BY <1>2, <2>0, <3>1, <3>2
    <2>2. LatestInWork'
        BY <1>0, <1>2, <2>0 DEF EvidenceInv, LatestInWork
    <2>3. PairsSound'
        <3>1. \A k \in DOMAIN pairs : /\ events'[pairs[k].reported].draft = events[pairs[k].reported].draft
                                      /\ events'[pairs[k].observed].draft = events[pairs[k].observed].draft
            BY <1>2 DEF EvidenceInv, LatestInWork
        <3> QED BY <1>0, <3>1 DEF EvidenceInv, PairsSound, HashesDisagree
    <2> QED BY <2>1, <2>2, <2>3 DEF EvidenceInv
<1> QED BY <1>1, <1>2, AppendCases

\* The findings of the event in work are saved.
LEMMA FindingsKeepEvidence ==
    ASSUME EvidenceInv, SaveFindings, Shape'
    PROVE  EvidenceInv'
<1> PICK D : ShapeOver(D)
    BY DEF EvidenceInv, Shape
<1>0. /\ job'.stage = "correlate" /\ job'.id = job.id /\ job.stage = "findings"
      /\ UNCHANGED <<events, pairs, cut>>
    BY DEF ShapeOver, SaveFindings, JobOver, NoJob
<1>1. FindingsFollowEvents'
    BY <1>0 DEF SaveFindings, FindingsOf, EvidenceInv, FindingsFollowEvents
<1>2. LatestInWork'
    BY <1>0 DEF EvidenceInv, LatestInWork
<1>3. PairsSound'
    BY <1>0 DEF EvidenceInv, PairsSound, HashesDisagree
<1> QED BY <1>1, <1>2, <1>3 DEF EvidenceInv

\* A pair joins a report with an observation that does not contradict it, or
\* says that it does.
JoinsIndependent(pair) ==
    /\ pair.kind \in {"correlation", "conflict"}
    /\ events[pair.reported].draft.class = "reported"
    /\ events[pair.observed].draft.class = "observed"
    /\ pair.kind = "correlation" =>
          ~HashesDisagree(events[pair.reported].draft, events[pair.observed].draft)

\* The pair that a match makes.
LEMMA MatchedPair ==
    \A id \in DOMAIN events : \A j \in Matches(id) :
        /\ j \in DOMAIN events \ {id}
        /\ {PairOf(id, j).reported, PairOf(id, j).observed} = {id, j}
        /\ JoinsIndependent(PairOf(id, j))
<1> SUFFICES ASSUME NEW id \in DOMAIN events, NEW j \in Matches(id)
             PROVE  /\ j \in DOMAIN events \ {id}
                    /\ {PairOf(id, j).reported, PairOf(id, j).observed} = {id, j}
                    /\ JoinsIndependent(PairOf(id, j))
    OBVIOUS
<1>1. j \in NearbyEvents(id) /\ Decision(events[id].draft, events[j].draft) # "no_match"
    BY DEF Matches, Candidates
<1>2. j \in DOMAIN events \ {id} /\ Independent(events[id].draft, events[j].draft)
    BY <1>1 DEF NearbyEvents
<1>3. CASE events[id].draft.class = "reported"
    <2>1. events[j].draft.class = "observed"
        BY <1>2, <1>3 DEF Independent
    <2> QED BY <1>1, <1>2, <1>3, <2>1 DEF PairOf, Decision, HashesDisagree, JoinsIndependent
<1>4. CASE events[id].draft.class # "reported"
    <2>1. events[id].draft.class = "observed" /\ events[j].draft.class = "reported"
        BY <1>2, <1>4 DEF Independent
    <2> QED BY <1>1, <1>2, <1>4, <2>1 DEF PairOf, Decision, HashesDisagree, JoinsIndependent
<1> QED BY <1>3, <1>4

\* The event in work gets at most one pair, its first.
LEMMA CorrelationKeepsEvidence ==
    ASSUME EvidenceInv, CorrelateEvent, Shape'
    PROVE  EvidenceInv'
<1> PICK D : ShapeOver(D)
    BY DEF EvidenceInv, Shape
<1>0. /\ job.stage = "correlate" /\ job'.stage = "none" /\ UNCHANGED <<events, findings, cut>>
      /\ events \in Seq(EventOver(D)) /\ pairs \in Seq(Pair)
    BY DEF ShapeOver, CorrelateEvent, Answer, NoJob, EvidenceInv, LatestInWork
<1>1. FindingsFollowEvents'
    BY <1>0 DEF EvidenceInv, FindingsFollowEvents
<1>2. CASE UNCHANGED pairs
    BY <1>0, <1>1, <1>2 DEF EvidenceInv, LatestInWork, PairsSound, HashesDisagree
<1>3. CASE \E j \in Matches(job.id) : pairs' = Append(pairs, PairOf(job.id, j))
    <2> PICK j \in Matches(job.id) : pairs' = Append(pairs, PairOf(job.id, j))
        BY <1>3
    <2> DEFINE pair == PairOf(job.id, j)
    <2>1. job.id \in DOMAIN events
        BY <1>0 DEF EvidenceInv, LatestInWork
    <2>2. /\ j \in DOMAIN events \ {job.id}
          /\ {pair.reported, pair.observed} = {job.id, j}
          /\ JoinsIndependent(pair)
        BY <2>1, MatchedPair
    <2>3. pair.reported \in DOMAIN events /\ pair.observed \in DOMAIN events
          /\ (pair.reported = job.id \/ pair.observed = job.id)
        BY <2>1, <2>2
    <2>4. pair \in Pair
        BY <1>0, <2>2, <2>3 DEF Pair, PairOf, JoinsIndependent
    <2> HIDE DEF pair
    <2>5. /\ pairs' \in Seq(Pair) /\ DOMAIN pairs' = 1..(Len(pairs) + 1)
          /\ pairs'[Len(pairs) + 1] = pair
          /\ \A k \in DOMAIN pairs : pairs'[k] = pairs[k]
          /\ DOMAIN pairs = 1..Len(pairs) /\ Len(pairs) \in Nat
        BY <1>0, <2>4 DEF pair
    <2>6. LatestInWork'
        BY <1>0, <2>3, <2>5 DEF EvidenceInv, LatestInWork
    <2>7. \A k \in DOMAIN pairs : pairs[k].reported # job.id /\ pairs[k].observed # job.id
        BY <1>0 DEF EvidenceInv, LatestInWork
    <2>8. \A k, l \in DOMAIN pairs' :
             pairs'[k].reported = pairs'[l].reported /\ pairs'[k].observed = pairs'[l].observed => k = l
        BY <2>3, <2>5, <2>7 DEF EvidenceInv, PairsSound
    <2>9. \A k \in DOMAIN pairs : /\ events[pairs[k].reported].draft.class = "reported"
                                  /\ events[pairs[k].observed].draft.class = "observed"
                                  /\ pairs[k].kind = "correlation" =>
                                        ~HashesDisagree(events[pairs[k].reported].draft,
                                                        events[pairs[k].observed].draft)
        BY DEF EvidenceInv, PairsSound
    <2>10. PairsSound'
        <3>1. \A k \in DOMAIN pairs' : k \in DOMAIN pairs \/ pairs'[k] = pair
            BY <2>5
        <3>2. \A k \in DOMAIN pairs' :
                 /\ events[pairs'[k].reported].draft.class = "reported"
                 /\ events[pairs'[k].observed].draft.class = "observed"
                 /\ pairs'[k].kind = "correlation" =>
                       ~HashesDisagree(events[pairs'[k].reported].draft,
                                       events[pairs'[k].observed].draft)
            BY <2>2, <2>5, <2>9, <3>1 DEF JoinsIndependent
        <3> QED BY <1>0, <2>8, <3>2 DEF PairsSound, HashesDisagree
    <2> QED BY <1>1, <2>6, <2>10 DEF EvidenceInv
<1> QED BY <1>2, <1>3 DEF CorrelateEvent, WithPair

\* Every step of the pipeline, the crash included.
LEMMA EvidenceStep == EvidenceInv /\ Shape' /\ [PipelineNext]_pipelineVars => EvidenceInv'
<1> SUFFICES ASSUME EvidenceInv, Shape', [PipelineNext]_pipelineVars PROVE EvidenceInv'
    OBVIOUS
<1>1. CASE \/ \E p \in Producers : \E draft : Ingest(p, draft)
           \/ \E p \in Producers : Close(p) \/ Collect(p)
    BY <1>1, NothingReviewed DEF Ingest, Close, Collect, Send, SendRefused
<1>2. CASE Receive
    BY <1>2, NothingReviewed DEF Receive, NoJob
<1>3. CASE Stop
    BY <1>3, NothingReviewed DEF Stop
<1>4. CASE AppendEvent \/ SaveFindings \/ CorrelateEvent
    BY <1>4, AppendKeepsEvidence, FindingsKeepEvidence, CorrelationKeepsEvidence
<1>5. CASE Fail \/ PipelineCrash
    <2>1. job'.stage = "none" /\ UNCHANGED <<events, findings, pairs>> /\ cut' = cut \cup CutShort
        BY <1>5 DEF Fail, PipelineCrash, Answer, NoJob
    <2>2. FindingsFollowEvents'
        BY <2>1 DEF CutShort, EvidenceInv, FindingsFollowEvents
    <2>3. LatestInWork' /\ PairsSound'
        BY <2>1 DEF EvidenceInv, LatestInWork, PairsSound, HashesDisagree
    <2> QED BY <2>2, <2>3 DEF EvidenceInv
<1>6. CASE UNCHANGED pipelineVars
    BY <1>6, NothingReviewed DEF pipelineVars, stored
<1> QED BY <1>1, <1>2, <1>3, <1>4, <1>5, <1>6 DEF PipelineNext, Work

\* Nothing is persisted at the start.
LEMMA EvidenceStart == Init => EvidenceInv
<1> SUFFICES ASSUME Init PROVE EvidenceInv
    OBVIOUS
<1>1. Shape
    BY RepliesStart DEF RepliesInv
<1>2. events = <<>> /\ pairs = <<>> /\ job.stage = "none"
    BY DEF Init, PipelineInit, NoJob
<1>3. FindingsFollowEvents /\ PairsSound
    BY <1>2 DEF FindingsFollowEvents, PairsSound
<1>4. LatestInWork
    BY <1>2 DEF LatestInWork
<1> QED BY <1>1, <1>3, <1>4 DEF EvidenceInv

\* Both invariants hold throughout an import.
LEMMA EvidenceInvariant == Spec => [](RepliesInv /\ EvidenceInv)
<1>1. RepliesInv /\ EvidenceInv /\ [Next]_vars => (RepliesInv /\ EvidenceInv)'
    <2>1. RepliesInv /\ [Next]_vars => RepliesInv' /\ Shape'
        BY RepliesStep, ImportDrivesPipeline DEF RepliesInv
    <2> QED BY <2>1, EvidenceStep, ImportDrivesPipeline
<1>2. Init => RepliesInv /\ EvidenceInv
    BY RepliesStart, EvidenceStart
<1> QED BY <1>1, <1>2, PTL DEF Spec

\* process_event: a flagged event that is out of work has its findings, unless
\* a failure or the end of the daemon cut it short.
THEOREM FindingsAreSaved == Spec => []FindingsFollowEvents
<1>1. EvidenceInv => FindingsFollowEvents
    BY DEF EvidenceInv
<1> QED BY <1>1, EvidenceInvariant, PTL

\* correlate_event: no agreement or conflict is stored twice, also across
\* replays and restarts, and a pair joins independent evidence.
THEOREM PairsAreSound == Spec => []PairsSound
<1>1. EvidenceInv => PairsSound
    BY DEF EvidenceInv
<1> QED BY <1>1, EvidenceInvariant, PTL
-----------------------------------------------------------------------------
(* Numbers *)

\* A set of numbers has a least element.
LEMMA Least ==
    ASSUME NEW S, S \subseteq Nat, S # {}
    PROVE  \E m \in S : \A x \in S : m <= x
<1> DEFINE R == OpToRel(<, Nat)
<1>1. IsWellFoundedOn(R, Nat)
    BY NatLessThanWellFounded
<1>2. \A x, y \in Nat : <<y, x>> \in R <=> y < x
    BY DEF OpToRel
<1> HIDE DEF R
<1>3. PICK m \in S : \A y \in S : <<y, m>> \notin R
    BY <1>1, WFMin
<1>4. \A y \in S : ~(y < m) /\ y \in Nat /\ m \in Nat
    BY <1>2, <1>3
<1>5. \A y \in S : m <= y
    BY <1>4
<1> QED BY <1>5

\* Bounded ones have a greatest element.
LEMMA Greatest ==
    ASSUME NEW n \in Nat, NEW S, S \subseteq 0..n, S # {}
    PROVE  \E m \in S : \A x \in S : m >= x
<1> DEFINE T == {n - x : x \in S}
<1>1. T \subseteq Nat /\ T # {}
    <2>1. \A x \in S : n - x \in Nat
        <3> TAKE x \in S
        <3>1. x \in 0..n
            OBVIOUS
        <3> QED BY <3>1
    <2> QED BY <2>1
<1>2. PICK t \in T : \A y \in T : t <= y
    <2> HIDE DEF T
    <2> QED BY <1>1, Least
<1>3. PICK m \in S : t = n - m
    OBVIOUS
<1>4. \A x \in S : n - m <= n - x
    BY <1>2, <1>3
<1> QED BY <1>4

\* Max is the greatest element.
LEMMA MaxFacts ==
    ASSUME NEW n \in Nat, NEW S, S \subseteq 0..n, S # {}
    PROVE  Max(S) \in S /\ \A x \in S : Max(S) >= x
BY Greatest DEF Max

\* The first record of a batch is one with the least end.
LEMMA FirstFacts ==
    ASSUME NEW B, B # {}, \A b \in B : b.end \in Nat
    PROVE  First(B) \in B /\ \A b \in B : First(B).end <= b.end
<1> DEFINE S == {b.end : b \in B}
<1>1. S \subseteq Nat /\ S # {}
    OBVIOUS
<1>2. PICK m \in S : \A x \in S : m <= x
    <2> HIDE DEF S
    <2> QED BY <1>1, Least
<1>3. \E i \in B : \A j \in B : i.end <= j.end
    BY <1>2
<1> QED BY <1>3 DEF First

\* What two sequences make together.
LEMMA Joined ==
    ASSUME NEW s \in Seq(Token), NEW m \in Seq(Token), NEW t, t = s \o m
    PROVE  /\ t \in Seq(Token) /\ Len(t) = Len(s) + Len(m)
           /\ \A i \in 1..Len(s) : t[i] = s[i]
           /\ \A i \in 1..Len(m) : t[Len(s) + i] = m[i]
OBVIOUS

\* What is between two offsets of a sequence.
LEMMA Between ==
    ASSUME NEW f \in Seq(Token), NEW o \in Nat, NEW e \in Nat, o <= e, e <= Len(f),
           NEW m, m = SubSeq(f, o + 1, e)
    PROVE  m \in Seq(Token) /\ Len(m) = e - o /\ \A i \in 1..(e - o) : m[i] = f[o + i]
<1>1. Len(f) \in Nat
    OBVIOUS
<1>2. Len(m) = e - o
    BY <1>1
<1>3. \A i \in 1..(e - o) : m[i] = f[o + i]
    BY <1>1
<1>4. m \in Seq(Token)
    BY <1>1
<1> QED BY <1>2, <1>3, <1>4

\* Where the line that begins after offset ends: at its newline, the first there is, or
\* at the end of the file.
LEMMA LineEndFacts ==
    ASSUME NEW f, f \in Seq(Token), NEW o \in Nat, o < Len(f)
    PROVE  /\ LineEnd(f, o) \in (o + 1)..Len(f)
           /\ f[LineEnd(f, o)] = NL \/ LineEnd(f, o) = Len(f)
           /\ \A i \in (o + 1)..Len(f) : f[i] = NL => LineEnd(f, o) <= i
           /\ \A i \in (o + 1)..Len(f) : i < LineEnd(f, o) => f[i] # NL
<1> DEFINE N == {i \in (o + 1)..Len(f) : f[i] = NL}
<1>0. Len(f) \in Nat
    OBVIOUS
<1>1. CASE N = {}
    <2>1. LineEnd(f, o) = Len(f)
        BY <1>1 DEF LineEnd
    <2> QED BY <1>0, <1>1, <2>1
<1>2. CASE N # {}
    <2>1. N \subseteq Nat
        BY <1>0
    <2>2. \E i \in N : \A j \in N : i <= j
        <3> HIDE DEF N
        <3> QED BY <1>2, <2>1, Least
    <2>3. LineEnd(f, o) = CHOOSE i \in N : \A j \in N : i <= j
        BY <1>2 DEF LineEnd
    <2>4. LineEnd(f, o) \in N /\ \A j \in N : LineEnd(f, o) <= j
        <3> HIDE DEF N
        <3> QED BY <2>2, <2>3
    <2> QED BY <1>0, <2>4
<1> QED BY <1>1, <1>2
-----------------------------------------------------------------------------
(* The log *)

\* An offset that a batch may end at: no record is before it in part.
AtEnd(f, o) == o = 0 \/ f[o] \in {End, NL}

\* Where records are in the log, the offsets they may be read up to, and the one they
\* are read up to now.
Positions(f) == {i \in 2..Len(f) : f[i] = End /\ f[i - 1] \in Records}
RecordEnds(f) == {e \in 2..Len(f) : e \in Positions(f) \/ e - 1 \in Positions(f)}
ReadAs(f, i) == IF i < Len(f) THEN i + 1 ELSE i

\* The draft of the record that ends at e.
RecordOf(f, e) == IF f[e] = End THEN f[e - 1] ELSE f[e - 2]
Made(f, e) == DraftOf([record |-> RecordOf(f, e), end |-> e], HeaderOf[f[1]])

\* The record that ends at e is persisted.
Taken(f, e) ==
    e \in RecordEnds(f) /\ \E k \in DOMAIN events : events[k].live /\ events[k].draft = Made(f, e)

IsReport(k) == events[k].draft.class = "reported"

\* What is not persisted yet is behind all that is.
Fresh(f, e) == Taken(f, e) \/ \A k \in DOMAIN events : IsReport(k) => events[k].draft.source[2] < e

InBatch == {"header", "emit", "await"}
Ahead == InBatch \cup {"save"}
Pending == IF run.phase \in InBatch THEN run.batch ELSE {}
Reach == IF run.phase = "save" THEN run.cursor.offset ELSE run.end

BatchOver == [phase : InBatch, size : Nat, loaded : Nat, end : Nat,
              batch : SUBSET [record : Records, end : Nat], session : Sessions,
              from : Nat, text : Seq(Token), seen : Seq(Token)]
BatchTyped == run.phase \in InBatch => run \in BatchOver

\* A batch holds records of the log, and the session it is sent under is the log's.
BatchOK ==
    run.phase \in InBatch =>
        /\ run \in BatchOver
        /\ run.end <= Len(file) /\ AtEnd(file, run.end)
        /\ \A b \in run.batch : /\ b.end \in RecordEnds(file) /\ b.end <= run.end
                                /\ b.record = RecordOf(file, b.end)
        /\ run.phase = "header" => Len(file) >= 2
        /\ run.phase = "emit" =>
             \/ run.batch = {} \/ run.session = HeaderOf[file[1]] \/ \E b \in run.batch : b.end <= 3
        /\ run.phase = "await" => run.batch # {} /\ run.session = HeaderOf[file[1]]

\* What the importer waits for is what it has sent, once.
Current == DraftOf(First(run.batch), run.session)
Persisted(d) == \E k \in DOMAIN events : events[k].draft = d
SentOK ==
    /\ \A n \in DOMAIN queue :
         /\ queue[n].from # Importer /\ queue[n].kind = "event" => queue[n].draft \in Drafts
         /\ queue[n].from = Importer =>
              /\ queue[n].kind = "event" /\ queue[n].draft = Current
              /\ run.phase = "await" /\ reply[Importer] = Waiting
              /\ \A m \in DOMAIN queue : queue[m].from = Importer => m = n
              /\ job = NoJob \/ job.from # Importer
    /\ job # NoJob =>
         /\ job.from # Importer /\ job.stage = "append" => job.draft \in Drafts
         /\ job.from = Importer =>
              /\ run.phase = "await" /\ reply[Importer] = Waiting
              /\ job.stage = "append" => job.draft = Current
              /\ job.stage # "append" => Persisted(Current)
    /\ reply[Importer] # Idle => run.phase = "await"
    /\ reply[Importer].state = "stored" => Persisted(Current)

\* A log that is only appended to: the cursor is at an end of it.
CursorOK(c) ==
    /\ c.offset \in 0..Len(file) /\ AtEnd(file, c.offset)
    /\ c.offset > 0 => c.digest = PrefixDigest(file, c.offset)
    /\ c.seen \in Seq(Token)

RunOK ==
    /\ run.phase \in {"idle", "check", "read"} \cup Ahead
    /\ run.phase # "idle" => run.size \in 0..Len(file)
    /\ run.phase = "check" => run.cursor = cursor
    /\ run.phase = "read" => run.offset = cursor.offset /\ run.seen \in Seq(Token)
    /\ run.phase \in {"read"} \cup Ahead => run.loaded = cursor.offset
    /\ BatchOK
    /\ run.phase \in Ahead => Reach \in run.loaded..Len(file)
    /\ run.phase = "save" => CursorOK(run.cursor)

\* Every event is a record of the log, which nothing supersedes, or another's.
EventsOK ==
    \A k \in DOMAIN events :
        \/ events[k].draft \in Drafts
        \/ events[k].live /\ \E e \in RecordEnds(file) : events[k].draft = Made(file, e)

\* Nothing is skipped: before the cursor, and before the end of the batch.
Done ==
    /\ \A i \in Positions(file) : i <= cursor.offset => Taken(file, i) \/ Taken(file, i + 1)
    /\ run.phase \in Ahead =>
         /\ \A i \in Positions(file) : cursor.offset < i /\ i <= Reach =>
              LET e == IF i < Reach THEN i + 1 ELSE i
              IN Taken(file, e) \/ \E b \in Pending : b.end = e
         /\ Reach > run.loaded \/ \A i \in Positions(file) : i <= run.size => i <= run.loaded

InOrder ==
    /\ OldestFirst
    /\ \A i \in Positions(file) : i > cursor.offset => Fresh(file, ReadAs(file, i))
    /\ \A b \in Pending : Fresh(file, b.end)

LogInv ==
    /\ LogOK(file) /\ CursorOK(cursor)
    /\ RunOK
    /\ EventsOK
    /\ Done
    /\ InOrder

\* What the tokens of a line are: none is another's.
LEMMA Tokens == /\ End \notin Records \cup {Bad, NL} /\ NL \notin Records \cup {Bad, End}
                /\ Bad \notin Records
BY LogAssumption DEF End, NL

\* The rest of a line that was read up to its end is the newline.
LEMMA RestOfLine ==
    ASSUME NEW f, LogOK(f), NEW o \in 1..(Len(f) - 1), f[o] = End
    PROVE  f[o + 1] = NL /\ LineEnd(f, o) = o + 1 /\ ~Torn(f, o) /\ ~IsRecord(f, o)
<1>0. f \in Seq(Token) /\ Len(f) \in Nat /\ o \in Nat /\ o < Len(f)
    BY DEF LogOK
<1>a. o + 1 \in DOMAIN f /\ (o + 1) - 1 = o /\ o + 1 # 1
    BY <1>0
<1>1. f[o + 1] = NL
    <2>1. f[o + 1] \in Token
        BY <1>0, <1>a
    <2>2. f[o + 1] # End /\ f[o + 1] \notin Records \cup {Bad}
        BY <1>a, Tokens DEF LogOK
    <2> QED BY <2>1, <2>2 DEF Token
<1>2. LineEnd(f, o) = o + 1
    BY <1>0, <1>1, LineEndFacts
<1>3. ~Torn(f, o)
    BY <1>1, <1>2 DEF Torn, Terminated
<1>4. Text(f, o, o + 1) = SubSeq(f, o + 1, o)
    BY <1>0, <1>1 DEF Text, Terminated
<1>5. Len(SubSeq(f, o + 1, o)) # 2
    BY <1>0
<1>6. ~IsRecord(f, o)
    BY <1>2, <1>4, <1>5 DEF IsRecord, Parses
<1> QED BY <1>1, <1>2, <1>3, <1>6

\* A whole line: the record, its end and its newline, as far as they are written.
LEMMA WholeLine ==
    ASSUME NEW f, LogOK(f), NEW o \in 0..(Len(f) - 1), o = 0 \/ f[o] = NL
    PROVE  /\ f[o + 1] \in Records \cup {Bad}
           /\ Len(f) >= o + 2 => f[o + 2] = End
           /\ LineEnd(f, o) = IF Len(f) >= o + 3 THEN o + 3 ELSE Len(f)
           /\ Len(f) >= o + 3 => f[o + 3] = NL
           /\ Torn(f, o) <=> Len(f) = o + 1 \/ (Len(f) = o + 2 /\ f[o + 1] \notin Records)
           /\ IsRecord(f, o) <=> Len(f) >= o + 2 /\ f[o + 1] \in Records
<1>0. f \in Seq(Token) /\ Len(f) \in Nat /\ o \in Nat /\ o < Len(f) /\ DOMAIN f = 1..Len(f)
    BY DEF LogOK
<1>a. o + 1 \in DOMAIN f /\ (o + 1) - 1 = o /\ (o + 2) - 1 = o + 1 /\ (o + 3) - 1 = o + 2
    BY <1>0
<1>1. f[o + 1] \in Records \cup {Bad}
    <2>1. f[o + 1] \in Token
        BY <1>0, <1>a
    <2>2. f[o + 1] # End /\ f[o + 1] # NL
        BY <1>0, <1>a, Tokens DEF LogOK
    <2> QED BY <2>1, <2>2 DEF Token
<1>2. ASSUME Len(f) >= o + 2
      PROVE  f[o + 2] = End
    <2>0. o + 2 \in DOMAIN f /\ o + 2 # 1
        BY <1>0, <1>2
    <2>1. f[o + 2] \in Token
        BY <1>0, <2>0
    <2>2. f[o + 2] # NL /\ f[o + 2] \notin Records \cup {Bad}
        BY <1>a, <1>1, <2>0, Tokens DEF LogOK
    <2> QED BY <2>1, <2>2 DEF Token
<1>3. ASSUME Len(f) >= o + 3
      PROVE  f[o + 3] = NL
    <2>0. o + 3 \in DOMAIN f /\ o + 3 # 1 /\ Len(f) >= o + 2
        BY <1>0, <1>3
    <2>1. f[o + 3] \in Token
        BY <1>0, <2>0
    <2>2. f[o + 3] # End /\ f[o + 3] \notin Records \cup {Bad}
        BY <1>a, <1>2, <2>0, Tokens DEF LogOK
    <2> QED BY <2>1, <2>2 DEF Token
<1>b. f[o + 1] # NL /\ (Len(f) >= o + 2 => f[o + 2] # NL)
    BY <1>1, <1>2, Tokens
<1>4. CASE Len(f) >= o + 3
    <2>1. LineEnd(f, o) = o + 3
        BY <1>0, <1>3, <1>4, <1>b, LineEndFacts
    <2>2. ~Torn(f, o)
        BY <1>3, <1>4, <2>1 DEF Torn, Terminated
    <2>3. Text(f, o, o + 3) = SubSeq(f, o + 1, o + 2)
        BY <1>0, <1>3, <1>4 DEF Text, Terminated
    <2>4. /\ Len(SubSeq(f, o + 1, o + 2)) = 2
          /\ SubSeq(f, o + 1, o + 2)[1] = f[o + 1] /\ SubSeq(f, o + 1, o + 2)[2] = f[o + 2]
        BY <1>0, <1>4
    <2>5. IsRecord(f, o) <=> f[o + 1] \in Records
        BY <1>0, <1>2, <1>4, <2>1, <2>3, <2>4 DEF IsRecord, Parses
    <2>6. Len(f) >= o + 2 /\ Len(f) # o + 1 /\ Len(f) # o + 2
        <3>1. \A n, m \in Nat : n >= m + 3 => n >= m + 2 /\ n # m + 1 /\ n # m + 2
            OBVIOUS
        <3> QED BY <1>0, <1>4, <3>1
    <2>7. f[o + 2] = End /\ f[o + 3] = NL
        BY <1>2, <1>3, <1>4, <2>6
    <2> QED BY <1>1, <1>4, <2>1, <2>2, <2>5, <2>6, <2>7
<1>5. CASE Len(f) = o + 2
    <2>1. LineEnd(f, o) = o + 2 /\ f[o + 2] = End /\ End # NL
        BY <1>0, <1>2, <1>5, <1>b, LineEndFacts
    <2>2. Text(f, o, o + 2) = SubSeq(f, o + 1, o + 2)
        BY <1>0, <2>1 DEF Text, Terminated
    <2>3. /\ Len(SubSeq(f, o + 1, o + 2)) = 2
          /\ SubSeq(f, o + 1, o + 2)[1] = f[o + 1] /\ SubSeq(f, o + 1, o + 2)[2] = f[o + 2]
        BY <1>0, <1>5
    <2>4. Parses(SubSeq(f, o + 1, o + 2)) <=> f[o + 1] \in Records
        BY <2>1, <2>3 DEF Parses
    <2>5. IsRecord(f, o) <=> f[o + 1] \in Records
        BY <2>1, <2>2, <2>4 DEF IsRecord
    <2>6. Torn(f, o) <=> f[o + 1] \notin Records
        BY <2>1, <2>2, <2>4 DEF Torn, Terminated
    <2> QED BY <1>0, <1>1, <1>5, <2>1, <2>5, <2>6
<1>6. CASE Len(f) = o + 1
    <2>1. LineEnd(f, o) = o + 1 /\ f[o + 1] # NL
        BY <1>0, <1>6, <1>b, LineEndFacts
    <2>2. Text(f, o, o + 1) = SubSeq(f, o + 1, o + 1)
        BY <1>0, <2>1 DEF Text, Terminated
    <2>3. Len(SubSeq(f, o + 1, o + 1)) # 2
        BY <1>0, <1>6
    <2>4. Torn(f, o) /\ ~IsRecord(f, o)
        BY <2>1, <2>2, <2>3 DEF Torn, Terminated, IsRecord, Parses
    <2> QED BY <1>0, <1>1, <1>6, <2>1, <2>4
<1>7. Len(f) >= o + 3 \/ Len(f) = o + 2 \/ Len(f) = o + 1
    <2>1. \A n, m \in Nat : m < n => n >= m + 3 \/ n = m + 2 \/ n = m + 1
        OBVIOUS
    <2> QED BY <1>0, <2>1
<1> QED BY <1>4, <1>5, <1>6, <1>7

\* Where a line ends that is not torn, it may be resumed, wherever it was begun.
LEMMA LineIsResumable ==
    ASSUME NEW f, LogOK(f), NEW o \in 0..(Len(f) - 1), ~Torn(f, o)
    PROVE  LineEnd(f, o) \in (o + 1)..Len(f) /\ AtEnd(f, LineEnd(f, o))
<1> PICK e : e = LineEnd(f, o)
    OBVIOUS
<1>0. f \in Seq(Token) /\ Len(f) \in Nat /\ o \in Nat /\ o < Len(f)
    BY DEF LogOK
<1>1. e \in (o + 1)..Len(f)
    BY <1>0, LineEndFacts
<1>2. CASE Terminated(f, e)
    BY <1>1, <1>2 DEF AtEnd, Terminated
<1>3. CASE ~Terminated(f, e)
    <2>1. Parses(SubSeq(f, o + 1, e))
        BY <1>3 DEF Torn, Text
    <2>2. Len(SubSeq(f, o + 1, e)) = 2 /\ SubSeq(f, o + 1, e)[2] = End
        BY <2>1 DEF Parses
    <2>3. e = o + 2 /\ SubSeq(f, o + 1, e)[2] = f[o + 2]
        BY <1>0, <1>1, <2>2
    <2> QED BY <1>1, <2>2, <2>3 DEF AtEnd
<1> QED BY <1>1, <1>2, <1>3

\* A line that is a record, wherever it was begun, is one of the log.
LEMMA RecordLine ==
    ASSUME NEW f, LogOK(f), NEW l \in 0..(Len(f) - 1), IsRecord(f, l)
    PROVE  /\ l + 2 \in Positions(f) /\ LineEnd(f, l) = ReadAs(f, l + 2)
           /\ (l + 2) - 1 = l + 1
<1>0. f \in Seq(Token) /\ Len(f) \in Nat /\ l \in Nat /\ l < Len(f)
    BY DEF LogOK
<1>a. PICK e : e = LineEnd(f, l)
    OBVIOUS
<1>1. /\ e \in (l + 1)..Len(f) /\ e \in Nat
      /\ \A i \in (l + 1)..Len(f) : f[i] = NL => e <= i
      /\ f[e] = NL \/ e = Len(f)
    BY <1>0, <1>a, LineEndFacts
<1>b. PICK m : m = IF Terminated(f, e) THEN e - 1 ELSE e
    OBVIOUS
<1>2. m \in l..Len(f) /\ m \in Nat
    BY <1>0, <1>1, <1>b
<1>c. PICK text : text = SubSeq(f, l + 1, m)
    OBVIOUS
<1>3. Len(text) = 2 /\ text[1] \in Records /\ text[2] = End
    BY <1>a, <1>b, <1>c DEF IsRecord, Text, Parses
<1>4. m = l + 2 /\ text[1] = f[l + 1] /\ text[2] = f[l + 2]
    <2>0. l <= m /\ m <= Len(f)
        BY <1>0, <1>2
    <2>1. /\ Len(text) = m - l
          /\ \A i \in 1..(m - l) : text[i] = f[l + i]
        BY <1>0, <1>2, <1>c, <2>0, Between
    <2>2. m - l = 2
        BY <1>3, <2>1, Zenon
    <2>3. m = l + 2 /\ 1 \in 1..(m - l) /\ 2 \in 1..(m - l)
        BY <1>0, <1>2, <2>2
    <2> QED BY <2>1, <2>3, Zenon
<1>5. l + 2 \in 2..Len(f) /\ (l + 2) - 1 = l + 1
    BY <1>0, <1>2, <1>4
<1>6. l + 2 \in Positions(f)
    BY <1>3, <1>4, <1>5 DEF Positions
<1>7. CASE Terminated(f, e)
    <2>1. e = l + 3
        BY <1>1, <1>0, <1>4, <1>7, <1>b
    <2> QED BY <1>0, <1>1, <1>5, <1>6, <1>a, <2>1 DEF ReadAs
<1>8. CASE ~Terminated(f, e)
    <2>1. e = l + 2 /\ e = Len(f)
        BY <1>1, <1>4, <1>8, <1>b DEF Terminated
    <2> QED BY <1>0, <1>5, <1>6, <1>a, <2>1 DEF ReadAs
<1> QED BY <1>7, <1>8

\* The line a record is in, from an offset before it.
LEMMA PositionLine ==
    ASSUME NEW f, LogOK(f), NEW o \in 0..Len(f),
           NEW i \in Positions(f), i > o + 1
    PROVE  /\ i - 2 \in Lines(f, o) /\ IsRecord(f, i - 2) /\ i - 2 >= o
           /\ LineEnd(f, i - 2) = ReadAs(f, i)
<1>0. /\ f \in Seq(Token) /\ Len(f) \in Nat /\ o \in Nat /\ i \in 2..Len(f) /\ i \in Nat
      /\ f[i] = End /\ f[i - 1] \in Records /\ i \in DOMAIN f /\ i - 1 \in DOMAIN f
    BY DEF LogOK, Positions
<1>1. i - 1 = 1 \/ f[(i - 1) - 1] = NL
    BY <1>0 DEF LogOK
<1>3. /\ i - 2 \in 0..(Len(f) - 1) /\ i - 2 >= o /\ (i - 1) - 1 = i - 2
      /\ (i - 2) + 1 = i - 1 /\ (i - 2) + 2 = i /\ (i - 2) + 3 = i + 1
    BY <1>0
<1>4. i - 2 = 0 \/ f[i - 2] = NL
    BY <1>0, <1>1, <1>3
<1>5. /\ ~Torn(f, i - 2) /\ IsRecord(f, i - 2)
      /\ LineEnd(f, i - 2) = IF Len(f) >= i + 1 THEN i + 1 ELSE Len(f)
    BY <1>0, <1>3, <1>4, WholeLine
<1>6. i - 2 = o \/ f[i - 2] = NL
    BY <1>0, <1>3, <1>4
<1>7. i - 2 \in Lines(f, o)
    BY <1>3, <1>5, <1>6 DEF Lines
<1>8. LineEnd(f, i - 2) = ReadAs(f, i)
    BY <1>0, <1>5 DEF ReadAs
<1> QED BY <1>3, <1>5, <1>7, <1>8

\* Lines are few, and one that begins before a line that is reached is reached.
LEMMA ReachedFacts ==
    ASSUME NEW f, LogOK(f), NEW o \in 0..Len(f), NEW max \in Nat \ {0}
    PROVE  /\ \A l \in Reached(f, o, max) : \A q \in Lines(f, o) :
                 q <= l => q \in Reached(f, o, max)
           /\ o \in Lines(f, o) => o \in Reached(f, o, max)
<1> DEFINE Before(l) == {q \in Lines(f, o) : q < l /\ IsRecord(f, q)}
<1>0. Len(f) \in Nat /\ Lines(f, o) \subseteq 0..(Len(f) - 1) /\ Lines(f, o) \subseteq o..(Len(f) - 1)
    BY DEF LogOK, Lines
<1>1. \A l : IsFiniteSet(Before(l)) /\ Cardinality(Before(l)) \in Nat
    <2> TAKE l
    <2>1. IsFiniteSet(0..(Len(f) - 1))
        BY <1>0, FS_Interval
    <2>2. Before(l) \subseteq 0..(Len(f) - 1)
        BY <1>0
    <2> QED BY <2>1, <2>2, FS_Subset, FS_CardinalityType
<1>2. ASSUME NEW l \in Reached(f, o, max), NEW q \in Lines(f, o), q <= l
      PROVE  q \in Reached(f, o, max)
    <2>0. l \in Lines(f, o) /\ Cardinality(Before(l)) < max
        BY DEF Reached
    <2>1. Before(q) \subseteq Before(l)
        <3>1. \A z \in Lines(f, o) : z < q => z < l
            BY <1>0, <1>2, <2>0
        <3> QED BY <3>1
    <2>2. Cardinality(Before(q)) <= Cardinality(Before(l))
        <3> HIDE DEF Before
        <3> QED BY <1>1, <2>1, FS_Subset
    <2>3. Cardinality(Before(q)) < max
        <3> HIDE DEF Before
        <3> QED BY <1>1, <2>0, <2>2
    <2> QED BY <2>3 DEF Reached
<1>3. ASSUME o \in Lines(f, o)
      PROVE  o \in Reached(f, o, max)
    <2>1. Before(o) = {}
        BY <1>0
    <2>2. Cardinality(Before(o)) = 0
        BY <2>1, FS_EmptySet
    <2> QED BY <1>3, <2>2 DEF Reached
<1> QED BY <1>2, <1>3

\* A batch is the records up to where it ends but for one that is cut by where it begins,
\* and it ends at a newline or with the file; it is empty only when nothing is left to
\* read behind what it begins with.
LEMMA AnyBatch ==
    ASSUME NEW f, LogOK(f), NEW o \in 0..Len(f), NEW max \in Nat \ {0},
           NEW b, b = ReadJsonl(f, o, max)
    PROVE  /\ b.offset \in o..Len(f) /\ (b.offset = o \/ AtEnd(f, b.offset))
           /\ b.offset = o \/ b.offset = Len(f) \/ f[b.offset] = NL
           /\ \A item \in b.records : \E i \in Positions(f) :
                 /\ o < i /\ item = [record |-> f[i - 1], end |-> ReadAs(f, i)]
                 /\ item.end <= b.offset
           /\ \A i \in Positions(f) : o + 1 < i /\ i <= b.offset =>
                 [record |-> f[i - 1], end |-> ReadAs(f, i)] \in b.records
           /\ AtEnd(f, o) /\ b.offset = o => \A i \in Positions(f) : i <= o
<1> DEFINE reached == Reached(f, o, max)
           Ends == {o} \cup {LineEnd(f, l) : l \in reached}
<1>0. /\ f \in Seq(Token) /\ Len(f) \in Nat /\ o \in Nat /\ o <= Len(f)
      /\ b.offset = Max(Ends)
      /\ b.records = {[record |-> f[l + 1], end |-> LineEnd(f, l)] :
                         l \in {q \in reached : IsRecord(f, q)}}
    BY DEF LogOK, ReadJsonl
<1>1. \A l \in reached : /\ l \in Lines(f, o) /\ l \in 0..(Len(f) - 1) /\ l >= o /\ l \in Nat
                         /\ (l = o \/ f[l] = NL) /\ ~Torn(f, l)
    BY <1>0 DEF Reached, Lines
<1>2. \A l \in reached : LineEnd(f, l) \in (l + 1)..Len(f) /\ AtEnd(f, LineEnd(f, l))
    BY <1>1, LineIsResumable
<1> HIDE DEF reached
<1>3. Ends \subseteq 0..Len(f) /\ Ends # {}
    BY <1>0, <1>1, <1>2
<1>4. Max(Ends) \in Ends /\ \A e \in Ends : Max(Ends) >= e
    <2> HIDE DEF Ends
    <2> QED BY <1>0, <1>3, MaxFacts
<1>5. b.offset \in o..Len(f) /\ (b.offset = o \/ AtEnd(f, b.offset))
    BY <1>0, <1>1, <1>2, <1>4
<1>6. b.offset = o \/ \E l \in reached : b.offset = LineEnd(f, l)
    BY <1>0, <1>4
<1>7. \A l \in reached : LineEnd(f, l) <= b.offset
    BY <1>0, <1>2, <1>4, <1>5
<1>8. b.offset = o \/ b.offset = Len(f) \/ f[b.offset] = NL
    <2> SUFFICES ASSUME NEW l \in reached, b.offset = LineEnd(f, l)
                 PROVE  b.offset = Len(f) \/ f[b.offset] = NL
        BY <1>6
    <2>1. l \in Nat /\ l < Len(f)
        BY <1>0, <1>1
    <2> QED BY <1>0, <2>1, LineEndFacts
<1>9. ASSUME NEW item \in b.records
      PROVE  \E i \in Positions(f) :
                 /\ o < i /\ item = [record |-> f[i - 1], end |-> ReadAs(f, i)]
                 /\ item.end <= b.offset
    <2>1. PICK l \in reached : IsRecord(f, l) /\ item = [record |-> f[l + 1], end |-> LineEnd(f, l)]
        BY <1>0
    <2>2. /\ l \in 0..(Len(f) - 1) /\ l \in Nat /\ l >= o
        BY <1>1
    <2>3. /\ l + 2 \in Positions(f) /\ LineEnd(f, l) = ReadAs(f, l + 2) /\ (l + 2) - 1 = l + 1
        BY <2>1, <2>2, RecordLine
    <2>4. o < l + 2
        BY <1>0, <2>2
    <2> QED BY <1>7, <2>1, <2>3, <2>4
<1>10. ASSUME NEW i \in Positions(f), o + 1 < i, i <= b.offset
       PROVE  [record |-> f[i - 1], end |-> ReadAs(f, i)] \in b.records
    <2>0. i \in 2..Len(f) /\ i \in Nat /\ i - 2 \in Nat
        BY DEF Positions
    <2>1. /\ i - 2 \in Lines(f, o) /\ IsRecord(f, i - 2) /\ i - 2 >= o
          /\ LineEnd(f, i - 2) = ReadAs(f, i)
        BY <1>10, PositionLine
    <2>2. PICK l \in reached : b.offset = LineEnd(f, l)
        <3>1. b.offset # o
            BY <1>0, <1>5, <1>10, <2>0
        <3> QED BY <1>6, <3>1
    <2>3. i - 2 <= l
        <3> SUFFICES ASSUME l < i - 2
                     PROVE  FALSE
            BY <1>1, <2>0
        <3>1. i - 2 \in (l + 1)..Len(f) /\ f[i - 2] = NL /\ l < Len(f) /\ l \in Nat
            BY <1>0, <1>1, <2>0, <2>1 DEF Lines
        <3>2. LineEnd(f, l) <= i - 2
            BY <1>0, <3>1, LineEndFacts
        <3> QED BY <1>0, <1>5, <1>10, <2>0, <2>2, <3>2
    <2>4. i - 2 \in reached
        BY <2>1, <2>2, <2>3, ReachedFacts DEF reached
    <2>5. (i - 2) + 1 = i - 1
        BY <2>0
    <2> QED BY <1>0, <2>1, <2>4, <2>5
<1>11. ASSUME AtEnd(f, o), b.offset = o, NEW i \in Positions(f), i > o
       PROVE  FALSE
    <2>0. i \in 2..Len(f) /\ i \in Nat /\ f[i - 1] \in Records
        BY DEF Positions
    <2>a. o # i - 1
        BY <1>11, <2>0, Tokens DEF AtEnd
    <2>b. i > o + 1
        BY <1>0, <1>11, <2>0, <2>a
    <2>1. /\ i - 2 \in Lines(f, o) /\ i - 2 >= o
        BY <2>b, PositionLine
    <2>2. o \in Lines(f, o)
        <3>1. o \in o..(Len(f) - 1)
            BY <1>0, <2>0, <2>1
        <3>2. ~Torn(f, o)
            <4>1. CASE o # 0 /\ f[o] = End
                BY <1>0, <3>1, <4>1, RestOfLine
            <4>2. CASE o = 0 \/ f[o] = NL
                <5>1. /\ Torn(f, o) <=> Len(f) = o + 1 \/ (Len(f) = o + 2 /\ f[o + 1] \notin Records)
                    BY <1>0, <3>1, <4>2, WholeLine
                <5>2. ASSUME Torn(f, o)
                      PROVE  Len(f) = o + 2 /\ i = o + 2
                    BY <1>0, <2>0, <2>1, <5>1, <5>2
                <5>3. ASSUME Torn(f, o)
                      PROVE  f[o + 1] \in Records
                    <6>1. i - 1 = o + 1
                        BY <1>0, <5>2, <5>3
                    <6> QED BY <6>1 DEF Positions
                <5> QED BY <1>0, <5>1, <5>2, <5>3
            <4> QED BY <1>11, <4>1, <4>2 DEF AtEnd
        <3> QED BY <3>1, <3>2 DEF Lines
    <2>3. o \in reached
        BY <2>2, ReachedFacts DEF reached
    <2>4. LineEnd(f, o) \in (o + 1)..Len(f)
        BY <1>2, <2>3
    <2> QED BY <1>0, <1>7, <1>11, <2>3, <2>4
<1>12. AtEnd(f, o) /\ b.offset = o => \A i \in Positions(f) : i <= o
    <2>1. \A i \in Positions(f) : i \in Nat
        BY DEF Positions
    <2> QED BY <1>0, <1>11, <2>1
<1> QED BY <1>5, <1>8, <1>9, <1>10, <1>12

\* A batch that begins where a record or a line ends holds all up to where it ends.
LEMMA BatchFacts ==
    ASSUME NEW f, LogOK(f), NEW o \in 0..Len(f), AtEnd(f, o), NEW max \in Nat \ {0},
           NEW b, b = ReadJsonl(f, o, max)
    PROVE  /\ b.offset \in o..Len(f) /\ AtEnd(f, b.offset)
           /\ b.offset = o \/ b.offset = Len(f) \/ f[b.offset] = NL
           /\ \A item \in b.records : \E i \in Positions(f) :
                 /\ o < i /\ item = [record |-> f[i - 1], end |-> ReadAs(f, i)]
                 /\ item.end <= b.offset
           /\ \A i \in Positions(f) : o < i /\ i <= b.offset =>
                 [record |-> f[i - 1], end |-> ReadAs(f, i)] \in b.records
           /\ b.offset = o => \A i \in Positions(f) : i <= o
<1>1. \A i \in Positions(f) : o < i => o + 1 < i
    <2> SUFFICES ASSUME NEW i \in Positions(f), o < i
                 PROVE  o + 1 < i
        OBVIOUS
    <2>1. i \in Nat /\ f[i - 1] \in Records /\ i > 1
        BY DEF Positions
    <2>2. o # i - 1
        BY <2>1, Tokens DEF AtEnd
    <2> QED BY <2>1, <2>2
<1> QED BY <1>1, AnyBatch

\* The first line of a log names its session, once it is whole.
LEMMA HeaderFacts ==
    ASSUME NEW f, LogOK(f), Len(f) >= 2
    PROVE  FirstHeader(f) = HeaderOf[f[1]]
<1> DEFINE b == ReadJsonl(f, 0, 1)
           item == [record |-> f[1], end |-> ReadAs(f, 2)]
<1>0. f \in Seq(Token) /\ Len(f) \in Nat /\ DOMAIN f = 1..Len(f) /\ f # <<>>
    BY DEF LogOK
<1>1. f[1] \in Records /\ HeaderOf[f[1]] # None
    BY <1>0 DEF LogOK
<1>2. f[2] = End
    <2>1. 0 \in 0..(Len(f) - 1) /\ Len(f) >= 0 + 2
        BY <1>0
    <2>2. f[0 + 2] = End
        BY <2>1, WholeLine
    <2> QED BY <2>2
<1>3. 2 \in Positions(f)
    BY <1>0, <1>1, <1>2 DEF Positions
<1>4. /\ b.offset \in 0..Len(f) /\ AtEnd(f, b.offset)
      /\ \A x \in b.records : \E i \in Positions(f) :
            0 < i /\ x = [record |-> f[i - 1], end |-> ReadAs(f, i)]
      /\ \A i \in Positions(f) : 0 < i /\ i <= b.offset =>
            [record |-> f[i - 1], end |-> ReadAs(f, i)] \in b.records
      /\ b.offset = 0 => \A i \in Positions(f) : i <= 0
    <2>1. 0 \in 0..Len(f) /\ AtEnd(f, 0) /\ 1 \in Nat \ {0}
        BY <1>0 DEF AtEnd
    <2> HIDE DEF b
    <2>2. b = ReadJsonl(f, 0, 1)
        BY DEF b
    <2> QED BY <2>1, <2>2, BatchFacts
<1> HIDE DEF b
<1>5. b.offset >= 2
    <2>1. b.offset # 0
        BY <1>3, <1>4
    <2>2. b.offset # 1
        BY <1>1, <1>4, Tokens DEF AtEnd
    <2> QED BY <1>0, <1>4, <2>1, <2>2
<1>6. item \in b.records
    BY <1>3, <1>4, <1>5
<1>7. \A i \in Positions(f) : ReadAs(f, i) \in Nat /\ ReadAs(f, i) >= i /\ i \in Nat
    BY <1>0 DEF Positions, ReadAs
<1>8. \A x \in b.records : x.end \in Nat
    BY <1>4, <1>7
<1>9. First(b.records) \in b.records /\ First(b.records).end <= ReadAs(f, 2)
    BY <1>6, <1>8, FirstFacts
<1>10. PICK i \in Positions(f) : First(b.records) = [record |-> f[i - 1], end |-> ReadAs(f, i)]
    BY <1>4, <1>9
<1>11. i = 2
    <2>1. i <= 3 /\ i >= 2
        BY <1>0, <1>3, <1>7, <1>9, <1>10 DEF ReadAs, Positions
    <2>2. i # 3
        BY <1>2, Tokens DEF Positions
    <2> QED BY <1>7, <2>1, <2>2
<1>12. First(b.records).record = f[1]
    BY <1>10, <1>11
<1> QED BY <1>1, <1>6, <1>12 DEF FirstHeader, b

\* The two offsets a record may have been read up to.
LEMMA EndFacts ==
    ASSUME NEW f, LogOK(f), NEW i \in Positions(f), NEW e \in {i, i + 1}, e <= Len(f)
    PROVE  e \in RecordEnds(f) /\ RecordOf(f, e) = f[i - 1] /\ e \in Nat /\ i \in Nat
<1>0. /\ f \in Seq(Token) /\ Len(f) \in Nat /\ i \in 2..Len(f) /\ i \in Nat
      /\ f[i] = End /\ f[i - 1] \in Records
    BY DEF LogOK, Positions
<1>1. CASE e = i
    BY <1>0, <1>1 DEF RecordEnds, RecordOf
<1>2. CASE e = i + 1
    <2>1. i \in 1..(Len(f) - 1) /\ e \in 2..Len(f) /\ e - 1 = i /\ e - 2 = i - 1
        BY <1>0, <1>2
    <2>2. f[e] = NL /\ NL # End
        BY <1>0, <1>2, <2>1, RestOfLine, Tokens
    <2> QED BY <1>0, <2>1, <2>2 DEF RecordEnds, RecordOf
<1> QED BY <1>1, <1>2

\* What is at such an offset: a record of the log's session.
LEMMA RecordFacts ==
    ASSUME NEW f, LogOK(f), NEW e \in RecordEnds(f)
    PROVE  /\ e \in 2..Len(f) /\ e \in Nat /\ RecordOf(f, e) \in Records
           /\ \E i \in Positions(f) : e \in {i, i + 1} /\ RecordOf(f, e) = f[i - 1]
           /\ HeaderOf[f[1]] \in Sessions
           /\ Content[RecordOf(f, e)].session = HeaderOf[f[1]]
           /\ HeaderOf[RecordOf(f, e)] \in {None, HeaderOf[f[1]]}
           /\ e <= 3 => RecordOf(f, e) = f[1] /\ HeaderOf[f[1]] # None
<1>0. f \in Seq(Token) /\ Len(f) \in Nat /\ DOMAIN f = 1..Len(f) /\ e \in 2..Len(f) /\ e \in Nat
    BY DEF LogOK, RecordEnds
<1>1. PICK i \in Positions(f) : e \in {i, i + 1}
    <2>1. CASE e \in Positions(f)
        BY <2>1
    <2>2. CASE e - 1 \in Positions(f)
        BY <1>0, <2>2
    <2> QED BY <2>1, <2>2 DEF RecordEnds
<1>2. RecordOf(f, e) = f[i - 1] /\ f[i - 1] \in Records
    BY <1>0, <1>1, EndFacts DEF Positions
<1>3. f # <<>> /\ f[1] \in Records /\ HeaderOf[f[1]] # None
    BY <1>0 DEF LogOK
<1>4. HeaderOf[f[1]] \in Sessions
    BY <1>3, LogAssumption
<1>5. i - 1 \in DOMAIN f /\ i \in Nat
    BY <1>0 DEF Positions
<1>6. Content[f[i - 1]].session = HeaderOf[f[1]] /\ (i - 1 # 1 => HeaderOf[f[i - 1]] = None)
    BY <1>2, <1>5 DEF LogOK
<1>7. e <= 3 => i = 2
    <2>1. i \in {2, 3} => i - 2 \in {0, 1}
        OBVIOUS
    <2>2. i # 3
        <3> SUFFICES ASSUME i = 3
                     PROVE  FALSE
            OBVIOUS
        <3>1. f[2] \in Records
            BY <1>2
        <3>2. 2 \in DOMAIN f /\ 2 # 1 /\ 2 - 1 = 1
            BY <1>0
        <3>3. f[1] = NL
            BY <3>1, <3>2 DEF LogOK
        <3> QED BY <1>3, <3>3, Tokens
    <2> QED BY <1>0, <1>1, <1>5, <2>2 DEF Positions
<1>8. i = 2 => f[i - 1] = f[1]
    OBVIOUS
<1>9. HeaderOf[f[i - 1]] \in {None, HeaderOf[f[1]]}
    BY <1>5, <1>6
<1> QED BY <1>0, <1>1, <1>2, <1>3, <1>4, <1>6, <1>7, <1>8, <1>9

\* The draft of a record: a report, named after its session and its end.
LEMMA MadeFacts ==
    ASSUME NEW f, LogOK(f), NEW e \in RecordEnds(f)
    PROVE  /\ Made(f, e).class = "reported" /\ Made(f, e).source = <<HeaderOf[f[1]], e>>
           /\ Made(f, e).source \in Sessions \X Nat /\ Made(f, e).source[2] = e
           /\ Made(f, e).session = HeaderOf[f[1]]
           /\ Made(f, e).body = Content[RecordOf(f, e)].body
           /\ Made(f, e) \notin Drafts
<1>1. RecordOf(f, e) \in Records /\ HeaderOf[f[1]] \in Sessions /\ e \in Nat
    BY RecordFacts
<1>2. Content[RecordOf(f, e)] \in Draft /\ Content[RecordOf(f, e)].class = "reported"
    BY <1>1, LogAssumption
<1>3. Made(f, e) = [Content[RecordOf(f, e)] EXCEPT !.source = <<HeaderOf[f[1]], e>>,
                                                   !.session = HeaderOf[f[1]]]
    BY DEF Made, DraftOf, SourceOf
<1>4. /\ Made(f, e).class = "reported" /\ Made(f, e).source = <<HeaderOf[f[1]], e>>
      /\ Made(f, e).session = HeaderOf[f[1]]
      /\ Made(f, e).body = Content[RecordOf(f, e)].body
    BY <1>2, <1>3 DEF Draft
<1> QED BY <1>1, <1>4, LogAssumption

\* A log that grows by a token: what was read of it stays as it was.
LEMMA GrowthFacts ==
    ASSUME NEW f, LogOK(f), NEW t \in Token, NEW g, g = Append(f, t)
    PROVE  /\ Len(g) = Len(f) + 1 /\ Len(f) \in Nat
           /\ \A o \in 0..Len(f) : /\ AtEnd(g, o) <=> AtEnd(f, o)
                                   /\ PrefixDigest(g, o) = PrefixDigest(f, o)
           /\ \A i \in Positions(g) : i <= Len(f) => i \in Positions(f)
           /\ \A e \in RecordEnds(f) : /\ e \in RecordEnds(g) /\ Made(g, e) = Made(f, e)
                                       /\ RecordOf(g, e) = RecordOf(f, e)
           /\ f # <<>> => g[1] = f[1]
<1>0. /\ f \in Seq(Token) /\ Len(f) \in Nat /\ DOMAIN f = 1..Len(f)
      /\ g \in Seq(Token) /\ Len(g) = Len(f) + 1 /\ DOMAIN g = 1..(Len(f) + 1)
      /\ \A i \in 1..Len(f) : g[i] = f[i]
    BY DEF LogOK
<1>1. ASSUME NEW o \in 0..Len(f)
      PROVE  AtEnd(g, o) <=> AtEnd(f, o)
    BY <1>0 DEF AtEnd
<1>2. ASSUME NEW o \in 0..Len(f)
      PROVE  PrefixDigest(g, o) = PrefixDigest(f, o)
    <2> DEFINE read == IF o < PrefixLimit THEN o ELSE PrefixLimit
    <2>1. read \in 0..Len(f)
        BY <1>0, ImportAssumption
    <2> HIDE DEF read
    <2>2. SubSeq(g, 1, read) = SubSeq(f, 1, read)
        <3>1. \A i \in 1..read : g[i] = f[i]
            BY <1>0, <2>1
        <3> QED BY <1>0, <2>1, <3>1
    <2>3. ~(read > Len(f)) /\ ~(read > Len(g))
        BY <1>0, <2>1
    <2> QED BY <2>2, <2>3 DEF PrefixDigest, read
<1>3. ASSUME NEW i \in Positions(g), i <= Len(f)
      PROVE  i \in Positions(f)
    BY <1>0, <1>3 DEF Positions
<1>4. f # <<>> => g[1] = f[1]
    BY <1>0
<1>5. \A i \in Positions(f) : i \in Positions(g)
    BY <1>0 DEF Positions
<1>6. ASSUME NEW e \in RecordEnds(f)
      PROVE  /\ e \in RecordEnds(g) /\ Made(g, e) = Made(f, e)
             /\ RecordOf(g, e) = RecordOf(f, e)
    <2>0. e \in 2..Len(f)
        BY DEF RecordEnds
    <2>1. e \in RecordEnds(g)
        BY <1>0, <1>5, <2>0 DEF RecordEnds
    <2>2. RecordOf(g, e) = RecordOf(f, e)
        <3>1. e \in 1..Len(f) /\ e - 1 \in 1..Len(f)
            BY <1>0, <2>0
        <3>2. f[e] # End => e - 2 \in 1..Len(f)
            <4>1. e # 2 => e - 2 \in 1..Len(f)
                BY <1>0, <2>0
            <4>2. e = 2 => f[e] = End
                <5>1. e = 2 => e - 1 = 1 /\ 1 \notin Positions(f)
                    BY DEF Positions
                <5>2. e = 2 => e \in Positions(f)
                    BY <5>1 DEF RecordEnds
                <5> QED BY <5>2 DEF Positions
            <4> QED BY <4>1, <4>2
        <3> QED BY <1>0, <3>1, <3>2 DEF RecordOf
    <2>3. g[1] = f[1]
        BY <1>0, <1>4, <2>0
    <2> QED BY <2>1, <2>2, <2>3 DEF Made
<1> QED BY <1>0, <1>1, <1>2, <1>3, <1>4, <1>6

\* The agent appends what keeps its log a log.
LEMMA AgentKeepsLog ==
    ASSUME LogOK(file), NEW t \in NextTokens
    PROVE  t \in Token /\ LogOK(Append(file, t))
<1> DEFINE f == file
           g == Append(f, t)
           n == Len(f) + 1
<1>0. f \in Seq(Token) /\ Len(f) \in Nat /\ DOMAIN f = 1..Len(f)
    BY DEF LogOK
<1>1. t \in Token
    BY DEF NextTokens, Token
<1>2. /\ g \in Seq(Token) /\ DOMAIN g = 1..n /\ g[n] = t /\ n - 1 = Len(f)
      /\ \A i \in 1..Len(f) : g[i] = f[i]
    BY <1>0, <1>1
<1>3. ASSUME NEW i \in 1..Len(f)
      PROVE  /\ g[i] = End => i > 1 /\ g[i - 1] \in Records \cup {Bad}
             /\ g[i] = NL => i > 1 /\ g[i - 1] = End
             /\ g[i] \in Records \cup {Bad} => i = 1 \/ g[i - 1] = NL
             /\ g[i] \in Records => /\ Content[g[i]].session = HeaderOf[g[1]]
                                    /\ i # 1 => HeaderOf[g[i]] = None
    <2>1. g[i] = f[i] /\ (i # 1 => g[i - 1] = f[i - 1]) /\ g[1] = f[1] /\ i \in DOMAIN f
        BY <1>0, <1>2
    <2> QED BY <2>1 DEF LogOK
<1>4. CASE f = <<>>
    <2>1. n = 1 /\ t \in Records /\ HeaderOf[t] # None
        BY <1>4 DEF NextTokens
    <2>2. g[1] = t /\ DOMAIN g = {1} /\ g # <<>>
        BY <1>2, <2>1
    <2>3. Content[t].session = HeaderOf[t]
        BY <2>1, LogAssumption
    <2>4. t # End /\ t # NL
        BY <2>1, Tokens
    <2> QED BY <1>1, <1>2, <2>1, <2>2, <2>3, <2>4 DEF LogOK
<1>5. CASE f # <<>>
    <2>0. Len(f) \in 1..Len(f) /\ Len(f) # 0 /\ n > 1 /\ n \in Nat /\ g # <<>>
          /\ g[n - 1] = f[Len(f)] /\ g[1] = f[1] /\ f[Len(f)] \in Token
        <3> HIDE DEF f
        <3>1. Len(f) # 0
            BY <1>0, <1>5
        <3>2. Len(f) \in 1..Len(f) /\ 1 \in 1..Len(f) /\ n > 1 /\ n \in Nat
            BY <1>0, <3>1
        <3>3. g # <<>>
            BY <1>2, <3>2
        <3> QED BY <1>0, <1>2, <3>1, <3>2, <3>3
    <2>1. f[1] \in Records /\ HeaderOf[f[1]] # None
        BY <1>5 DEF LogOK
    <2>2. CASE f[Len(f)] = NL
        <3>1. Len(f) >= 2
            <4>1. Len(f) # 1
                BY <2>1, <2>2, Tokens
            <4> QED BY <1>0, <2>0, <4>1
        <3>2. FirstHeader(f) = HeaderOf[f[1]]
            BY <3>1, HeaderFacts
        <3>3. t = Bad \/ (t \in Records /\ HeaderOf[t] = None /\ Content[t].session = FirstHeader(f))
            BY <1>5, <2>2 DEF NextTokens
        <3>4. t # End /\ t # NL /\ (t = Bad => t \notin Records)
            BY <3>3, Tokens
        <3>5. \A i \in 1..n : i \in 1..Len(f) \/ i = n
            BY <1>0
        <3>6. /\ g[n] # End /\ g[n] # NL /\ g[n - 1] = NL
              /\ g[n] \in Records => Content[g[n]].session = HeaderOf[g[1]] /\ HeaderOf[g[n]] = None
            BY <1>2, <2>0, <2>2, <3>2, <3>3, <3>4
        <3> QED BY <1>2, <1>3, <2>0, <2>1, <3>5, <3>6 DEF LogOK
    <2>3. CASE f[Len(f)] = End
        <3>1. t = NL /\ NL # End /\ NL \notin Records \cup {Bad}
            BY <1>5, <2>3, Tokens DEF NextTokens
        <3>2. \A i \in 1..n : i \in 1..Len(f) \/ i = n
            BY <1>0
        <3> QED BY <1>2, <1>3, <2>0, <2>1, <2>3, <3>1, <3>2 DEF LogOK
    <2>4. CASE f[Len(f)] \notin {NL, End}
        <3>1. t = End /\ NL # End /\ End \notin Records \cup {Bad}
            BY <1>5, <2>4, Tokens DEF NextTokens
        <3>2. \A i \in 1..n : i \in 1..Len(f) \/ i = n
            BY <1>0
        <3>3. f[Len(f)] \in Records \cup {Bad}
            BY <2>0, <2>4 DEF Token
        <3> QED BY <1>2, <1>3, <2>0, <2>1, <3>1, <3>2, <3>3 DEF LogOK
    <2> QED BY <2>2, <2>3, <2>4
<1> QED BY <1>1, <1>4, <1>5

\* Where a run resumes behind the beginning, the first line is whole.
LEMMA FirstLine ==
    ASSUME NEW f, LogOK(f), NEW o \in 1..Len(f), AtEnd(f, o)
    PROVE  Len(f) >= 2 /\ o >= 2 /\ 2 \in Positions(f) /\ ReadAs(f, 2) <= 3
<1>0. f \in Seq(Token) /\ Len(f) \in Nat /\ DOMAIN f = 1..Len(f) /\ f # <<>>
    BY DEF LogOK
<1>1. f[1] \in Records
    BY <1>0 DEF LogOK
<1>2. o # 1
    BY <1>1, Tokens DEF AtEnd
<1>3. Len(f) >= 2 /\ o >= 2
    BY <1>0, <1>2
<1>4. f[2] = End
    <2>1. 0 \in 0..(Len(f) - 1) /\ Len(f) >= 0 + 2
        BY <1>0, <1>3
    <2>2. f[0 + 2] = End
        BY <2>1, WholeLine
    <2> QED BY <2>2
<1>5. 2 \in Positions(f)
    BY <1>0, <1>1, <1>3, <1>4 DEF Positions
<1>6. ReadAs(f, 2) <= 3
    BY <1>0 DEF ReadAs
<1> QED BY <1>3, <1>5, <1>6
-----------------------------------------------------------------------------
(* The batch *)

\* What a batch holds: the records behind the offset it was read from.
BatchFrom(o) ==
    /\ run.end \in o..Len(file)
    /\ run.end = o \/ run.end = Len(file) \/ file[run.end] = NL
    /\ \A item \in run.batch : \E i \in Positions(file) :
          o < i /\ item = [record |-> file[i - 1], end |-> ReadAs(file, i)]
    /\ \A i \in Positions(file) : o < i /\ i <= run.end =>
          [record |-> file[i - 1], end |-> ReadAs(file, i)] \in run.batch
    /\ run.end = o => \A i \in Positions(file) : i <= o

\* A read from the end of a record or line makes a batch of all that is behind it.
LEMMA ReadMakesBatch ==
    ASSUME LogOK(file), ReadBatch, NEW o, o = run.offset, o \in 0..Len(file), AtEnd(file, o),
           run.size \in Nat, run.loaded \in Nat, run.seen \in Seq(Token)
    PROVE  BatchOK' /\ BatchFrom(o)' /\ run'.phase \in {"header", "emit"}
           /\ run'.size = run.size /\ run'.loaded = run.loaded
<1> DEFINE f == file
           b == ReadJsonl(f, o, MaxRecords)
<1>0. LogOK(f) /\ Len(f) \in Nat /\ o \in Nat /\ UNCHANGED <<pipelineVars, file, cursor, rewritten>>
    BY DEF ReadBatch, LogOK
<1>1. run' = [phase |-> IF o > 0 THEN "header" ELSE "emit", size |-> run.size, loaded |-> run.loaded,
              end |-> b.offset, batch |-> b.records, session |-> FileName,
              from |-> o, text |-> f, seen |-> run.seen \o SubSeq(f, o + 1, b.offset)]
    <2>1. ~(o > Len(f))
        BY <1>0
    <2> QED BY <1>0, <2>1 DEF ReadBatch
<1> HIDE DEF b
<1>2. /\ b.offset \in o..Len(f) /\ AtEnd(f, b.offset)
      /\ b.offset = o \/ b.offset = Len(f) \/ f[b.offset] = NL
      /\ \A item \in b.records : \E i \in Positions(f) :
            /\ o < i /\ item = [record |-> f[i - 1], end |-> ReadAs(f, i)]
            /\ item.end <= b.offset
      /\ \A i \in Positions(f) : o < i /\ i <= b.offset =>
            [record |-> f[i - 1], end |-> ReadAs(f, i)] \in b.records
      /\ b.offset = o => \A i \in Positions(f) : i <= o
    BY <1>0, ImportAssumption, BatchFacts DEF b
<1>3. \A i \in Positions(f) : /\ ReadAs(f, i) \in {i, i + 1} /\ ReadAs(f, i) <= Len(f)
                              /\ i \in 2..Len(f) /\ i \in Nat /\ f[i - 1] \in Records
    BY <1>0 DEF Positions, ReadAs
<1>4. \A item \in b.records :
         /\ item \in [record : Records, end : Nat]
         /\ item.end \in RecordEnds(f) /\ item.end <= b.offset
         /\ item.record = RecordOf(f, item.end)
    <2> TAKE item \in b.records
    <2>1. PICK i \in Positions(f) : /\ item = [record |-> f[i - 1], end |-> ReadAs(f, i)]
                                    /\ item.end <= b.offset
        BY <1>2
    <2>2. ReadAs(f, i) \in RecordEnds(f) /\ RecordOf(f, ReadAs(f, i)) = f[i - 1] /\ ReadAs(f, i) \in Nat
        BY <1>0, <1>3, EndFacts
    <2> QED BY <1>3, <2>1, <2>2
<1>5. /\ run'.phase = IF o > 0 THEN "header" ELSE "emit"
      /\ run'.size = run.size /\ run'.loaded = run.loaded /\ run'.end = b.offset
      /\ run'.batch = b.records /\ run'.session = FileName
    BY <1>1
<1>6. run' \in BatchOver
    <2> DEFINE more == run.seen \o SubSeq(f, o + 1, b.offset)
    <2>1. f \in Seq(Token) /\ more \in Seq(Token)
        BY <1>0, <1>2 DEF LogOK
    <2> HIDE DEF more
    <2> QED BY <1>0, <1>1, <1>2, <1>4, <2>1, ImportAssumption DEF BatchOver, InBatch, more
<1>7. o = 0 => b.records = {} \/ \E item \in b.records : item.end <= 3
    <2> SUFFICES ASSUME o = 0, b.records # {}
                 PROVE  \E item \in b.records : item.end <= 3
        OBVIOUS
    <2>1. PICK item \in b.records : item.end \in RecordEnds(f) /\ item.end <= b.offset
        BY <1>4
    <2>2. b.offset \in 1..Len(f)
        BY <1>0, <1>2, <2>1 DEF RecordEnds
    <2>3. b.offset >= 2 /\ 2 \in Positions(f) /\ ReadAs(f, 2) <= 3
        BY <1>0, <1>2, <2>2, FirstLine
    <2>4. [record |-> f[2 - 1], end |-> ReadAs(f, 2)] \in b.records
        <3>1. o < 2 /\ 2 <= b.offset
            BY <1>0, <1>2, <2>2, <2>3
        <3> QED BY <1>2, <2>3, <3>1
    <2> QED BY <2>3, <2>4
<1>8. o > 0 => Len(f) >= 2
    BY <1>0, FirstLine
<1>9. b.offset <= Len(f)
    BY <1>0, <1>2
<1>10. BatchOK'
    <2>1. /\ run'.phase \in {"header", "emit"}
          /\ run'.end <= Len(file') /\ AtEnd(file', run'.end)
          /\ \A item \in run'.batch :
                /\ item.end \in RecordEnds(file') /\ item.end <= run'.end
                /\ item.record = RecordOf(file', item.end)
          /\ run'.phase = "header" => Len(file') >= 2
          /\ run'.phase = "emit" => run'.batch = {} \/ \E item \in run'.batch : item.end <= 3
        BY <1>0, <1>2, <1>4, <1>5, <1>7, <1>8, <1>9
    <2> QED BY <1>6, <2>1 DEF BatchOK, InBatch
<1>11. /\ run'.end \in o..Len(file')
       /\ run'.end = o \/ run'.end = Len(file') \/ file'[run'.end] = NL
       /\ \A item \in run'.batch : \E i \in Positions(file') :
             o < i /\ item = [record |-> file'[i - 1], end |-> ReadAs(file', i)]
       /\ \A i \in Positions(file') : o < i /\ i <= run'.end =>
             [record |-> file'[i - 1], end |-> ReadAs(file', i)] \in run'.batch
       /\ run'.end = o => \A i \in Positions(file') : i <= o
    BY <1>0, <1>2, <1>5
<1>12. BatchFrom(o)'
    BY <1>11 DEF BatchFrom
<1> QED BY <1>5, <1>10, <1>12

\* A step that changes nothing but the phase and the session keeps the rest.
SameBatch ==
    /\ run.phase \in InBatch /\ run'.phase \in InBatch
    /\ run'.size = run.size /\ run'.loaded = run.loaded /\ run'.end = run.end
    /\ UNCHANGED <<file, cursor, rewritten, events>>

\* The first line of the rollout gives the session of the records behind it.
LEMMA HeaderKeepsBatch ==
    ASSUME LogOK(file), BatchOK, ReadHeader
    PROVE  BatchOK' /\ SameBatch /\ run'.batch = run.batch /\ run'.phase = "emit"
<1> DEFINE f == file
<1>0. /\ run.phase = "header" /\ run \in BatchOver /\ Len(f) \in Nat /\ Len(f) >= 2
      /\ run.end <= Len(f) /\ AtEnd(f, run.end)
      /\ \A b \in run.batch : /\ b.end \in RecordEnds(f) /\ b.end <= run.end
                              /\ b.record = RecordOf(f, b.end)
      /\ UNCHANGED <<pipelineVars, file, cursor, rewritten>>
    BY DEF ReadHeader, LogOK, BatchOK, InBatch
<1>1. HeaderSession = HeaderOf[f[1]]
    BY <1>0, HeaderFacts DEF HeaderSession
<1>2. HeaderSession \in Sessions
    <2>1. f # <<>>
        BY <1>0
    <2>2. f[1] \in Records /\ HeaderOf[f[1]] # None
        BY <2>1 DEF LogOK
    <2> QED BY <1>1, <2>2, LogAssumption
<1>3. /\ run'.phase = "emit" /\ run'.session = HeaderOf[f[1]] /\ run' \in BatchOver
      /\ run'.size = run.size /\ run'.loaded = run.loaded /\ run'.end = run.end
      /\ run'.batch = run.batch
    BY <1>0, <1>1, <1>2 DEF ReadHeader, BatchOver, InBatch
<1>4. BatchOK'
    BY <1>0, <1>3 DEF BatchOK, InBatch
<1> QED BY <1>0, <1>3, <1>4 DEF SameBatch, InBatch, pipelineVars

\* The next record of a batch is one of its earliest.
LEMMA NextOfBatch ==
    ASSUME LogOK(file), BatchOK, run.phase \in InBatch, run.batch # {}
    PROVE  LET item == First(run.batch)
           IN /\ item \in run.batch /\ \A b \in run.batch : item.end <= b.end
              /\ item = [record |-> RecordOf(file, item.end), end |-> item.end]
              /\ item.end \in RecordEnds(file) /\ item.end \in Nat /\ item.end <= run.end
<1>1. \A b \in run.batch : /\ b.end \in RecordEnds(file) /\ b.end <= run.end
                           /\ b.record = RecordOf(file, b.end)
    BY DEF BatchOK
<1>2. \A b \in run.batch : b.end \in Nat /\ b \in [record : Records, end : Nat]
    BY DEF BatchOK, BatchOver
<1>3. First(run.batch) \in run.batch /\ \A b \in run.batch : First(run.batch).end <= b.end
    BY <1>2, FirstFacts
<1> QED BY <1>1, <1>2, <1>3

\* What is waited for is a record of the log.
LEMMA CurrentIsMade ==
    ASSUME LogOK(file), BatchOK, run.phase = "await"
    PROVE  LET item == First(run.batch)
           IN /\ item.end \in RecordEnds(file) /\ Current = Made(file, item.end)
              /\ item = [record |-> RecordOf(file, item.end), end |-> item.end]
<1>1. run.phase \in InBatch /\ run.batch # {} /\ run.session = HeaderOf[file[1]]
    BY DEF BatchOK, InBatch
<1>2. /\ First(run.batch) = [record |-> RecordOf(file, First(run.batch).end),
                             end |-> First(run.batch).end]
      /\ First(run.batch).end \in RecordEnds(file)
    BY <1>1, NextOfBatch
<1> QED BY <1>1, <1>2 DEF Current, Made

\* A record is sent under the session of the log.
LEMMA EmitKeepsBatch ==
    ASSUME LogOK(file), BatchOK, Emit
    PROVE  BatchOK' /\ SameBatch /\ run'.batch = run.batch /\ run'.phase = "await"
<1> DEFINE f == file
           item == First(run.batch)
           session == SessionOf(item.record, run.session)
<1>0. /\ run.phase = "emit" /\ run \in BatchOver /\ run.batch # {} /\ Len(f) \in Nat
      /\ UNCHANGED <<file, cursor, rewritten>> /\ run.phase \in InBatch
      /\ run.end <= Len(f) /\ AtEnd(f, run.end)
      /\ \A b \in run.batch : /\ b.end \in RecordEnds(f) /\ b.end <= run.end
                              /\ b.record = RecordOf(f, b.end)
    BY DEF Emit, LogOK, BatchOK, InBatch
<1>1. /\ item \in run.batch /\ item.end \in RecordEnds(f) /\ item.end <= run.end
      /\ item.record = RecordOf(f, item.end) /\ \A b \in run.batch : item.end <= b.end
      /\ item.end \in Nat
    BY <1>0, NextOfBatch
<1>2. /\ \E draft : Ingest(Importer, draft)
      /\ run' = [run EXCEPT !.phase = "await", !.session = session]
    BY DEF Emit
<1> HIDE DEF item
<1>3. session = HeaderOf[f[1]] /\ session \in Sessions
    <2>1. /\ HeaderOf[item.record] \in {None, HeaderOf[f[1]]} /\ HeaderOf[f[1]] \in Sessions
          /\ item.end <= 3 => item.record = f[1] /\ HeaderOf[f[1]] # None
        BY <1>0, <1>1, RecordFacts
    <2>2. run.session = HeaderOf[f[1]] \/ \E b \in run.batch : b.end <= 3
        BY <1>0 DEF BatchOK
    <2>3. (\E b \in run.batch : b.end <= 3) => item.end <= 3
        <3>1. \A b \in run.batch : b.end \in Nat
            BY <1>0 DEF BatchOver
        <3> QED BY <1>1, <3>1
    <2> QED BY <2>1, <2>2, <2>3 DEF SessionOf
<1>4. /\ run'.phase = "await" /\ run'.session = HeaderOf[f[1]] /\ run' \in BatchOver
      /\ run'.size = run.size /\ run'.loaded = run.loaded /\ run'.end = run.end
      /\ run'.batch = run.batch
    BY <1>0, <1>2, <1>3 DEF BatchOver, InBatch
<1>5. UNCHANGED events
    BY <1>2 DEF Ingest, Send, SendRefused, stored
<1>6. BatchOK'
    BY <1>0, <1>4 DEF BatchOK, InBatch
<1> QED BY <1>0, <1>4, <1>5, <1>6 DEF SameBatch, InBatch

\* An answer that the record is persisted takes it from the batch, another ends the run.
LEMMA AwaitKeepsBatch ==
    ASSUME LogOK(file), BatchOK, SentOK, Await
    PROVE  /\ BatchOK' /\ UNCHANGED <<file, cursor, rewritten, events>>
           /\ \/ run' = NoRun
              \/ /\ Persisted(Current) /\ SameBatch /\ run'.phase = "emit"
                 /\ run'.batch = run.batch \ {First(run.batch)}
<1> DEFINE f == file
           item == First(run.batch)
<1>0. /\ run.phase = "await" /\ run \in BatchOver /\ Len(f) \in Nat
      /\ run.session = HeaderOf[f[1]]
      /\ UNCHANGED <<file, cursor, rewritten>> /\ run.phase \in InBatch
      /\ run.end <= Len(f) /\ AtEnd(f, run.end)
      /\ \A b \in run.batch : /\ b.end \in RecordEnds(f) /\ b.end <= run.end
                              /\ b.record = RecordOf(f, b.end)
    BY DEF Await, LogOK, BatchOK, InBatch
<1>1. UNCHANGED events
    BY DEF Await, Collect, stored
<1>2. CASE reply[Importer].state # "stored"
    <2>1. run' = NoRun /\ run'.phase \notin InBatch
        BY <1>2 DEF Await, NoRun, InBatch
    <2> QED BY <1>0, <1>1, <2>1 DEF BatchOK
<1>3. CASE reply[Importer].state = "stored"
    <2>1. Persisted(Current)
        BY <1>3 DEF SentOK
    <2>2. run' = [run EXCEPT !.phase = "emit", !.batch = @ \ {item}]
        BY <1>3 DEF Await
    <2> HIDE DEF item
    <2>3. /\ run'.phase = "emit" /\ run'.session = run.session
          /\ run'.size = run.size /\ run'.loaded = run.loaded /\ run'.end = run.end
          /\ run'.batch = run.batch \ {item}
          /\ run' \in BatchOver
        BY <1>0, <2>2 DEF BatchOver, InBatch
    <2>4. \A b \in run'.batch : b \in run.batch
        BY <2>3
    <2>5. BatchOK'
        BY <1>0, <2>3, <2>4 DEF BatchOK, InBatch
    <2> QED BY <1>0, <1>1, <2>1, <2>3, <2>5 DEF SameBatch, InBatch, item
<1> QED BY <1>2, <1>3

\* The batch stays one of the log that the agent appends to.
LEMMA WriteKeepsBatch ==
    ASSUME LogOK(file), BatchOK, Write
    PROVE  BatchOK'
<1> DEFINE f == file
<1> PICK t \in NextTokens : file' = Append(file, t)
    BY DEF Write
<1> DEFINE g == Append(f, t)
<1>0. LogOK(f) /\ t \in Token /\ file' = g /\ UNCHANGED run
    BY AgentKeepsLog DEF Write
<1>1. /\ Len(g) = Len(f) + 1 /\ Len(f) \in Nat
      /\ \A o \in 0..Len(f) : AtEnd(g, o) <=> AtEnd(f, o)
      /\ \A e \in RecordEnds(f) : e \in RecordEnds(g) /\ RecordOf(g, e) = RecordOf(f, e)
      /\ f # <<>> => g[1] = f[1]
    BY <1>0, GrowthFacts
<1> HIDE DEF g
<1> SUFFICES ASSUME run.phase \in InBatch
             PROVE  BatchOK'
    BY <1>0 DEF BatchOK
<1>2. /\ run \in BatchOver /\ run.end \in 0..Len(f) /\ AtEnd(f, run.end)
      /\ \A b \in run.batch : /\ b.end \in RecordEnds(f) /\ b.end <= run.end
                              /\ b.record = RecordOf(f, b.end)
    BY <1>1 DEF BatchOK, BatchOver
<1>3. run.batch # {} => f # <<>>
    <2> SUFFICES ASSUME NEW b \in run.batch
                 PROVE  f # <<>>
        OBVIOUS
    <2>1. b.end \in 2..Len(f)
        BY <1>2 DEF RecordEnds
    <2> QED BY <1>1, <2>1
<1>4. run.end <= Len(g) /\ AtEnd(g, run.end) /\ (Len(f) >= 2 => Len(g) >= 2)
    BY <1>1, <1>2
<1> QED BY <1>0, <1>1, <1>2, <1>3, <1>4 DEF BatchOK

-----------------------------------------------------------------------------
(* What the importer has sent *)

\* While the importer waits for nothing it has nothing in the pipeline.
LEMMA NothingSent ==
    ASSUME SentOK, run.phase # "await"
    PROVE  /\ reply[Importer] = Idle
           /\ \A n \in DOMAIN queue : queue[n].from # Importer
           /\ job # NoJob => job.from # Importer
BY DEF SentOK

\* A step of the importer alone, before or after it waits, or of the agent.
LEMMA QuietKeepsSent ==
    ASSUME SentOK, UNCHANGED pipelineVars, run.phase # "await" \/ UNCHANGED run
    PROVE  SentOK'
<1>1. CASE run.phase # "await"
    <2>1. reply[Importer].state # "stored"
        BY <1>1, NothingSent DEF Idle
    <2> QED BY <1>1, <2>1, NothingSent DEF SentOK, pipelineVars
<1>2. CASE UNCHANGED run
    <2>1. Current' = Current /\ (Persisted(Current)' <=> Persisted(Current))
        BY <1>2 DEF Current, Persisted, pipelineVars
    <2> QED BY <1>2, <2>1 DEF SentOK, pipelineVars
<1> QED BY <1>1, <1>2

\* A record is sent, or refused.
LEMMA EmitKeepsSent ==
    ASSUME SentOK, BatchTyped, Shape, Emit
    PROVE  SentOK'
<1> DEFINE item == First(run.batch)
           session == SessionOf(item.record, run.session)
           draft == DraftOf(item, session)
<1>1. /\ \A n \in DOMAIN queue : queue[n].from # Importer
      /\ job # NoJob => job.from # Importer
      /\ Ingest(Importer, draft)
      /\ run' = [run EXCEPT !.phase = "await", !.session = session]
      /\ DOMAIN reply = Producers /\ run \in BatchOver
    BY NothingSent DEF Emit, Shape, BatchTyped, InBatch
<1>2. CASE Send([from |-> Importer, kind |-> "event", draft |-> draft])
    <2> DEFINE command == [from |-> Importer, kind |-> "event", draft |-> draft]
    <2>0. PICK D : queue \in Seq(CommandOver(D))
        BY DEF Shape, ShapeOver
    <2>1. queue' = Append(queue, command) /\ reply' = [reply EXCEPT ![Importer] = Waiting]
          /\ UNCHANGED job
        BY <1>2 DEF Send
    <2>2. /\ command.from = Importer /\ command.kind = "event" /\ command.draft = draft
        OBVIOUS
    <2>3. run'.phase = "await" /\ draft = Current'
        <3>1. run'.phase = "await" /\ run'.session = session /\ run'.batch = run.batch
            <4> HIDE DEF session
            <4> QED BY <1>1 DEF BatchOver
        <3> QED BY <3>1 DEF Current
    <2> HIDE DEF command, draft
    <2>4. /\ DOMAIN queue' = 1..(Len(queue) + 1) /\ DOMAIN queue = 1..Len(queue)
          /\ Len(queue) \in Nat
          /\ \A n \in 1..Len(queue) : queue'[n] = queue[n]
          /\ queue'[Len(queue) + 1] = command
        BY <2>0, <2>1
    <2>5. reply'[Importer] = Waiting
        BY <1>1, <2>1, ImportAssumption
    <2>6. \A n \in DOMAIN queue' : queue'[n].from = Importer => n = Len(queue) + 1
        BY <1>1, <2>4
    <2>7. \A n \in DOMAIN queue' : n \in DOMAIN queue \/ n = Len(queue) + 1
        BY <2>4
    <2>8. Waiting.state # "stored" /\ Waiting # Idle
        BY DEF Waiting, Idle
    <2>9. \A n \in DOMAIN queue' :
              /\ queue'[n].from # Importer /\ queue'[n].kind = "event" => queue'[n].draft \in Drafts
              /\ queue'[n].from = Importer => queue'[n].kind = "event" /\ queue'[n].draft = Current'
        BY <1>1, <2>2, <2>3, <2>4, <2>7 DEF SentOK
    <2> QED BY <1>1, <2>1, <2>3, <2>5, <2>6, <2>8, <2>9 DEF SentOK
<1>3. CASE SendRefused(Importer)
    <2>1. UNCHANGED <<queue, job>> /\ reply'[Importer] = Failed /\ Failed.state # "stored"
        BY <1>1, <1>3, ImportAssumption DEF SendRefused, Failed
    <2> QED BY <1>1, <2>1 DEF SentOK
<1> QED BY <1>1, <1>2, <1>3 DEF Ingest

\* The importer takes its answer.
LEMMA AwaitKeepsSent ==
    ASSUME SentOK, Shape, Await
    PROVE  SentOK'
<1>1. UNCHANGED <<queue, job, events>> /\ reply[Importer] # Waiting /\ DOMAIN reply = Producers
      /\ reply'[Importer] = Idle
    BY ImportAssumption DEF Await, Collect, stored, Shape
<1>2. Idle.state # "stored"
    BY DEF Idle
<1>3. /\ \A n \in DOMAIN queue : queue[n].from # Importer
      /\ job # NoJob => job.from # Importer
    BY <1>1 DEF SentOK
<1> QED BY <1>1, <1>2, <1>3 DEF SentOK

\* Another producer sends, closes or takes its answer.
LEMMA ObserveKeepsSent ==
    ASSUME SentOK, Shape, Observe
    PROVE  SentOK'
<1>0. UNCHANGED <<file, cursor, run, rewritten>> /\ DOMAIN reply = Producers
      /\ Current' = Current
    BY DEF Observe, Shape, Current
<1>1. PICK p \in Producers \ {Importer} :
          Close(p) \/ (\E draft \in Drafts : Ingest(p, draft)) \/ Collect(p)
    BY DEF Observe
<1>2. ASSUME NEW command, command.from = p, Send(command),
             command.kind = "event" => command.draft \in Drafts
      PROVE  SentOK'
    <2>1. /\ queue' = Append(queue, command) /\ reply' = [reply EXCEPT ![p] = Waiting]
          /\ UNCHANGED <<job, events>>
        BY <1>2 DEF Send, stored
    <2>2. PICK D : queue \in Seq(CommandOver(D))
        BY DEF Shape, ShapeOver
    <2>3. /\ DOMAIN queue' = 1..(Len(queue) + 1) /\ DOMAIN queue = 1..Len(queue)
          /\ Len(queue) \in Nat
          /\ \A n \in 1..Len(queue) : queue'[n] = queue[n]
          /\ queue'[Len(queue) + 1] = command
        BY <2>1, <2>2
    <2>4. reply'[Importer] = reply[Importer]
        BY <1>0, <1>1, <2>1, ImportAssumption
    <2>5. \A n \in DOMAIN queue' : n \in DOMAIN queue \/ queue'[n] = command
        BY <2>3
    <2>6. \A n \in DOMAIN queue' :
              queue'[n].from # Importer /\ queue'[n].kind = "event" => queue'[n].draft \in Drafts
        BY <1>2, <2>3, <2>5 DEF SentOK
    <2>7. \A n \in DOMAIN queue' : queue'[n].from = Importer =>
              n \in DOMAIN queue /\ queue'[n] = queue[n]
        BY <1>1, <1>2, <2>3, <2>5
    <2>8. \A n \in DOMAIN queue' : queue'[n].from = Importer =>
              /\ queue'[n].kind = "event" /\ queue'[n].draft = Current
              /\ run.phase = "await" /\ reply[Importer] = Waiting
              /\ \A m \in DOMAIN queue' : queue'[m].from = Importer => m = n
              /\ job = NoJob \/ job.from # Importer
        BY <2>7 DEF SentOK
    <2>9. Persisted(Current)' <=> Persisted(Current)
        BY <1>0, <2>1 DEF Persisted
    <2> QED BY <1>0, <2>1, <2>4, <2>6, <2>8, <2>9 DEF SentOK
<1>3. CASE SendRefused(p) \/ Collect(p)
    <2>1. UNCHANGED <<queue, job, events>> /\ reply'[Importer] = reply[Importer]
        BY <1>0, <1>1, <1>3, ImportAssumption DEF SendRefused, Collect, stored
    <2>2. Persisted(Current)' <=> Persisted(Current)
        BY <1>0, <2>1 DEF Persisted
    <2> QED BY <1>0, <2>1, <2>2 DEF SentOK
<1>4. CASE Close(p)
    <2>1. CASE Send([from |-> p, kind |-> "shutdown"])
        BY <1>2, <2>1
    <2> QED BY <1>3, <1>4, <2>1 DEF Close
<1>5. CASE \E draft \in Drafts : Ingest(p, draft)
    <2> PICK draft \in Drafts : Ingest(p, draft)
        BY <1>5
    <2>1. CASE Send([from |-> p, kind |-> "event", draft |-> draft])
        BY <1>2, <2>1
    <2> QED BY <1>3, <2>1 DEF Ingest
<1> QED BY <1>1, <1>3, <1>4, <1>5

\* The worker takes the next command.
LEMMA ReceiveKeepsSent ==
    ASSUME SentOK, Shape, Receive, UNCHANGED run
    PROVE  SentOK'
<1> PICK D : ShapeOver(D)
    BY DEF Shape
<1>0. /\ queue # <<>> /\ Head(queue).kind = "event" /\ job = NoJob
      /\ job' = [stage |-> "append", from |-> Head(queue).from, draft |-> Head(queue).draft]
      /\ queue' = Tail(queue) /\ UNCHANGED <<reply, events>>
    BY DEF Receive, stored
<1>1. /\ queue \in Seq(CommandOver(D)) /\ Len(queue) \in Nat /\ Head(queue) = queue[1]
      /\ 1 \in DOMAIN queue /\ DOMAIN queue' = 1..(Len(queue) - 1)
      /\ \A n \in DOMAIN queue' : queue'[n] = queue[n + 1] /\ n + 1 \in DOMAIN queue /\ n \in Nat
    BY <1>0 DEF ShapeOver
<1>2. /\ job' # NoJob /\ job'.stage = "append" /\ job'.from = queue[1].from
      /\ job'.draft = queue[1].draft /\ queue[1].kind = "event"
    BY <1>0, <1>1 DEF NoJob
<1>3. \A n \in DOMAIN queue' : n + 1 # 1 /\ \A m \in DOMAIN queue' : m + 1 = n + 1 => m = n
    BY <1>1
<1>4. (Persisted(Current)' <=> Persisted(Current)) /\ Current' = Current
    BY <1>0 DEF Current, Persisted
<1>5. \A n \in DOMAIN queue' :
         /\ queue'[n].from # Importer /\ queue'[n].kind = "event" => queue'[n].draft \in Drafts
         /\ queue'[n].from = Importer =>
              /\ queue'[n].kind = "event" /\ queue'[n].draft = Current
              /\ run.phase = "await" /\ reply[Importer] = Waiting
              /\ \A m \in DOMAIN queue' : queue'[m].from = Importer => m = n
              /\ job'.from # Importer
    <2> TAKE n \in DOMAIN queue'
    <2>1. queue[n + 1].from # Importer /\ queue[n + 1].kind = "event" => queue[n + 1].draft \in Drafts
        BY <1>1 DEF SentOK
    <2>2. queue[n + 1].from = Importer =>
              /\ queue[n + 1].kind = "event" /\ queue[n + 1].draft = Current
              /\ run.phase = "await" /\ reply[Importer] = Waiting
              /\ \A m \in DOMAIN queue : queue[m].from = Importer => m = n + 1
        BY <1>1 DEF SentOK
    <2>3. queue'[n].from = Importer => \A m \in DOMAIN queue' : queue'[m].from = Importer => m = n
        BY <1>1, <1>3, <2>2
    <2>4. queue'[n].from = Importer => job'.from # Importer
        BY <1>1, <1>2, <1>3, <2>2
    <2> QED BY <1>1, <2>1, <2>2, <2>3, <2>4
<1>6. /\ job'.from # Importer => job'.draft \in Drafts
      /\ job'.from = Importer => /\ run.phase = "await" /\ reply[Importer] = Waiting
                                 /\ job'.draft = Current
    BY <1>1, <1>2 DEF SentOK
<1> QED BY <1>0, <1>2, <1>4, <1>5, <1>6 DEF SentOK

\* A worker that stops leaves no command, and nobody waits any more.
LEMMA StopKeepsSent ==
    ASSUME SentOK, Shape, Stop, UNCHANGED run
    PROVE  SentOK'
<1>0. /\ queue # <<>> /\ Head(queue).kind = "shutdown" /\ job = NoJob /\ job' = NoJob
      /\ queue' = <<>> /\ reply' = Dismissed(Head(queue).from) /\ UNCHANGED events
    BY DEF Stop, stored
<1>1. Head(queue).from # Importer
    <2>1. 1 \in DOMAIN queue /\ Head(queue) = queue[1]
        BY <1>0 DEF Shape, ShapeOver
    <2> QED BY <1>0, <2>1 DEF SentOK
<1>2. reply'[Importer] = IF reply[Importer] = Waiting THEN Failed ELSE reply[Importer]
    BY <1>0, <1>1, ImportAssumption DEF Dismissed
<1>3. Waiting # Idle /\ Failed.state # "stored" /\ DOMAIN queue' = {}
    BY <1>0 DEF Waiting, Idle, Failed
<1>4. Persisted(Current)' <=> Persisted(Current)
    BY <1>0 DEF Persisted, Current
<1> QED BY <1>0, <1>2, <1>3, <1>4 DEF SentOK

\* The job ends with an answer that is no lie about the importer's record.
LEMMA AnswerKeepsSent ==
    ASSUME SentOK, DOMAIN reply = Producers, job # NoJob, NEW r, Answer(job.from, r),
           UNCHANGED <<queue, run, events>>,
           r.state = "stored" /\ job.from = Importer => Persisted(Current)
    PROVE  SentOK'
<1>1. job' = NoJob /\ reply' = [reply EXCEPT ![job.from] = r]
    BY DEF Answer
<1>2. (Persisted(Current)' <=> Persisted(Current)) /\ Current' = Current
    BY DEF Current, Persisted
<1>3. CASE job.from = Importer
    <2>1. reply'[Importer] = r /\ run.phase = "await" /\ \A n \in DOMAIN queue : queue[n].from # Importer
        BY <1>1, <1>3, ImportAssumption DEF SentOK
    <2> QED BY <1>1, <1>2, <1>3, <2>1 DEF SentOK
<1>4. CASE job.from # Importer
    <2>1. reply'[Importer] = reply[Importer]
        BY <1>1, <1>4, ImportAssumption
    <2> QED BY <1>1, <1>2, <2>1 DEF SentOK
<1> QED BY <1>3, <1>4

\* What an append does to the events.
AppendsDraft(d) ==
    /\ DOMAIN events = 1..Len(events) /\ Len(events) \in Nat
    /\ DOMAIN events' = 1..(Len(events) + 1)
    /\ \A i \in 1..Len(events) : /\ events'[i].draft = events[i].draft
                                 /\ i \notin LiveVersion(d.source) => events'[i] = events[i]
    /\ events'[Len(events) + 1].draft = d /\ events'[Len(events) + 1].live

\* An append finds the draft persisted, or adds it as the live version of its source.
LEMMA AppendFacts ==
    ASSUME Shape, AppendEvent
    PROVE  \/ \E id \in LiveVersion(job.draft.source) :
                 events[id].draft = job.draft /\ Replay(id) /\ UNCHANGED events
           \/ /\ \A id \in LiveVersion(job.draft.source) : events[id].draft # job.draft
              /\ job' = [stage |-> "findings", from |-> job.from, id |-> Len(events) + 1]
              /\ UNCHANGED reply
              /\ AppendsDraft(job.draft)
<1> DEFINE known == {i \in LiveVersion(job.draft.source) : events[i].draft = job.draft}
           old == [i \in DOMAIN events |->
                     IF i \in LiveVersion(job.draft.source)
                     THEN [events[i] EXCEPT !.live = FALSE] ELSE events[i]]
           new == [draft |-> job.draft, live |-> TRUE]
<1> PICK D : ShapeOver(D)
    BY DEF Shape
<1>1. CASE \E id \in known : Replay(id) /\ UNCHANGED events
    BY <1>1
<1>2. CASE /\ known = {}
           /\ events' = Append(old, new)
           /\ job' = [stage |-> "findings", from |-> job.from, id |-> Len(events) + 1]
           /\ UNCHANGED reply
    <2>0. job.draft \in D
        BY DEF ShapeOver, AppendEvent, JobOver, NoJob
    <2>1. \A e \in EventOver(D) : /\ [e EXCEPT !.live = FALSE] \in EventOver(D)
                                  /\ [e EXCEPT !.live = FALSE].draft = e.draft
        BY DEF EventOver
    <2>2. events \in Seq(EventOver(D)) /\ \A i \in DOMAIN events : events[i] \in EventOver(D)
          /\ DOMAIN events = 1..Len(events) /\ Len(events) \in Nat
        BY DEF ShapeOver
    <2>3. old \in Seq(EventOver(D)) /\ Len(old) = Len(events)
        BY <2>1, <2>2
    <2>4. \A i \in DOMAIN events : old[i].draft = events[i].draft
                                   /\ (i \notin LiveVersion(job.draft.source) => old[i] = events[i])
        BY <2>1, <2>2
    <2>5. new \in EventOver(D) /\ new.draft = job.draft /\ new.live
        BY <2>0 DEF EventOver
    <2> HIDE DEF old, new
    <2>6. /\ Len(events') = Len(events) + 1 /\ DOMAIN events' = 1..(Len(events) + 1)
          /\ \A i \in DOMAIN events : events'[i] = old[i]
          /\ events'[Len(events) + 1] = new
        BY <1>2, <2>2, <2>3, <2>5
    <2> QED BY <1>2, <2>2, <2>4, <2>5, <2>6 DEF AppendsDraft
<1> QED BY <1>1, <1>2 DEF AppendEvent

\* The worker persists what it has, or finds that it was persisted.
LEMMA AppendKeepsSent ==
    ASSUME SentOK, Shape, AppendEvent, UNCHANGED run
    PROVE  SentOK'
<1> DEFINE d == job.draft
<1>0. /\ job.stage = "append" /\ job # NoJob /\ UNCHANGED queue /\ DOMAIN reply = Producers
    BY DEF AppendEvent, NoJob, Shape
<1>1. job.from = Importer => run.phase = "await" /\ reply[Importer] = Waiting /\ d = Current
    BY <1>0 DEF SentOK
<1>2. CASE \E id \in LiveVersion(d.source) : events[id].draft = d /\ Replay(id) /\ UNCHANGED events
    <2> PICK id \in LiveVersion(d.source) : events[id].draft = d /\ Replay(id) /\ UNCHANGED events
        BY <1>2
    <2>1. job.from = Importer => Persisted(Current)
        BY <1>1 DEF Persisted, LiveVersion
    <2> QED BY <1>0, <2>1, AnswerKeepsSent DEF Replay
<1>3. CASE /\ job' = [stage |-> "findings", from |-> job.from, id |-> Len(events) + 1]
           /\ UNCHANGED reply
           /\ AppendsDraft(d)
    <2>1. job'.stage = "findings" /\ job'.from = job.from /\ job' # NoJob
        BY <1>3 DEF NoJob
    <2>2. Current' = Current
        BY DEF Current
    <2>3. Persisted(Current) => Persisted(Current)'
        BY <1>3, <2>2 DEF Persisted, AppendsDraft
    <2>4. job.from = Importer => Persisted(Current)'
        <3>1. Len(events) + 1 \in DOMAIN events' /\ events'[Len(events) + 1].draft = d
            BY <1>3 DEF AppendsDraft
        <3> QED BY <1>1, <2>2, <3>1 DEF Persisted
    <2> QED BY <1>0, <1>3, <2>1, <2>2, <2>3, <2>4 DEF SentOK
<1> QED BY <1>2, <1>3, AppendFacts

\* Every step: what the importer has sent, it waits for, and an answer is true.
LEMMA SentStep ==
    ASSUME SentOK, BatchTyped, Shape, [Next]_vars
    PROVE  SentOK'
<1>1. CASE \/ Discover \/ CheckPrefix \/ ReadBatch \/ ReadHeader \/ TakeDigest \/ SaveCursor
           \/ ImportFails \/ Write \/ Rewrite
    <2>1. UNCHANGED pipelineVars /\ (run.phase # "await" \/ UNCHANGED run)
        BY <1>1 DEF Discover, CheckPrefix, ReadBatch, ReadHeader, TakeDigest, SaveCursor,
                    ImportFails, Write, Rewrite
    <2> QED BY <2>1, QuietKeepsSent
<1>2. CASE Emit \/ Await
    BY <1>2, EmitKeepsSent, AwaitKeepsSent
<1>3. CASE Crash
    <2>1. /\ queue' = <<>> /\ job' = NoJob /\ reply' = [p \in Producers |-> Idle]
        BY <1>3 DEF Crash, PipelineCrash
    <2>2. reply'[Importer] = Idle /\ Idle.state # "stored"
        BY <2>1, ImportAssumption DEF Idle
    <2> QED BY <2>1, <2>2 DEF SentOK
<1>4. CASE Observe
    BY <1>4, ObserveKeepsSent
<1>5. CASE Work /\ UNCHANGED importVars
    <2>0. UNCHANGED run /\ DOMAIN reply = Producers
        BY <1>5 DEF importVars, Shape
    <2>1. CASE Receive \/ Stop \/ AppendEvent
        BY <2>0, <2>1, ReceiveKeepsSent, StopKeepsSent, AppendKeepsSent
    <2>2. CASE SaveFindings
        <3> PICK D : ShapeOver(D)
            BY DEF Shape
        <3>1. /\ job # NoJob /\ job' # NoJob /\ job.stage = "findings" /\ job'.stage = "correlate"
              /\ job'.from = job.from /\ UNCHANGED <<queue, reply, events>>
            BY <2>2 DEF ShapeOver, SaveFindings, JobOver, NoJob
        <3>2. (Persisted(Current)' <=> Persisted(Current)) /\ Current' = Current
            BY <2>0, <3>1 DEF Current, Persisted
        <3> QED BY <2>0, <3>1, <3>2 DEF SentOK
    <2>3. CASE CorrelateEvent
        <3>1. /\ job # NoJob /\ job.stage # "append" /\ Answer(job.from, Stored(job.id))
              /\ UNCHANGED <<queue, events>>
            BY <2>3 DEF CorrelateEvent, NoJob
        <3>2. job.from = Importer => Persisted(Current)
            BY <3>1 DEF SentOK
        <3> QED BY <2>0, <3>1, <3>2, AnswerKeepsSent
    <2>4. CASE Fail
        <3>1. /\ job # NoJob /\ Answer(job.from, Failed) /\ UNCHANGED <<queue, events>>
              /\ Failed.state # "stored"
            BY <2>4 DEF Fail, NoJob, Failed
        <3> QED BY <2>0, <3>1, AnswerKeepsSent
    <2> QED BY <1>5, <2>1, <2>2, <2>3, <2>4 DEF Work
<1>6. CASE UNCHANGED vars
    <2>1. UNCHANGED pipelineVars /\ UNCHANGED run
        BY <1>6 DEF vars, importVars
    <2> QED BY <2>1, QuietKeepsSent
<1> QED BY <1>1, <1>2, <1>3, <1>4, <1>5, <1>6 DEF Next, Import

\* Nothing is sent at the start.
LEMMA SentStart == Init => SentOK
<1> SUFFICES ASSUME Init PROVE SentOK
    OBVIOUS
<1>1. queue = <<>> /\ job = NoJob /\ reply = [p \in Producers |-> Idle]
    BY DEF Init, PipelineInit
<1>2. reply[Importer] = Idle /\ Idle.state # "stored"
    BY <1>1, ImportAssumption DEF Idle
<1> QED BY <1>1, <1>2 DEF SentOK

-----------------------------------------------------------------------------
(* A log that is only appended to *)

\* A step that neither writes the log nor persists an event.
LEMMA SameLog ==
    ASSUME UNCHANGED <<file, events>>
    PROVE  /\ \A e : Taken(file, e)' <=> Taken(file, e)
           /\ \A e : Fresh(file, e)' <=> Fresh(file, e)
           /\ EventsOK' <=> EventsOK
           /\ UNCHANGED rewritten => (OldestFirst' <=> OldestFirst)
<1>1. \A e : Taken(file, e)' <=> Taken(file, e)
    BY DEF Taken
<1>2. \A k : IsReport(k)' <=> IsReport(k)
    BY DEF IsReport
<1>3. \A e : Fresh(file, e)' <=> Fresh(file, e)
    BY <1>1, <1>2 DEF Fresh
<1>4. EventsOK' <=> EventsOK
    BY DEF EventsOK
<1>5. UNCHANGED rewritten => (OldestFirst' <=> OldestFirst)
    BY DEF OldestFirst
<1> QED BY <1>1, <1>3, <1>4, <1>5

\* A run that reads nothing yet, or has ended.
LEMMA NoBatch ==
    ASSUME LogInv, UNCHANGED <<file, events, cursor, rewritten>>, run'.phase \notin Ahead
    PROVE  (LogOK(file) /\ CursorOK(cursor) /\ BatchOK /\ EventsOK /\ Done /\ InOrder)'
<1>1. Done'
    BY SameLog DEF LogInv, Done
<1>2. Pending' = {}
    BY DEF Pending, Ahead
<1>3. InOrder'
    BY <1>2, SameLog DEF LogInv, InOrder
<1>4. (LogOK(file) /\ CursorOK(cursor) /\ EventsOK)'
    BY SameLog DEF LogInv, CursorOK
<1>5. BatchOK'
    BY DEF BatchOK, Ahead
<1> QED BY <1>1, <1>3, <1>4, <1>5

\* A run begins at the saved cursor.
LEMMA DiscoverKeepsImport ==
    ASSUME LogInv, Discover
    PROVE  LogInv'
<1>0. CursorOK(cursor) /\ Len(file) \in Nat /\ UNCHANGED <<file, events, cursor, rewritten>>
    BY DEF LogInv, Discover, LogOK, pipelineVars
<1>1. StartCursor = cursor
    BY <1>0 DEF StartCursor, CursorOK
<1>2. run' = [phase |-> "check", cursor |-> cursor, size |-> Len(file)]
    BY <1>1 DEF Discover
<1>3. run'.phase = "check" /\ run'.cursor = cursor /\ run'.size = Len(file) /\ run'.phase \notin Ahead
    BY <1>2 DEF Ahead, InBatch
<1>4. BatchOK'
    BY <1>0, <1>3, NoBatch
<1>5. RunOK'
    BY <1>0, <1>3, <1>4 DEF RunOK, Ahead, InBatch
<1> QED BY <1>0, <1>3, <1>5, NoBatch DEF LogInv

\* The prefix is the one that was digested.
LEMMA CheckKeepsImport ==
    ASSUME LogInv, CheckPrefix
    PROVE  LogInv'
<1>0. CursorOK(cursor) /\ run.phase = "check"
      /\ run.cursor = cursor /\ run.size \in 0..Len(file) /\ Len(file) \in Nat
      /\ UNCHANGED <<file, events, cursor, rewritten>>
    BY DEF LogInv, CheckPrefix, LogOK, RunOK, pipelineVars
<1>1. ~Rewritten(cursor)
    BY <1>0 DEF Rewritten, CursorOK
<1>2. run' = [phase |-> "read", size |-> run.size, loaded |-> cursor.offset,
              offset |-> cursor.offset, seen |-> cursor.seen]
    BY <1>0, <1>1 DEF CheckPrefix
<1>3. run'.phase = "read" /\ run'.size = run.size /\ run'.loaded = cursor.offset
      /\ run'.offset = cursor.offset /\ run'.phase \notin Ahead
      /\ run'.seen = cursor.seen /\ cursor.seen \in Seq(Token)
    BY <1>0, <1>2 DEF Ahead, InBatch, CursorOK
<1>4. BatchOK'
    BY <1>0, <1>3, NoBatch
<1>5. RunOK'
    BY <1>0, <1>3, <1>4 DEF RunOK, Ahead, InBatch
<1> QED BY <1>0, <1>3, <1>5, NoBatch DEF LogInv

\* A run that ends, whatever the reason.
LEMMA EndKeepsImport ==
    ASSUME LogInv, run' = NoRun, UNCHANGED <<file, events, cursor, rewritten>>
    PROVE  LogInv'
<1>1. run'.phase = "idle" /\ run'.phase \notin Ahead
    BY DEF NoRun, Ahead, InBatch
<1>2. BatchOK'
    BY <1>1, NoBatch
<1>3. RunOK'
    BY <1>1, <1>2 DEF RunOK, Ahead, InBatch
<1> QED BY <1>1, <1>3, NoBatch DEF LogInv

\* A batch holds what is to be read next, up to where it ends.
LEMMA ReadKeepsImport ==
    ASSUME LogInv, ReadBatch
    PROVE  LogInv'
<1> DEFINE f == file
           o == cursor.offset
<1>0. /\ LogOK(f) /\ CursorOK(cursor) /\ run.phase = "read" /\ run.offset = o
      /\ run.loaded = o /\ run.size \in 0..Len(f) /\ run.size \in Nat /\ Len(f) \in Nat
      /\ o \in 0..Len(f) /\ o \in Nat /\ AtEnd(f, o) /\ run.seen \in Seq(Token)
      /\ UNCHANGED <<file, events, cursor, rewritten>> /\ o' = o
    BY DEF LogInv, ReadBatch, LogOK, RunOK, CursorOK, pipelineVars
<1> HIDE DEF o
<1>1. /\ BatchOK' /\ BatchFrom(o)' /\ run'.phase \in {"header", "emit"}
      /\ run'.size = run.size /\ run'.loaded = run.loaded
    BY <1>0, ReadMakesBatch
<1>2. /\ run'.end \in o..Len(f)
      /\ run'.end = o \/ run'.end = Len(f) \/ f[run'.end] = NL
      /\ \A item \in run'.batch : \E i \in Positions(f) :
            o < i /\ item = [record |-> f[i - 1], end |-> ReadAs(f, i)]
      /\ \A i \in Positions(f) : o < i /\ i <= run'.end =>
            [record |-> f[i - 1], end |-> ReadAs(f, i)] \in run'.batch
      /\ run'.end = o => \A i \in Positions(f) : i <= o
    BY <1>0, <1>1 DEF BatchFrom
<1>3. run'.phase \in InBatch /\ run'.phase \in Ahead /\ run'.phase # "save"
    BY <1>1 DEF InBatch, Ahead
<1>4. Pending' = run'.batch /\ Reach' = run'.end
    BY <1>3 DEF Pending, Reach
<1>5. RunOK'
    BY <1>0, <1>1, <1>2, <1>3, <1>4 DEF RunOK, InBatch, Ahead, o
<1>6. Done'
    <2>1. ASSUME NEW i \in Positions(f), o < i, i <= run'.end
          PROVE  LET e == IF i < run'.end THEN i + 1 ELSE i
                 IN \E item \in run'.batch : item.end = e
        <3>0. i \in 2..Len(f) /\ i \in Nat /\ f[i] = End
            BY DEF Positions
        <3>1. [record |-> f[i - 1], end |-> ReadAs(f, i)] \in run'.batch
            BY <1>2, <2>1
        <3>2. ReadAs(f, i) = IF i < run'.end THEN i + 1 ELSE i
            <4>1. CASE i < run'.end
                BY <1>0, <1>2, <3>0, <4>1 DEF ReadAs
            <4>2. CASE i = run'.end
                <5>1. i = Len(f)
                    BY <1>0, <1>2, <2>1, <3>0, <4>2, Tokens
                <5> QED BY <4>2, <5>1 DEF ReadAs
            <4> QED BY <1>0, <1>2, <2>1, <3>0, <4>1, <4>2
        <3> QED BY <3>1, <3>2
    <2>2. run'.end > o \/ \A i \in Positions(f) : i <= o
        BY <1>0, <1>2
    <2>3. run'.loaded = o
        BY <1>0, <1>1
    <2> QED BY <1>0, <1>3, <1>4, <2>1, <2>2, <2>3, SameLog DEF LogInv, Done, o
<1>7. InOrder'
    <2>1. \A item \in run'.batch : Fresh(f, item.end)
        BY <1>2 DEF LogInv, InOrder, o
    <2> QED BY <1>0, <1>4, <2>1, SameLog DEF LogInv, InOrder
<1>8. (LogOK(file) /\ CursorOK(cursor) /\ EventsOK)'
    BY <1>0, SameLog DEF LogInv, CursorOK
<1> QED BY <1>5, <1>6, <1>7, <1>8 DEF LogInv

\* The records of the batch wait for their turn, those that are out of it are persisted.
LEMMA BatchKeepsImport ==
    ASSUME LogInv, SameBatch, BatchOK',
           \A b \in run.batch : b \in run'.batch \/ Taken(file, b.end),
           run'.batch \subseteq run.batch
    PROVE  LogInv'
<1>0. /\ run.phase \in Ahead /\ run'.phase \in Ahead /\ run.phase # "save" /\ run'.phase # "save"
      /\ run.phase # "read" /\ run'.phase # "read" /\ run.phase # "idle"
      /\ run.phase # "check" /\ run'.phase # "check"
      /\ UNCHANGED <<file, cursor, rewritten, events>>
      /\ run'.size = run.size /\ run'.loaded = run.loaded
    BY DEF SameBatch, Ahead, InBatch
<1>1. Pending = run.batch /\ Pending' = run'.batch /\ Reach = run.end /\ Reach' = run.end
    BY <1>0 DEF Pending, Reach, SameBatch
<1>2. RunOK'
    BY <1>0, <1>1 DEF LogInv, RunOK
<1>3. Done'
    <2>1. /\ \A i \in Positions(file) : i <= cursor.offset => Taken(file, i) \/ Taken(file, i + 1)
          /\ Reach > run.loaded \/ \A i \in Positions(file) : i <= run.size => i <= run.loaded
        BY <1>0 DEF LogInv, Done
    <2>2. ASSUME NEW i \in Positions(file), cursor.offset < i, i <= Reach
          PROVE  LET e == IF i < Reach THEN i + 1 ELSE i
                 IN Taken(file, e) \/ \E b \in Pending' : b.end = e
        <3> DEFINE e == IF i < Reach THEN i + 1 ELSE i
        <3>1. Taken(file, e) \/ \E b \in Pending : b.end = e
            BY <1>0, <2>2 DEF LogInv, Done
        <3> QED BY <1>1, <3>1
    <2>3. \A e : Taken(file, e)' <=> Taken(file, e)
        BY <1>0, SameLog
    <2> QED BY <1>0, <1>1, <2>1, <2>2, <2>3 DEF Done
<1>4. InOrder'
    BY <1>0, <1>1, SameLog DEF LogInv, InOrder
<1>5. (LogOK(file) /\ CursorOK(cursor) /\ EventsOK)'
    BY <1>0, SameLog DEF LogInv, CursorOK
<1> QED BY <1>2, <1>3, <1>4, <1>5 DEF LogInv

\* A persisted record that is waited for is live.
LEMMA PersistedIsTaken ==
    ASSUME LogInv, NEW e \in RecordEnds(file), Persisted(Made(file, e))
    PROVE  Taken(file, e)
<1>1. PICK k \in DOMAIN events : events[k].draft = Made(file, e)
    BY DEF Persisted
<1>2. Made(file, e) \notin Drafts
    BY MadeFacts DEF LogInv
<1>3. events[k].live
    BY <1>1, <1>2 DEF LogInv, EventsOK
<1> QED BY <1>1, <1>3 DEF Taken

\* An answer takes a record out of the batch only when it is taken.
LEMMA AwaitKeepsImport ==
    ASSUME LogInv, SentOK, Await
    PROVE  LogInv'
<1>0. LogOK(file) /\ BatchOK /\ run.phase = "await"
    BY DEF LogInv, RunOK, Await
<1>1. CASE run' = NoRun
    BY <1>0, <1>1, AwaitKeepsBatch, EndKeepsImport
<1>2. CASE /\ Persisted(Current) /\ SameBatch /\ run'.phase = "emit"
           /\ run'.batch = run.batch \ {First(run.batch)}
    <2>1. Taken(file, First(run.batch).end)
        BY <1>0, <1>2, CurrentIsMade, PersistedIsTaken
    <2>2. \A b \in run.batch : b \in run'.batch \/ Taken(file, b.end)
        BY <1>2, <2>1
    <2>3. run'.batch \subseteq run.batch /\ BatchOK'
        BY <1>0, <1>2, AwaitKeepsBatch
    <2> QED BY <1>2, <2>2, <2>3, BatchKeepsImport
<1> QED BY <1>0, <1>1, <1>2, AwaitKeepsBatch

\* What the batch read is what the cursor will say.
LEMMA DigestKeepsImport ==
    ASSUME LogInv, TakeDigest
    PROVE  LogInv'
<1> DEFINE f == file
<1>0. /\ LogOK(f) /\ CursorOK(cursor) /\ run.phase = "emit" /\ run \in BatchOver /\ RunOK
      /\ run.batch = {} /\ Len(f) \in Nat /\ run.end <= Len(f) /\ AtEnd(f, run.end)
      /\ UNCHANGED <<file, events, cursor, rewritten>>
      /\ run' = [phase |-> "save", size |-> run.size, loaded |-> run.loaded,
                 from |-> run.from, text |-> run.text,
                 cursor |-> [offset |-> run.end, digest |-> PrefixDigest(f, run.end),
                             seen |-> run.seen]]
    BY DEF LogInv, TakeDigest, LogOK, RunOK, BatchOK, InBatch, Ahead, pipelineVars
<1>1. /\ run'.phase = "save" /\ run'.size = run.size /\ run'.loaded = run.loaded
      /\ run'.cursor = [offset |-> run.end, digest |-> PrefixDigest(f, run.end),
                        seen |-> run.seen]
    BY <1>0
<1>2. Pending' = {} /\ Reach' = run.end /\ Pending = {} /\ Reach = run.end
    BY <1>0, <1>1 DEF Pending, Reach, InBatch
<1>3. /\ run.size \in 0..Len(f) /\ Reach \in run.loaded..Len(f) /\ run.loaded = cursor.offset
    BY <1>0 DEF RunOK, InBatch, Ahead
<1>4. CursorOK(run.cursor)'
    <2>1. run.end \in 0..Len(f) /\ run.seen \in Seq(Token)
        BY <1>0 DEF BatchOver
    <2> QED BY <1>0, <1>1, <2>1 DEF CursorOK
<1>5. RunOK'
    BY <1>0, <1>1, <1>2, <1>3, <1>4 DEF RunOK, BatchOK, InBatch, Ahead
<1>6. Done'
    <2>1. run.phase \in Ahead
        BY <1>0 DEF Ahead, InBatch
    <2> QED BY <1>0, <1>1, <1>2, <2>1, SameLog DEF LogInv, Done
<1>7. InOrder'
    BY <1>0, <1>2, SameLog DEF LogInv, InOrder
<1>8. (LogOK(file) /\ CursorOK(cursor) /\ EventsOK)'
    BY <1>0, SameLog DEF LogInv, CursorOK
<1> QED BY <1>5, <1>6, <1>7, <1>8 DEF LogInv

\* The cursor passes what was persisted.
LEMMA SaveKeepsImport ==
    ASSUME LogInv, SaveCursor
    PROVE  LogInv'
<1> DEFINE f == file
<1>0. /\ LogOK(f) /\ CursorOK(cursor) /\ run.phase = "save" /\ Len(f) \in Nat
      /\ UNCHANGED <<pipelineVars, file, rewritten>> /\ cursor' = run.cursor
      /\ CursorOK(run.cursor) /\ run.size \in 0..Len(f) /\ run.loaded = cursor.offset
      /\ Reach = run.cursor.offset /\ Reach \in run.loaded..Len(f) /\ cursor.offset \in Nat
      /\ Reach \in Nat
    BY DEF LogInv, SaveCursor, LogOK, RunOK, InBatch, Ahead, Reach, CursorOK
<1>1. run' = [phase |-> "check", cursor |-> run.cursor, size |-> run.size] \/ run' = NoRun
    BY DEF SaveCursor
<1>2. run'.phase \in {"check", "idle"} /\ run'.phase \notin Ahead
      /\ (run'.phase = "check" => run'.cursor = cursor' /\ run'.size = run.size)
    BY <1>0, <1>1 DEF NoRun, Ahead, InBatch
<1>3. UNCHANGED <<file, events, rewritten>>
    BY <1>0 DEF pipelineVars
<1>4. RunOK'
    BY <1>0, <1>2, <1>3 DEF RunOK, BatchOK, InBatch, Ahead
<1>5. CursorOK(cursor)' /\ LogOK(file)'
    BY <1>0, <1>3 DEF CursorOK
<1>6. ASSUME NEW i \in Positions(f), i <= run.cursor.offset
      PROVE  Taken(f, i) \/ Taken(f, i + 1)
    <2>1. CASE i <= cursor.offset
        BY <2>1 DEF LogInv, Done
    <2>2. CASE ~(i <= cursor.offset)
        <3>1. run.phase \in Ahead /\ Pending = {}
            BY <1>0 DEF Ahead, InBatch, Pending
        <3>2. cursor.offset < i
            BY <1>0, <2>2 DEF Positions
        <3> DEFINE e == IF i < Reach THEN i + 1 ELSE i
        <3>3. Taken(f, e) \/ \E b \in Pending : b.end = e
            BY <1>0, <1>6, <3>1, <3>2 DEF LogInv, Done
        <3> QED BY <3>1, <3>3
    <2> QED BY <2>1, <2>2
<1>7. Done'
    BY <1>0, <1>2, <1>3, <1>6, SameLog DEF Done
<1>8. InOrder'
    <2>1. Pending' = {}
        BY <1>2 DEF Pending, Ahead
    <2>2. \A i \in Positions(f) : i > run.cursor.offset => Fresh(f, ReadAs(f, i))
        <3> SUFFICES ASSUME NEW i \in Positions(f), i > run.cursor.offset
                     PROVE  Fresh(f, ReadAs(f, i))
            OBVIOUS
        <3>1. i > cursor.offset
            BY <1>0 DEF Positions
        <3> QED BY <3>1 DEF LogInv, InOrder
    <2> QED BY <1>0, <1>3, <2>1, <2>2, SameLog DEF LogInv, InOrder
<1>9. EventsOK'
    BY <1>3, SameLog DEF LogInv
<1> QED BY <1>4, <1>5, <1>7, <1>8, <1>9 DEF LogInv
\* A step that leaves the log, what is persisted of it and the run alone.
LEMMA LogKept ==
    ASSUME LogInv, UNCHANGED <<file, events, cursor, rewritten, run>>
    PROVE  LogInv'
<1>1. Pending' = Pending /\ Reach' = Reach
    BY DEF Pending, Reach
<1>2. (LogOK(file) /\ CursorOK(cursor) /\ EventsOK)'
    BY SameLog DEF LogInv, CursorOK
<1>3. RunOK'
    BY <1>1 DEF LogInv, RunOK, BatchOK, CursorOK
<1>4. Done'
    BY <1>1, SameLog DEF LogInv, Done
<1>5. InOrder'
    BY <1>1, SameLog DEF LogInv, InOrder
<1> QED BY <1>2, <1>3, <1>4, <1>5 DEF LogInv

\* A record of the log that an event is about is a report, others are not.
LEMMA ReportFacts ==
    ASSUME LogInv, NEW k \in DOMAIN events
    PROVE  /\ IsReport(k) <=> events[k].draft \notin Drafts
           /\ IsReport(k) => /\ events[k].live
                             /\ \E e \in RecordEnds(file) : /\ events[k].draft = Made(file, e)
                                                            /\ events[k].draft.source[2] = e
<1>1. events[k].draft \in Drafts \/
      (events[k].live /\ \E e \in RecordEnds(file) : events[k].draft = Made(file, e))
    BY DEF LogInv, EventsOK
<1>2. CASE events[k].draft \in Drafts
    BY <1>2, LogAssumption DEF IsReport
<1>3. CASE events[k].live /\ \E e \in RecordEnds(file) : events[k].draft = Made(file, e)
    <2> PICK e \in RecordEnds(file) : events[k].draft = Made(file, e)
        BY <1>3
    <2>1. LogOK(file)
        BY DEF LogInv
    <2>2. /\ Made(file, e).class = "reported" /\ Made(file, e).source[2] = e
          /\ Made(file, e) \notin Drafts
        BY <2>1, MadeFacts
    <2> QED BY <1>3, <2>2 DEF IsReport
<1> QED BY <1>1, <1>2, <1>3

\* What is persisted of the log stays, whoever's event comes behind it.
LEMMA AppendKeepsTaken ==
    ASSUME LogInv, NEW d, AppendsDraft(d), UNCHANGED file,
           \A i \in LiveVersion(d.source) : events[i].draft \in Drafts,
           d \in Drafts \/ \E e \in RecordEnds(file) : d = Made(file, e)
    PROVE  (\A e : Taken(file, e) => Taken(file, e)') /\ EventsOK'
<1>0. LogOK(file) /\ DOMAIN events = 1..Len(events) /\ Len(events) \in Nat
      /\ DOMAIN events' = 1..(Len(events) + 1)
    BY DEF LogInv, AppendsDraft
<1>1. ASSUME NEW e, Taken(file, e)
      PROVE  Taken(file, e)'
    <2>1. PICK k \in DOMAIN events : events[k].live /\ events[k].draft = Made(file, e)
        BY <1>1 DEF Taken
    <2>2. e \in RecordEnds(file) /\ Made(file, e) \notin Drafts
        BY <1>0, <1>1, MadeFacts DEF Taken
    <2>3. events'[k] = events[k] /\ k \in DOMAIN events'
        BY <1>0, <2>1, <2>2 DEF AppendsDraft
    <2> QED BY <2>1, <2>2, <2>3 DEF Taken
<1>2. EventsOK'
    <2> SUFFICES ASSUME NEW k \in DOMAIN events'
                 PROVE  \/ events'[k].draft \in Drafts
                        \/ /\ events'[k].live
                           /\ \E e \in RecordEnds(file) : events'[k].draft = Made(file, e)
        BY DEF EventsOK
    <2>1. CASE k \in 1..Len(events)
        <3>1. \/ events[k].draft \in Drafts
              \/ /\ events[k].live
                 /\ \E e \in RecordEnds(file) : events[k].draft = Made(file, e)
            BY <1>0, <2>1 DEF LogInv, EventsOK
        <3> QED BY <1>0, <2>1, <3>1 DEF AppendsDraft
    <2>2. CASE k = Len(events) + 1
        BY <2>2 DEF AppendsDraft
    <2> QED BY <1>0, <2>1, <2>2
<1> QED BY <1>1, <1>2

\* An observation comes in between: the records keep their order.
LEMMA AppendObserved ==
    ASSUME LogInv, NEW d \in Drafts, AppendsDraft(d), UNCHANGED <<file, cursor, run, rewritten>>
    PROVE  (\A e : Taken(file, e) => Taken(file, e)') /\ EventsOK' /\ Done' /\ InOrder'
<1>0. LogOK(file) /\ DOMAIN events = 1..Len(events) /\ Len(events) \in Nat
      /\ DOMAIN events' = 1..(Len(events) + 1)
    BY DEF LogInv, AppendsDraft
<1>1. \A i \in LiveVersion(d.source) : events[i].draft \in Drafts
    <2> SUFFICES ASSUME NEW i \in LiveVersion(d.source), events[i].draft \notin Drafts
                 PROVE  FALSE
        OBVIOUS
    <2>1. i \in DOMAIN events /\ events[i].draft.source = d.source
        BY DEF LiveVersion
    <2>2. PICK e \in RecordEnds(file) : events[i].draft = Made(file, e)
        BY <2>1 DEF LogInv, EventsOK
    <2>3. Made(file, e).source \in Sessions \X Nat
        BY <1>0, MadeFacts
    <2> QED BY <2>1, <2>2, <2>3, LogAssumption
<1>2. (\A e : Taken(file, e) => Taken(file, e)') /\ EventsOK'
    BY <1>1, AppendKeepsTaken
<1>3. \A k \in DOMAIN events' : IsReport(k)' =>
          k \in DOMAIN events /\ IsReport(k) /\ events'[k].draft = events[k].draft
    <2> TAKE k \in DOMAIN events'
    <2>1. CASE k \in 1..Len(events)
        BY <1>0, <2>1 DEF AppendsDraft, IsReport
    <2>2. CASE k = Len(events) + 1
        BY <2>2, LogAssumption DEF AppendsDraft, IsReport
    <2> QED BY <1>0, <2>1, <2>2
<1>4. \A e : Fresh(file, e) => Fresh(file, e)'
    BY <1>2, <1>3 DEF Fresh
<1>5. Pending' = Pending /\ Reach' = Reach
    BY DEF Pending, Reach
<1>6. Done'
    BY <1>2, <1>5 DEF LogInv, Done
<1>7. OldestFirst'
    BY <1>3 DEF LogInv, InOrder, OldestFirst, IsReport
<1>8. InOrder'
    BY <1>4, <1>5, <1>7 DEF LogInv, InOrder
<1> QED BY <1>2, <1>6, <1>8

\* The importer's next record is behind all that are persisted.
LEMMA AppendReported ==
    ASSUME LogInv, ~rewritten, Shape, run.phase = "await",
           NEW d, d = Current, AppendsDraft(d), UNCHANGED <<file, cursor, run, rewritten>>,
           \A i \in LiveVersion(d.source) : events[i].draft # d
    PROVE  /\ \A e : Taken(file, e) => Taken(file, e)'
           /\ EventsOK' /\ Done' /\ InOrder'
<1> DEFINE item == First(run.batch)
           n == Len(events) + 1
<1>0. /\ LogOK(file) /\ DOMAIN events = 1..Len(events) /\ Len(events) \in Nat
      /\ DOMAIN events' = 1..n /\ events'[n].draft = d /\ events'[n].live
      /\ run.phase \in InBatch /\ run.phase \in Ahead /\ RunOK /\ BatchOK /\ run.batch # {}
      /\ run \in BatchOver /\ run.session = HeaderOf[file[1]]
    BY DEF LogInv, AppendsDraft, InBatch, Ahead, RunOK, BatchOK
<1>1. /\ item \in run.batch /\ \A b \in run.batch : item.end <= b.end
      /\ item = [record |-> RecordOf(file, item.end), end |-> item.end]
      /\ item.end \in RecordEnds(file) /\ item.end \in Nat /\ item.end <= run.end
    BY <1>0, NextOfBatch
<1>2. d = Made(file, item.end)
    BY <1>0, <1>1 DEF Current, Made
<1>i. item' = item
    OBVIOUS
<1> HIDE DEF item
<1>3. /\ d.class = "reported" /\ d.source = <<HeaderOf[file[1]], item.end>>
      /\ d.source \in Sessions \X Nat /\ d.source[2] = item.end
    BY <1>0, <1>1, <1>2, MadeFacts
<1>4. \A i \in LiveVersion(d.source) : events[i].draft \in Drafts
    <2> SUFFICES ASSUME NEW i \in LiveVersion(d.source), events[i].draft \notin Drafts
                 PROVE  FALSE
        OBVIOUS
    <2>1. i \in DOMAIN events /\ events[i].draft.source = d.source
        BY DEF LiveVersion
    <2>2. PICK e \in RecordEnds(file) : events[i].draft = Made(file, e)
        BY <2>1 DEF LogInv, EventsOK
    <2>3. Made(file, e).source[2] = e
        BY <1>0, MadeFacts
    <2>4. e = item.end
        BY <1>3, <2>1, <2>2, <2>3
    <2> QED BY <1>2, <2>2, <2>4
<1>5. (\A e : Taken(file, e) => Taken(file, e)') /\ EventsOK'
    BY <1>1, <1>2, <1>4, AppendKeepsTaken
<1>6. Taken(file, item.end)'
    <2>1. n \in DOMAIN events' /\ events'[n].live /\ events'[n].draft = Made(file, item.end)
        BY <1>0, <1>2
    <2> QED BY <1>1, <1>i, <2>1 DEF Taken
<1>7. ~Taken(file, item.end)
    <2> SUFFICES ASSUME NEW k \in DOMAIN events, events[k].live, events[k].draft = Made(file, item.end)
                 PROVE  FALSE
        BY DEF Taken
    <2>1. k \in LiveVersion(d.source)
        BY <1>2 DEF LiveVersion
    <2> QED BY <1>2, <2>1
<1>8. Pending = run.batch /\ Pending' = run.batch /\ Reach = run.end /\ Reach' = run.end
    BY <1>0 DEF Pending, Reach, InBatch
<1>9. \A k \in DOMAIN events : IsReport(k) => events[k].draft.source[2] < item.end
    BY <1>1, <1>7, <1>8 DEF LogInv, InOrder, Fresh
<1>10. \A k \in DOMAIN events' :
           \/ /\ k \in DOMAIN events /\ k < n /\ events'[k].draft = events[k].draft
              /\ IsReport(k)' <=> IsReport(k)
           \/ k = n /\ events'[k].draft = d
    <2> TAKE k \in DOMAIN events'
    <2>1. CASE k \in 1..Len(events)
        BY <1>0, <2>1 DEF AppendsDraft, IsReport
    <2>2. CASE k = n
        BY <1>0, <2>2
    <2> QED BY <1>0, <2>1, <2>2
<1>11. ASSUME NEW e \in Nat, Fresh(file, e), Taken(file, e) \/ item.end <= e
       PROVE  Fresh(file, e)'
    <2>1. CASE Taken(file, e) \/ e = item.end
        BY <1>5, <1>6, <1>i, <2>1 DEF Fresh
    <2>2. CASE ~Taken(file, e) /\ e # item.end
        <3>1. item.end < e /\ \A k \in DOMAIN events : IsReport(k) => events[k].draft.source[2] < e
            BY <1>1, <1>11, <2>2 DEF Fresh
        <3>2. \A k \in DOMAIN events' : IsReport(k)' => events'[k].draft.source[2] < e
            BY <1>3, <1>10, <3>1
        <3> QED BY <3>2 DEF Fresh
    <2> QED BY <2>1, <2>2
<1>12. Done'
    BY <1>0, <1>5, <1>8 DEF LogInv, Done
<1>13. OldestFirst'
    <2> SUFFICES ASSUME NEW k \in DOMAIN events', NEW l \in DOMAIN events', k < l,
                        events'[k].draft.class = "reported", events'[l].draft.class = "reported"
                 PROVE  events'[k].draft.source[2] < events'[l].draft.source[2]
        BY DEF OldestFirst
    <2>1. k \in DOMAIN events /\ k \in Nat /\ l \in 1..n
        BY <1>0
    <2>2. events'[k].draft = events[k].draft /\ events[k].draft.class = "reported"
        BY <1>0, <1>10, <2>1
    <2>3. CASE l = n
        BY <1>3, <1>9, <1>10, <2>1, <2>2, <2>3 DEF IsReport
    <2>4. CASE l # n
        <3>1. l \in DOMAIN events /\ events'[l].draft = events[l].draft
            BY <1>10, <2>4
        <3>2. {events[k].draft.class, events[l].draft.class} = {"reported"}
            BY <2>2, <3>1
        <3> QED BY <2>1, <2>2, <3>1, <3>2 DEF LogInv, InOrder, OldestFirst
    <2> QED BY <2>3, <2>4
<1>14. \A b \in run.batch : Fresh(file, b.end)'
    <2> TAKE b \in run.batch
    <2>1. b.end \in Nat /\ item.end <= b.end /\ Fresh(file, b.end)
        BY <1>0, <1>1, <1>8 DEF BatchOver, LogInv, InOrder
    <2> QED BY <1>11, <2>1
<1>15. ASSUME NEW i \in Positions(file), i > cursor.offset
       PROVE  Fresh(file, ReadAs(file, i))'
    <2> DEFINE e == ReadAs(file, i)
    <2>a. i \in 2..Len(file) /\ Len(file) \in Nat /\ cursor.offset \in Nat
        BY <1>0 DEF Positions, LogOK, LogInv, CursorOK
    <2>b. run.end \in Nat /\ run.end <= Len(file)
        BY <1>0 DEF BatchOK, BatchOver
    <2>c. Fresh(file, e)
        BY <1>15 DEF LogInv, InOrder
    <2>0. /\ i \in Nat /\ Len(file) \in Nat /\ i <= Len(file)
          /\ e = IF i < Len(file) THEN i + 1 ELSE i
          /\ e \in Nat /\ cursor.offset \in Nat /\ cursor.offset < i
        BY <1>15, <2>a DEF ReadAs
    <2>1. Taken(file, e) \/ item.end <= e
        <3>1. CASE i < run.end
            <4>1. e = i + 1
                BY <2>0, <2>b, <3>1
            <4>2. Taken(file, i + 1) \/ \E b \in Pending : b.end = i + 1
                <5>1. cursor.offset < i /\ i <= Reach /\ i < Reach
                    BY <1>8, <2>0, <2>b, <3>1
                <5> QED BY <1>0, <5>1 DEF LogInv, Done
            <4> QED BY <1>1, <1>8, <4>1, <4>2
        <3>2. CASE i >= run.end
            <4>1. run.end <= e
                BY <2>0, <2>b, <3>2
            <4> QED BY <1>1, <2>0, <2>b, <4>1
        <3> QED BY <2>0, <2>b, <3>1, <3>2
    <2>i. e' = e
        BY DEF ReadAs
    <2> HIDE DEF e
    <2>2. Fresh(file, e)'
        BY <1>11, <2>0, <2>c, <2>1, <2>i
    <2> QED BY <2>2 DEF e, ReadAs
<1>16. InOrder'
    BY <1>8, <1>13, <1>14, <1>15 DEF InOrder
<1> QED BY <1>5, <1>12, <1>16

\* The worker persists what it has, or finds that it was persisted.
LEMMA AppendKeepsImport ==
    ASSUME LogInv, SentOK, ~rewritten, Shape, AppendEvent,
           UNCHANGED <<file, cursor, run, rewritten>>
    PROVE  LogInv'
<1> DEFINE d == job.draft
<1>0. job.stage = "append" /\ job # NoJob /\ LogOK(file) /\ CursorOK(cursor) /\ RunOK
    BY DEF AppendEvent, NoJob, LogInv
<1>1. CASE UNCHANGED events
    BY <1>1, LogKept
<1>2. CASE /\ \A id \in LiveVersion(d.source) : events[id].draft # d
           /\ AppendsDraft(d)
    <2>1. EventsOK' /\ Done' /\ InOrder'
        <3>1. CASE job.from # Importer
            <4>1. d \in Drafts
                BY <1>0, <3>1 DEF SentOK
            <4> HIDE DEF d
            <4> QED BY <1>2, <4>1, AppendObserved
        <3>2. CASE job.from = Importer
            <4>1. run.phase = "await" /\ d = Current
                BY <1>0, <3>2 DEF SentOK
            <4> HIDE DEF d
            <4> QED BY <1>2, <4>1, AppendReported
        <3> QED BY <3>1, <3>2
    <2>2. (LogOK(file) /\ CursorOK(cursor) /\ RunOK)'
        BY <1>0 DEF CursorOK, RunOK, BatchOK, Reach
    <2> QED BY <2>1, <2>2 DEF LogInv
<1> QED BY <1>1, <1>2, AppendFacts

\* The agent writes on while its log is imported.
LEMMA WriteKeepsImport ==
    ASSUME LogInv, Write
    PROVE  LogInv'
<1> DEFINE f == file
<1> PICK t \in NextTokens : file' = Append(file, t)
    BY DEF Write
<1> DEFINE g == Append(f, t)
<1>0. /\ LogOK(f) /\ t \in Token /\ LogOK(g) /\ file' = g /\ CursorOK(cursor) /\ RunOK
      /\ UNCHANGED <<events, cursor, run, rewritten>>
    BY AgentKeepsLog DEF LogInv, Write, pipelineVars
<1>1. /\ Len(g) = Len(f) + 1 /\ Len(f) \in Nat
      /\ \A o \in 0..Len(f) : /\ AtEnd(g, o) <=> AtEnd(f, o)
                              /\ PrefixDigest(g, o) = PrefixDigest(f, o)
      /\ \A i \in Positions(g) : i <= Len(f) => i \in Positions(f)
      /\ \A e \in RecordEnds(f) : /\ e \in RecordEnds(g) /\ Made(g, e) = Made(f, e)
                                  /\ RecordOf(g, e) = RecordOf(f, e)
      /\ f # <<>> => g[1] = f[1]
    BY <1>0, GrowthFacts
<1> HIDE DEF g
<1>2. \A e : Taken(f, e) => Taken(g, e)
    BY <1>1 DEF Taken
<1>3. \A e : Taken(g, e) <=> Taken(file, e)'
    BY <1>0 DEF Taken
<1>4. EventsOK'
    BY <1>0, <1>1 DEF LogInv, EventsOK
<1>5. \A c : CursorOK(c) => /\ c.offset \in 0..Len(g) /\ AtEnd(g, c.offset)
                            /\ c.offset > 0 => c.digest = PrefixDigest(g, c.offset)
                            /\ c.seen \in Seq(Token)
    BY <1>1 DEF CursorOK
<1>6. CursorOK(cursor)'
    BY <1>0, <1>5 DEF CursorOK
<1>7. RunOK'
    <2>1. run.phase = "save" => CursorOK(run.cursor)'
        BY <1>0, <1>5 DEF RunOK, CursorOK
    <2>2. run.phase # "idle" => run.size \in 0..Len(g)
        BY <1>0, <1>1 DEF RunOK
    <2>3. run.phase \in Ahead => Reach \in run.loaded..Len(g)
        <3> SUFFICES ASSUME run.phase \in Ahead
                     PROVE  Reach \in run.loaded..Len(g)
            OBVIOUS
        <3>1. Reach \in run.loaded..Len(f)
            BY <1>0 DEF RunOK
        <3> QED BY <1>1, <3>1
    <2>4. BatchOK'
        BY <1>0, WriteKeepsBatch DEF RunOK
    <2>5. Reach' = Reach
        BY <1>0 DEF Reach
    <2> QED BY <1>0, <2>1, <2>2, <2>3, <2>4, <2>5 DEF RunOK, InBatch, Ahead
<1>8. Pending' = Pending /\ Reach' = Reach
    BY <1>0 DEF Pending, Reach
<1>9. Done'
    <2>1. ASSUME NEW i \in Positions(g), i <= cursor.offset
          PROVE  Taken(g, i) \/ Taken(g, i + 1)
        <3>1. i <= Len(f)
            BY <1>0, <1>1, <2>1 DEF CursorOK, Positions
        <3>2. i \in Positions(f)
            BY <1>1, <3>1
        <3> QED BY <1>2, <2>1, <3>2 DEF LogInv, Done
    <2>2. ASSUME run.phase \in Ahead, NEW i \in Positions(g), cursor.offset < i, i <= Reach
          PROVE  LET e == IF i < Reach THEN i + 1 ELSE i
                 IN Taken(g, e) \/ \E b \in Pending : b.end = e
        <3>1. i <= Len(f)
            <4>1. Reach \in run.loaded..Len(f) /\ run.loaded = cursor.offset /\ cursor.offset \in Nat
                BY <1>0, <2>2 DEF RunOK, CursorOK
            <4> QED BY <1>1, <2>2, <4>1 DEF Positions
        <3>2. i \in Positions(f)
            BY <1>1, <3>1
        <3> DEFINE e == IF i < Reach THEN i + 1 ELSE i
        <3>3. Taken(f, e) \/ \E b \in Pending : b.end = e
            BY <2>2, <3>2 DEF LogInv, Done
        <3> QED BY <1>2, <3>3
    <2>3. run.phase \in Ahead =>
             Reach > run.loaded \/ \A i \in Positions(g) : i <= run.size => i <= run.loaded
        <3> SUFFICES ASSUME run.phase \in Ahead, ~(Reach > run.loaded),
                            NEW i \in Positions(g), i <= run.size
                     PROVE  i <= run.loaded
            OBVIOUS
        <3>1. run.size \in 0..Len(f)
            BY <1>0 DEF RunOK, Ahead, InBatch
        <3>2. i <= Len(f)
            BY <1>1, <3>1 DEF Positions
        <3>3. i \in Positions(f)
            BY <1>1, <3>2
        <3> QED BY <3>3 DEF LogInv, Done
    <2> QED BY <1>0, <1>3, <1>8, <2>1, <2>2, <2>3 DEF Done
<1>10. \A k \in DOMAIN events : IsReport(k) => events[k].draft.source[2] <= Len(f)
                                               /\ events[k].draft.source[2] \in Nat
    <2>1. \A e \in RecordEnds(f) : e \in Nat /\ e <= Len(f)
        BY <1>1 DEF RecordEnds
    <2> QED BY <2>1, ReportFacts
<1>11. \A e : Fresh(f, e) => Fresh(file, e)'
    <2>1. \A k : IsReport(k)' <=> IsReport(k)
        BY <1>0 DEF IsReport
    <2> QED BY <1>0, <1>2, <1>3, <2>1 DEF Fresh
<1>12. ASSUME NEW e, e = Len(f) + 1
       PROVE  Fresh(file, e)'
    <2>1. \A k \in DOMAIN events : IsReport(k) => events[k].draft.source[2] < e
        BY <1>1, <1>10, <1>12
    <2>2. \A k \in DOMAIN events' : IsReport(k)' => events'[k].draft.source[2] < e
        BY <1>0, <2>1 DEF IsReport
    <2> QED BY <2>2 DEF Fresh
<1>13. ASSUME NEW i \in Positions(g), i > cursor.offset, NEW e, e = ReadAs(g, i)
       PROVE  Fresh(file, e)'
    <2>0. i \in 2..(Len(f) + 1)
        BY <1>1 DEF Positions
    <2>1. CASE i < Len(f)
        <3>1. i \in Positions(f) /\ ReadAs(g, i) = ReadAs(f, i)
            BY <1>1, <2>0, <2>1 DEF ReadAs
        <3>2. Fresh(f, e)
            BY <1>13, <3>1 DEF LogInv, InOrder
        <3> QED BY <1>11, <3>2
    <2>2. CASE i >= Len(f)
        <3>1. e = Len(f) + 1
            BY <1>1, <1>13, <2>0, <2>2 DEF ReadAs
        <3> QED BY <1>12, <3>1
    <2> QED BY <1>1, <2>0, <2>1, <2>2
<1>14. OldestFirst'
    BY <1>0 DEF LogInv, InOrder, OldestFirst
<1>15. InOrder'
    BY <1>0, <1>8, <1>11, <1>13, <1>14 DEF LogInv, InOrder
<1> QED BY <1>0, <1>4, <1>6, <1>7, <1>9, <1>15 DEF LogInv

\* A log that was only appended to is imported in order and without gaps.
ImportInv == ~rewritten => LogInv /\ SentOK

\* Every step of the import, of the agent and of the others.
LEMMA ImportStep == Shape /\ ImportInv /\ [Next]_vars => ImportInv'
<1> SUFFICES ASSUME Shape, ImportInv, [Next]_vars, ~rewritten'
             PROVE  LogInv' /\ SentOK'
    BY DEF ImportInv
<1>1. ~Rewrite
    BY DEF Rewrite
<1>2. UNCHANGED rewritten
    BY <1>1 DEF Next, Import, Discover, CheckPrefix, ReadBatch, ReadHeader, Emit, Await, TakeDigest,
                SaveCursor, ImportFails, Crash, Write, Observe, importVars, vars
<1>3. LogInv /\ SentOK /\ LogOK(file) /\ BatchOK /\ ~rewritten
    BY <1>2 DEF ImportInv, LogInv, RunOK
<1>4. SentOK'
    BY <1>3, SentStep DEF BatchOK, BatchTyped
<1>5. ASSUME Discover \/ CheckPrefix \/ ReadBatch \/ TakeDigest \/ SaveCursor
      PROVE  LogInv'
    BY <1>3, <1>5, DiscoverKeepsImport, CheckKeepsImport, ReadKeepsImport, DigestKeepsImport,
       SaveKeepsImport
<1>6. ASSUME ReadHeader \/ Emit
      PROVE  LogInv'
    BY <1>3, <1>6, HeaderKeepsBatch, EmitKeepsBatch, BatchKeepsImport
<1>7. ASSUME Await
      PROVE  LogInv'
    BY <1>3, <1>7, AwaitKeepsImport
<1>8. ASSUME ImportFails \/ Crash
      PROVE  LogInv'
    <2>1. run' = NoRun /\ UNCHANGED <<file, events, cursor, rewritten>>
        BY <1>8 DEF ImportFails, Crash, PipelineCrash, pipelineVars
    <2> QED BY <1>3, <2>1, EndKeepsImport
<1>9. ASSUME Write
      PROVE  LogInv'
    BY <1>3, <1>9, WriteKeepsImport
<1>10. ASSUME Observe
      PROVE  LogInv'
    <2>1. UNCHANGED <<file, events, cursor, rewritten, run>>
        BY <1>10 DEF Observe, Ingest, Close, Collect, Send, SendRefused, stored
    <2> QED BY <1>3, <2>1, LogKept
<1>11. ASSUME Work /\ UNCHANGED importVars
      PROVE  LogInv'
    <2>1. UNCHANGED <<file, cursor, run, rewritten>>
        BY <1>11 DEF importVars
    <2>2. CASE AppendEvent
        BY <1>3, <2>1, <2>2, AppendKeepsImport
    <2>3. CASE ~AppendEvent
        <3>1. UNCHANGED events
            BY <1>11, <2>3 DEF Work, Receive, Stop, SaveFindings, CorrelateEvent, Fail, stored
        <3> QED BY <1>3, <2>1, <3>1, LogKept
    <2> QED BY <2>2, <2>3
<1>12. ASSUME UNCHANGED vars
      PROVE  LogInv'
    <2>1. UNCHANGED <<file, cursor, run, rewritten, events>>
        BY <1>12 DEF vars, importVars, pipelineVars
    <2> QED BY <1>3, <2>1, LogKept
<1> QED BY <1>1, <1>4, <1>5, <1>6, <1>7, <1>8, <1>9, <1>10, <1>11, <1>12 DEF Next, Import

\* Nothing is written and nothing imported at the start.
LEMMA ImportStart == Init => ImportInv
<1> SUFFICES ASSUME Init PROVE LogInv
    BY SentStart DEF ImportInv
<1>0. /\ file = <<>> /\ cursor = NoCursor /\ run = NoRun /\ events = <<>>
    BY DEF Init, PipelineInit
<1>1. LogOK(file)
    BY <1>0 DEF LogOK
<1>2. CursorOK(cursor)
    BY <1>0 DEF CursorOK, NoCursor, AtEnd
<1>3. run.phase = "idle" /\ run.phase \notin Ahead /\ Pending = {}
    BY <1>0 DEF NoRun, Ahead, InBatch, Pending
<1>4. RunOK
    BY <1>3 DEF RunOK, BatchOK, Ahead, InBatch
<1>5. EventsOK
    BY <1>0 DEF EventsOK
<1>6. Positions(file) = {}
    BY <1>0 DEF Positions
<1>7. Done
    BY <1>3, <1>6 DEF Done
<1>8. OldestFirst
    BY <1>0 DEF OldestFirst
<1>9. InOrder
    BY <1>3, <1>6, <1>8 DEF InOrder
<1> QED BY <1>1, <1>2, <1>4, <1>5, <1>7, <1>9 DEF LogInv

\* The invariant holds throughout an import.
LEMMA ImportInvariant == Spec => []ImportInv
<1>1. RepliesInv => Shape
    BY DEF RepliesInv
<1> QED BY <1>1, EvidenceInvariant, ImportStep, ImportStart, PTL DEF Spec

-----------------------------------------------------------------------------
(* A log that is replaced *)

\* All records of what was read are imported.
Covered(s) == \A i \in Positions(s) : Imported(s, i)

\* What was read before offset o, be it of several files.
SeenOK(s, o) ==
    /\ s \in Seq(Token) /\ Len(s) = o /\ AtEnd(s, o)
    /\ s # <<>> => s[1] # NL

\* A cursor stands for what was read before it, whatever the file is now.
PrefixOK(c) == c.offset \in Nat /\ SeenOK(c.seen, c.offset) /\ Covered(c.seen)

\* A batch holds records of the file it was read from, among them all that was read and
\* is not imported yet.
BatchHeld ==
    run.phase \in InBatch =>
        /\ SeenOK(run.seen, run.end)
        /\ \A b \in run.batch : /\ b.end \in RecordEnds(run.text)
                                /\ b.record = RecordOf(run.text, b.end)
        /\ \A i \in Positions(run.seen) :
              \/ Imported(run.seen, i)
              \/ \E b \in run.batch : b.record = run.seen[i - 1] /\ b.end \in {i, i + 1}

\* It is sent under the session of that file, unless its header was another's.
Stray == \A b \in run.batch : Content[b.record].body \in strayed
Titled ==
    /\ run.phase = "emit" =>
         \/ run.batch = {} \/ run.session = HeaderOf[run.text[1]]
         \/ Stray \/ \E b \in run.batch : b.end <= 3
    /\ run.phase = "await" =>
         run.batch # {} /\ (run.session = HeaderOf[run.text[1]] \/ Stray)

\* A batch that goes on where what was read ended gets on, or nothing was left.
WasRead == IF run.phase = "save" THEN run.cursor.seen ELSE run.seen
GotOn ==
    run.phase \in Ahead =>
        /\ LogOK(run.text) /\ run.from \in Nat /\ Reach >= run.from
        /\ (run.from = run.loaded /\ IsPrefix(WasRead, run.text)) =>
             Reach > run.from \/ \A i \in Positions(run.text) : i <= run.from

\* A run begins at the saved cursor, unless the file was too short for it.
Begun ==
    /\ run.phase = "check" => run.cursor.offset = cursor.offset \/ run.size < cursor.offset
    /\ run.phase \in {"read"} \cup Ahead =>
         run.loaded \in Nat /\ (run.loaded = cursor.offset \/ run.size < cursor.offset)

ResumeOK ==
    /\ run.phase \in {"idle", "check", "read"} \cup Ahead
    /\ run.phase # "idle" => run.size \in Nat
    /\ run.phase \in {"check", "save"} => PrefixOK(run.cursor)
    /\ run.phase = "read" => run.offset \in Nat /\ SeenOK(run.seen, run.offset) /\ Covered(run.seen)
    /\ BatchTyped /\ BatchHeld /\ Titled /\ GotOn /\ Begun

\* What was persisted was observed, or is in the session of its rollout, or strayed.
NamedRight(d, strays) ==
    \/ d \in Drafts
    \/ \E r \in Records : /\ d.body = Content[r].body
                          /\ d.session = Content[r].session \/ d.body \in strays
EventsNamed == \A k \in DOMAIN events : NamedRight(events[k].draft, strayed)

ResumeInv ==
    /\ LogOK(file)
    /\ PrefixOK(cursor) /\ ResumeOK
    /\ EventsNamed /\ SentOK

\* Events are only added and superseded.
EventsGrow ==
    \A k \in DOMAIN events : k \in DOMAIN events' /\ events'[k].draft = events[k].draft

\* What is imported stays imported.
LEMMA GrowthKeepsCover ==
    ASSUME EventsGrow
    PROVE  /\ \A f, i : Imported(f, i) => Imported(f, i)'
           /\ \A f : Covered(f) => Covered(f)'
           /\ \A c : PrefixOK(c) => PrefixOK(c)'
<1>1. ASSUME NEW f, NEW i, Imported(f, i)
      PROVE  Imported(f, i)'
    BY <1>1 DEF EventsGrow, Imported
<1>2. ASSUME NEW f, Covered(f)
      PROVE  Covered(f)'
    BY <1>1, <1>2 DEF Covered
<1>3. ASSUME NEW c, PrefixOK(c)
      PROVE  PrefixOK(c)'
    BY <1>2, <1>3 DEF PrefixOK
<1> QED BY <1>1, <1>2, <1>3

\* The empty log, and what has no record at all, is imported.
LEMMA NothingSeen == PrefixOK(NoCursor) /\ SeenOK(<<>>, 0) /\ Covered(<<>>)
<1>1. Positions(<<>>) = {}
    BY DEF Positions
<1>2. SeenOK(<<>>, 0)
    BY DEF SeenOK, AtEnd
<1> QED BY <1>1, <1>2 DEF Covered, PrefixOK, NoCursor

\* The first line read names a session.
LEMMA HeaderIsSession ==
    ASSUME NEW f, LogOK(f)
    PROVE  FirstHeader(f) \in Sessions
<1> PICK batch : batch = ReadJsonl(f, 0, 1)
    OBVIOUS
<1>0. Len(f) \in Nat /\ 0 \in 0..Len(f) /\ 1 \in Nat \ {0}
    BY DEF LogOK
<1>1. \A item \in batch.records : \E i \in Positions(f) :
          item = [record |-> f[i - 1], end |-> ReadAs(f, i)]
    BY <1>0, AnyBatch
<1>2. \A item \in batch.records : item.end \in Nat /\ item.record \in Records
    BY <1>0, <1>1 DEF Positions, ReadAs
<1>3. CASE batch.records # {} /\ HeaderOf[First(batch.records).record] # None
    <2>1. First(batch.records) \in batch.records
        BY <1>2, <1>3, FirstFacts
    <2> QED BY <1>2, <1>3, <2>1, LogAssumption DEF FirstHeader
<1>4. CASE ~(batch.records # {} /\ HeaderOf[First(batch.records).record] # None)
    BY <1>4, ImportAssumption DEF FirstHeader
<1> QED BY <1>3, <1>4

\* What was read, and what file f has between o and e.
Splice(s, f, o, e) == s \o SubSeq(f, o + 1, e)

\* What was read and what a file has behind it: all its records were read before, or are
\* the file's and begin behind what was read.
LEMMA SpliceFacts ==
    ASSUME NEW f, LogOK(f), NEW o \in 0..Len(f), NEW e \in o..Len(f), e = o \/ AtEnd(f, e),
           NEW s, SeenOK(s, o), NEW t, t = Splice(s, f, o, e)
    PROVE  /\ SeenOK(t, e)
           /\ \A i \in Positions(t) : i <= o => i \in Positions(s) /\ t[i - 1] = s[i - 1]
           /\ \A i \in Positions(t) : i > o =>
                 i > o + 1 /\ i <= e /\ i \in Positions(f) /\ t[i - 1] = f[i - 1]
           /\ IsPrefix(t, f) => AtEnd(f, o)
<1>0. /\ f \in Seq(Token) /\ Len(f) \in Nat /\ o \in Nat /\ e \in Nat /\ o <= e /\ e <= Len(f)
      /\ s \in Seq(Token) /\ Len(s) = o
    BY DEF LogOK, SeenOK
<1> PICK m : m = SubSeq(f, o + 1, e)
    OBVIOUS
<1>1. m \in Seq(Token) /\ Len(m) = e - o /\ \A i \in 1..(e - o) : m[i] = f[o + i]
    BY <1>0, Between
<1>a. /\ t \in Seq(Token) /\ Len(t) = Len(s) + Len(m)
      /\ \A i \in 1..Len(s) : t[i] = s[i]
      /\ \A i \in 1..Len(m) : t[Len(s) + i] = m[i]
    <2>1. t = s \o m
        BY DEF Splice
    <2>2. s \in Seq(Token) /\ m \in Seq(Token)
        BY <1>0, <1>1
    <2> QED BY <2>1, <2>2, Joined
<1>2. t \in Seq(Token) /\ Len(t) = e
    BY <1>0, <1>1, <1>a
<1>3. \A i \in 1..o : t[i] = s[i]
    BY <1>0, <1>a
<1>4. ASSUME NEW i \in (o + 1)..e
      PROVE  t[i] = f[i]
    <2>1. i - o \in 1..(e - o) /\ o + (i - o) = i
        BY <1>0
    <2>2. t[i] = m[i - o]
        BY <1>0, <1>1, <1>a, <2>1
    <2> QED BY <1>1, <2>1, <2>2
<1>5. AtEnd(t, e)
    <2>1. CASE e = o
        <3>1. o # 0 => t[o] = s[o]
            BY <1>0, <1>3
        <3> QED BY <2>1, <3>1 DEF SeenOK, AtEnd
    <2>2. CASE e # o
        <3>1. e \in (o + 1)..e
            BY <1>0, <2>2
        <3> QED BY <1>4, <2>2, <3>1 DEF AtEnd
    <2> QED BY <2>1, <2>2
<1>6. t # <<>> => t[1] # NL
    <2> SUFFICES ASSUME t # <<>>
                 PROVE  t[1] # NL
        OBVIOUS
    <2>0. e >= 1
        BY <1>0, <1>2
    <2>1. CASE o = 0
        <3>1. t[1] = f[1] /\ f # <<>>
            BY <1>0, <1>4, <2>0, <2>1
        <3> QED BY <3>1, Tokens DEF LogOK
    <2>2. CASE o # 0
        <3>1. t[1] = s[1] /\ s # <<>>
            BY <1>0, <1>3, <2>2
        <3> QED BY <3>1 DEF SeenOK
    <2> QED BY <2>1, <2>2
<1>7. ASSUME NEW i \in Positions(t), i <= o
      PROVE  i \in Positions(s) /\ t[i - 1] = s[i - 1]
    <2>1. i \in 2..o /\ i \in 1..o /\ i - 1 \in 1..o /\ t[i] = End /\ t[i - 1] \in Records
        BY <1>0, <1>2, <1>7 DEF Positions
    <2> QED BY <1>0, <1>3, <2>1 DEF Positions
<1>8. ASSUME NEW i \in Positions(t), i > o
      PROVE  i > o + 1 /\ i <= e /\ i \in Positions(f) /\ t[i - 1] = f[i - 1]
    <2>1. i \in 2..e /\ i \in Nat /\ t[i] = End /\ t[i - 1] \in Records
        BY <1>2 DEF Positions
    <2>2. i # o + 1
        <3> SUFFICES ASSUME i = o + 1
                     PROVE  FALSE
            OBVIOUS
        <3>1. o \in 1..o /\ o # 0 /\ i - 1 = o
            BY <1>0, <2>1
        <3>2. s[o] \in Records
            BY <1>3, <2>1, <3>1
        <3> QED BY <3>1, <3>2, Tokens DEF SeenOK, AtEnd
    <2>3. i > o + 1 /\ i <= e /\ i \in (o + 1)..e /\ i - 1 \in (o + 1)..e /\ i \in 2..Len(f)
        BY <1>0, <1>8, <2>1, <2>2
    <2>4. t[i] = f[i] /\ t[i - 1] = f[i - 1]
        BY <1>4, <2>3
    <2> QED BY <2>1, <2>3, <2>4 DEF Positions
<1>9. ASSUME IsPrefix(t, f)
      PROVE  AtEnd(f, o)
    <2>1. SubSeq(t, 1, e) = SubSeq(f, 1, e)
        BY <1>2, <1>9 DEF IsPrefix
    <2>2. CASE o # 0
        <3>1. o \in 1..e /\ o \in 1..o
            BY <1>0, <2>2
        <3>2. SubSeq(t, 1, e)[o] = t[o] /\ SubSeq(f, 1, e)[o] = f[o]
            BY <1>0, <1>2, <3>1
        <3>3. f[o] = s[o]
            BY <1>3, <2>1, <3>1, <3>2
        <3> QED BY <2>2, <3>3 DEF SeenOK, AtEnd
    <2>3. CASE o = 0
        BY <2>3 DEF AtEnd
    <2> QED BY <2>2, <2>3
<1> QED BY <1>2, <1>5, <1>6, <1>7, <1>8, <1>9 DEF SeenOK

\* A file that passes for the one a cursor was made from has all before it imported.
LEMMA PrefixHolds ==
    ASSUME LogOK(file), PrefixOK(cursor), ~Rewritten(cursor), ~Unnoticed,
           NEW i \in Positions(file), i <= cursor.offset
    PROVE  Imported(file, i)
<1> PICK o : o = cursor.offset
    OBVIOUS
<1> PICK s : s = cursor.seen
    OBVIOUS
<1>0. /\ file \in Seq(Token) /\ Len(file) \in Nat /\ o \in Nat /\ s \in Seq(Token) /\ Len(s) = o
      /\ s # <<>> => s[1] # NL
      /\ i \in 2..Len(file) /\ i \in Nat /\ file[i] = End /\ file[i - 1] \in Records /\ i <= o
      /\ Covered(s) /\ o > 0
    BY DEF LogOK, PrefixOK, SeenOK, Positions
<1>1. PrefixDigest(s, o) # NoDigest
    <2> PICK n : n = IF o < PrefixLimit THEN o ELSE PrefixLimit
        OBVIOUS
    <2>1. n \in 1..o
        BY <1>0, ImportAssumption
    <2>2. PrefixDigest(s, o) = SubSeq(s, 1, n)
        BY <1>0, <2>1 DEF PrefixDigest
    <2>3. SubSeq(s, 1, n)[1] = s[1] /\ s # <<>>
        BY <1>0, <2>1
    <2>4. NoDigest[1] = NL
        BY DEF NoDigest
    <2> QED BY <1>0, <2>2, <2>3, <2>4
<1>2. cursor.digest = PrefixDigest(s, o)
    BY DEF Unnoticed
<1>3. ~(o > Len(file)) /\ PrefixDigest(file, o) = PrefixDigest(s, o)
    BY <1>0, <1>1, <1>2 DEF Rewritten
<1>4. IsPrefix(s, file)
    BY <1>3 DEF Unnoticed
<1>5. SubSeq(s, 1, o) = SubSeq(file, 1, o)
    BY <1>0, <1>4 DEF IsPrefix
<1>6. \A j \in 1..o : SubSeq(s, 1, o)[j] = s[j] /\ SubSeq(file, 1, o)[j] = file[j]
    BY <1>0, <1>3
<1>7. i \in 2..o /\ i \in 1..o /\ i - 1 \in 1..o
    BY <1>0
<1>8. s[i] = file[i] /\ s[i - 1] = file[i - 1]
    BY <1>5, <1>6, <1>7
<1>9. i \in Positions(s)
    BY <1>0, <1>7, <1>8 DEF Positions
<1> QED BY <1>0, <1>8, <1>9 DEF Covered, Imported

\* While the cursor and the run stay, events that are added take nothing away, nor does
\* anything that happens to the file.
LEMMA GrowthKeepsResume ==
    ASSUME ResumeInv, EventsGrow, UNCHANGED <<cursor, run, strayed>>
    PROVE  PrefixOK(cursor)' /\ ResumeOK'
<1>1. /\ \A f, i : Imported(f, i) => Imported(f, i)'
      /\ \A f : Covered(f) => Covered(f)'
      /\ \A c : PrefixOK(c) => PrefixOK(c)'
    BY GrowthKeepsCover
<1>2. PrefixOK(cursor)'
    <2> PICK c : c = cursor
        OBVIOUS
    <2>1. PrefixOK(c)'
        BY <1>1 DEF ResumeInv
    <2> QED BY <2>1 DEF PrefixOK, Covered, Imported
<1>3. run.phase \in {"check", "save"} => PrefixOK(run.cursor)'
    <2> PICK c : c = run.cursor
        OBVIOUS
    <2>1. run.phase \in {"check", "save"} => PrefixOK(c)'
        BY <1>1 DEF ResumeInv, ResumeOK
    <2> QED BY <2>1 DEF PrefixOK, Covered, Imported
<1>4. run.phase = "read" => Covered(run.seen)'
    <2> PICK s : s = run.seen
        OBVIOUS
    <2>1. run.phase = "read" => Covered(s)'
        BY <1>1 DEF ResumeInv, ResumeOK
    <2> QED BY <2>1 DEF Covered, Imported
<1>5. BatchHeld'
    <2>1. run.phase \in InBatch =>
             \A i \in Positions(run.seen) :
                 \/ Imported(run.seen, i)'
                 \/ \E b \in run.batch : b.record = run.seen[i - 1] /\ b.end \in {i, i + 1}
        <3> SUFFICES ASSUME run.phase \in InBatch, NEW i \in Positions(run.seen)
                     PROVE  \/ Imported(run.seen, i)'
                            \/ \E b \in run.batch : b.record = run.seen[i - 1] /\ b.end \in {i, i + 1}
            OBVIOUS
        <3> PICK s : s = run.seen
            OBVIOUS
        <3>1. Imported(s, i) => Imported(s, i)'
            BY <1>1
        <3>2. Imported(s, i)' => Imported(run.seen, i)'
            BY DEF Imported
        <3> QED BY <3>1, <3>2 DEF ResumeInv, ResumeOK, BatchHeld
    <2> QED BY <2>1 DEF ResumeInv, ResumeOK, BatchHeld
<1>6. BatchTyped' /\ Titled' /\ GotOn' /\ Begun'
    BY DEF ResumeInv, ResumeOK, BatchTyped, Titled, Stray, GotOn, Begun, WasRead, Reach
<1> QED BY <1>2, <1>3, <1>4, <1>5, <1>6 DEF ResumeInv, ResumeOK

\* The run begins with the cursor, or with none.
LEMMA DiscoverResumes ==
    ASSUME ResumeInv, Discover
    PROVE  ResumeOK'
<1> PICK c : c = StartCursor
    OBVIOUS
<1>1. /\ run'.phase = "check" /\ run'.size = Len(file) /\ run'.cursor = c /\ Len(file) \in Nat
      /\ UNCHANGED <<events, cursor>>
    BY DEF Discover, ResumeInv, LogOK, pipelineVars, stored
<1>2. PrefixOK(c)
    BY NothingSeen DEF ResumeInv, StartCursor
<1>3. PrefixOK(run.cursor)'
    BY <1>1, <1>2 DEF PrefixOK, Covered, Imported
<1>4. c.offset = cursor.offset \/ Len(file) < cursor.offset
    <2>1. cursor.offset \in Nat
        BY DEF ResumeInv, PrefixOK
    <2> QED BY <1>1, <2>1 DEF StartCursor
<1>5. Begun'
    BY <1>1, <1>4 DEF Begun, Ahead, InBatch
<1> QED BY <1>1, <1>3, <1>5 DEF ResumeOK, BatchTyped, BatchHeld, Titled, GotOn, InBatch, Ahead

\* The run resumes at the cursor, or from the beginning.
LEMMA CheckResumes ==
    ASSUME ResumeInv, CheckPrefix
    PROVE  ResumeOK'
<1> PICK c : c = run.cursor
    OBVIOUS
<1> PICK o : o = IF Rewritten(c) THEN 0 ELSE c.offset
    OBVIOUS
<1> PICK s : s = IF Rewritten(c) THEN <<>> ELSE c.seen
    OBVIOUS
<1>1. /\ run.phase = "check" /\ run'.phase = "read" /\ run'.size = run.size
      /\ run'.loaded = c.offset /\ run'.offset = o /\ run'.seen = s
      /\ UNCHANGED <<events, cursor>>
    BY DEF CheckPrefix, pipelineVars, stored
<1>2. PrefixOK(c) /\ run.size \in Nat /\ (c.offset = cursor.offset \/ run.size < cursor.offset)
    BY <1>1 DEF ResumeInv, ResumeOK, Begun
<1>3. o \in Nat /\ SeenOK(s, o) /\ Covered(s)
    BY <1>2, NothingSeen DEF PrefixOK
<1>4. (run.offset \in Nat /\ SeenOK(run.seen, run.offset) /\ Covered(run.seen))'
    BY <1>1, <1>3 DEF SeenOK, Covered, Imported
<1>5. Begun'
    BY <1>1, <1>2 DEF Begun, Ahead, InBatch, PrefixOK
<1> QED BY <1>1, <1>2, <1>4, <1>5 DEF ResumeOK, BatchTyped, BatchHeld, Titled, GotOn, InBatch, Ahead

\* What is read goes on where what was read ends, in a file that is still that long.
LEMMA ReadOn ==
    ASSUME ResumeInv, ReadBatch, run.offset <= Len(file)
    PROVE  ResumeOK'
<1> PICK f : f = file
    OBVIOUS
<1> PICK o : o = run.offset
    OBVIOUS
<1> PICK s : s = run.seen
    OBVIOUS
<1> PICK b : b = ReadJsonl(f, o, MaxRecords)
    OBVIOUS
<1> PICK e : e = b.offset
    OBVIOUS
<1> PICK t : t = Splice(s, f, o, e)
    OBVIOUS
<1>1. /\ run.phase = "read" /\ LogOK(f) /\ f \in Seq(Token) /\ Len(f) \in Nat
      /\ o \in 0..Len(f) /\ o \in Nat /\ SeenOK(s, o) /\ Covered(s)
      /\ run.size \in Nat /\ run.loaded \in Nat
      /\ run.loaded = cursor.offset \/ run.size < cursor.offset
      /\ UNCHANGED <<events, cursor, strayed>>
    BY DEF ReadBatch, ResumeInv, ResumeOK, Begun, LogOK, pipelineVars, stored
<1>2. run' = [phase |-> IF o > 0 THEN "header" ELSE "emit", size |-> run.size, loaded |-> run.loaded,
              end |-> e, batch |-> b.records, session |-> FileName,
              from |-> o, text |-> f, seen |-> t]
    <2>1. ~(o > Len(f))
        BY <1>1
    <2> QED BY <2>1 DEF ReadBatch, Splice
<1>3. /\ e \in o..Len(f) /\ (e = o \/ AtEnd(f, e))
      /\ \A item \in b.records : \E i \in Positions(f) :
            /\ o < i /\ item = [record |-> f[i - 1], end |-> ReadAs(f, i)]
            /\ item.end <= e
      /\ \A i \in Positions(f) : o + 1 < i /\ i <= e =>
            [record |-> f[i - 1], end |-> ReadAs(f, i)] \in b.records
      /\ AtEnd(f, o) /\ e = o => \A i \in Positions(f) : i <= o
    BY <1>1, ImportAssumption, AnyBatch
<1>4. \A i \in Positions(f) : /\ ReadAs(f, i) \in {i, i + 1} /\ ReadAs(f, i) <= Len(f)
                              /\ i \in 2..Len(f) /\ i \in Nat /\ f[i - 1] \in Records
    BY <1>1 DEF Positions, ReadAs
<1>5. \A item \in b.records :
         /\ item \in [record : Records, end : Nat]
         /\ item.end \in RecordEnds(f) /\ item.end <= e
         /\ item.record = RecordOf(f, item.end)
    <2> TAKE item \in b.records
    <2>1. PICK i \in Positions(f) : /\ item = [record |-> f[i - 1], end |-> ReadAs(f, i)]
                                    /\ item.end <= e
        BY <1>3
    <2>2. ReadAs(f, i) \in RecordEnds(f) /\ RecordOf(f, ReadAs(f, i)) = f[i - 1] /\ ReadAs(f, i) \in Nat
        BY <1>1, <1>4, EndFacts
    <2> QED BY <1>4, <2>1, <2>2
<1>6. /\ SeenOK(t, e)
      /\ \A i \in Positions(t) : i <= o => i \in Positions(s) /\ t[i - 1] = s[i - 1]
      /\ \A i \in Positions(t) : i > o =>
            i > o + 1 /\ i <= e /\ i \in Positions(f) /\ t[i - 1] = f[i - 1]
      /\ IsPrefix(t, f) => AtEnd(f, o)
    BY <1>1, <1>3, SpliceFacts
<1>7. /\ run'.phase \in {"header", "emit"} /\ (run'.phase = "emit" <=> o = 0)
      /\ run'.size = run.size /\ run'.loaded = run.loaded /\ run'.end = e
      /\ run'.batch = b.records /\ run'.from = o /\ run'.text = f /\ run'.seen = t
    <2>1. /\ run'.phase = IF o > 0 THEN "header" ELSE "emit"
          /\ run'.size = run.size /\ run'.loaded = run.loaded /\ run'.end = e
          /\ run'.batch = b.records /\ run'.from = o /\ run'.text = f /\ run'.seen = t
        BY <1>2
    <2>2. o > 0 <=> o # 0
        BY <1>1
    <2> QED BY <2>1, <2>2
<1>8. run'.phase \in InBatch /\ run'.phase \in Ahead /\ run'.phase \notin {"idle", "check", "read", "save", "await"}
    BY <1>7 DEF InBatch, Ahead
<1>9. BatchTyped'
    <2>1. t \in Seq(Token)
        BY <1>6 DEF SeenOK
    <2>2. run' \in BatchOver
        BY <1>1, <1>2, <1>3, <1>5, <2>1, ImportAssumption DEF BatchOver, InBatch
    <2> QED BY <2>2 DEF BatchTyped
<1>10. BatchHeld'
    <2>1. ASSUME NEW i \in Positions(t)
          PROVE  \/ Imported(t, i)
                 \/ \E item \in b.records : item.record = t[i - 1] /\ item.end \in {i, i + 1}
        <3>0. i <= o \/ i > o
            BY <1>1 DEF Positions
        <3>1. CASE i <= o
            <4>1. i \in Positions(s) /\ t[i - 1] = s[i - 1]
                BY <1>6, <3>1
            <4>2. Imported(s, i)
                BY <1>1, <4>1 DEF Covered
            <4> QED BY <4>1, <4>2 DEF Imported
        <3>2. CASE i > o
            <4>1. [record |-> f[i - 1], end |-> ReadAs(f, i)] \in b.records
                BY <1>3, <1>6, <3>2
            <4> QED BY <1>4, <1>6, <3>2, <4>1
        <3> QED BY <3>0, <3>1, <3>2
    <2>2. \A i \in Positions(run'.seen) :
              \/ Imported(run.seen, i)'
              \/ \E item \in run'.batch : item.record = run'.seen[i - 1] /\ item.end \in {i, i + 1}
        BY <1>1, <1>7, <2>1 DEF Imported
    <2>3. SeenOK(run.seen, run.end)'
        BY <1>6, <1>7 DEF SeenOK
    <2>4. \A item \in run'.batch : /\ item.end \in RecordEnds(run'.text)
                                   /\ item.record = RecordOf(run'.text, item.end)
        BY <1>5, <1>7
    <2> QED BY <2>2, <2>3, <2>4 DEF BatchHeld
<1>11. Titled'
    <2>1. o = 0 => b.records = {} \/ \E item \in b.records : item.end <= 3
        <3> SUFFICES ASSUME o = 0, b.records # {}
                     PROVE  \E item \in b.records : item.end <= 3
            OBVIOUS
        <3>1. PICK item \in b.records : item.end \in RecordEnds(f) /\ item.end <= e
            BY <1>5
        <3>2. e \in 1..Len(f) /\ AtEnd(f, e)
            BY <1>1, <1>3, <3>1 DEF RecordEnds
        <3>3. e >= 2 /\ 2 \in Positions(f) /\ ReadAs(f, 2) <= 3
            BY <1>1, <3>2, FirstLine
        <3>4. [record |-> f[2 - 1], end |-> ReadAs(f, 2)] \in b.records
            <4>1. o + 1 < 2 /\ 2 <= e
                BY <3>2, <3>3
            <4> QED BY <1>3, <3>3, <4>1
        <3> QED BY <3>3, <3>4
    <2>2. run'.phase # "await" /\ (run'.phase = "emit" =>
              run'.batch = {} \/ \E item \in run'.batch : item.end <= 3)
        BY <1>7, <2>1
    <2> QED BY <2>2 DEF Titled
<1>12. GotOn'
    <2>1. WasRead' = t /\ Reach' = e
        BY <1>7, <1>8 DEF WasRead, Reach
    <2>2. e >= o /\ (IsPrefix(t, f) => e > o \/ \A i \in Positions(f) : i <= o)
        BY <1>1, <1>3, <1>6
    <2> QED BY <1>1, <1>7, <2>1, <2>2 DEF GotOn
<1>13. Begun'
    BY <1>1, <1>7, <1>8 DEF Begun
<1> QED BY <1>1, <1>7, <1>8, <1>9, <1>10, <1>11, <1>12, <1>13 DEF ResumeOK

\* A file that became shorter gives nothing.
LEMMA ReadNothing ==
    ASSUME ResumeInv, ReadBatch, run.offset > Len(file)
    PROVE  ResumeOK'
<1> PICK f : f = file
    OBVIOUS
<1> PICK o : o = run.offset
    OBVIOUS
<1> PICK s : s = run.seen
    OBVIOUS
<1>1. /\ run.phase = "read" /\ LogOK(f) /\ f \in Seq(Token) /\ Len(f) \in Nat
      /\ o \in Nat /\ o > Len(f) /\ SeenOK(s, o) /\ Covered(s) /\ s \in Seq(Token)
      /\ run.size \in Nat /\ run.loaded \in Nat
      /\ run.loaded = cursor.offset \/ run.size < cursor.offset
      /\ UNCHANGED <<events, cursor, strayed>>
    BY DEF ReadBatch, ResumeInv, ResumeOK, Begun, LogOK, SeenOK, pipelineVars, stored
<1>2. s \o SubSeq(f, o + 1, o) = s
    <2>1. SubSeq(f, o + 1, o) = <<>>
        BY <1>1, SubSeqEmpty
    <2> QED BY <1>1, <2>1, ConcatEmptySeq
<1>3. run' = [phase |-> "header", size |-> run.size, loaded |-> run.loaded,
              end |-> o, batch |-> {}, session |-> FileName,
              from |-> o, text |-> f, seen |-> s]
    <2>1. o > Len(f) /\ o > 0
        BY <1>1
    <2> QED BY <1>2, <2>1 DEF ReadBatch
<1>4. /\ run'.phase = "header" /\ run'.size = run.size /\ run'.loaded = run.loaded
      /\ run'.end = o /\ run'.batch = {} /\ run'.from = o /\ run'.text = f /\ run'.seen = s
      /\ run'.phase \in InBatch /\ run'.phase \in Ahead
    BY <1>3 DEF InBatch, Ahead
<1>5. BatchTyped'
    <2>1. run' \in BatchOver
        BY <1>1, <1>3, ImportAssumption DEF BatchOver, InBatch
    <2> QED BY <2>1 DEF BatchTyped
<1>6. BatchHeld'
    <2>1. \A i \in Positions(run'.seen) : Imported(run.seen, i)'
        BY <1>1, <1>4 DEF Covered, Imported
    <2>2. SeenOK(run.seen, run.end)'
        BY <1>1, <1>4 DEF SeenOK
    <2> QED BY <1>4, <2>1, <2>2 DEF BatchHeld
<1>7. GotOn'
    <2>1. WasRead' = s /\ Reach' = o
        BY <1>4 DEF WasRead, Reach
    <2>2. ~IsPrefix(s, f)
        BY <1>1 DEF IsPrefix, SeenOK
    <2> QED BY <1>1, <1>4, <2>1, <2>2 DEF GotOn
<1>8. Titled' /\ Begun'
    BY <1>1, <1>4 DEF Titled, Begun
<1> QED BY <1>1, <1>4, <1>5, <1>6, <1>7, <1>8 DEF ResumeOK

\* The next record of a batch is one of its earliest.
LEMMA NextInText ==
    ASSUME BatchTyped, BatchHeld, run.phase \in InBatch, run.batch # {}
    PROVE  LET item == First(run.batch)
           IN /\ item \in run.batch /\ \A b \in run.batch : item.end <= b.end
              /\ item.end \in RecordEnds(run.text) /\ item.end \in Nat
              /\ item.record = RecordOf(run.text, item.end) /\ item.record \in Records
<1>1. \A b \in run.batch : b.end \in Nat /\ b.record \in Records
    BY DEF BatchTyped, BatchOver
<1>2. First(run.batch) \in run.batch /\ \A b \in run.batch : First(run.batch).end <= b.end
    BY <1>1, FirstFacts
<1> QED BY <1>1, <1>2 DEF BatchHeld

\* What is waited for is the next record, under the session of the run.
LEMMA CurrentFacts ==
    ASSUME BatchTyped, BatchHeld, run.phase \in InBatch, run.batch # {}
    PROVE  LET item == First(run.batch)
           IN /\ Current.body = Content[item.record].body
              /\ Current.session = run.session /\ Current.source[2] = item.end
<1>1. First(run.batch).record \in Records
    BY NextInText
<1>2. Content[First(run.batch).record] \in Draft
    BY <1>1, LogAssumption
<1> QED BY <1>2 DEF Current, DraftOf, SourceOf, Draft

\* A step that changes nothing of a batch but its phase, its session and what is left.
SameText ==
    /\ run.phase \in InBatch /\ run'.phase \in InBatch
    /\ run'.size = run.size /\ run'.loaded = run.loaded /\ run'.end = run.end
    /\ run'.from = run.from /\ run'.text = run.text /\ run'.seen = run.seen
    /\ UNCHANGED <<cursor, events>>

LEMMA TextResumes ==
    ASSUME ResumeInv, SameText, BatchTyped', Titled',
           run'.batch \subseteq run.batch,
           \A i \in Positions(run.seen) :
              \/ Imported(run.seen, i)
              \/ \E b \in run'.batch : b.record = run.seen[i - 1] /\ b.end \in {i, i + 1}
    PROVE  ResumeOK'
<1>1. BatchHeld'
    <2>1. \A i \in Positions(run'.seen) :
              \/ Imported(run.seen, i)'
              \/ \E b \in run'.batch : b.record = run'.seen[i - 1] /\ b.end \in {i, i + 1}
        BY DEF SameText, Imported
    <2>2. SeenOK(run.seen, run.end)'
        BY DEF ResumeInv, ResumeOK, BatchHeld, SameText, SeenOK
    <2>3. \A b \in run'.batch : /\ b.end \in RecordEnds(run'.text)
                                /\ b.record = RecordOf(run'.text, b.end)
        BY DEF ResumeInv, ResumeOK, BatchHeld, SameText
    <2> QED BY <2>1, <2>2, <2>3 DEF BatchHeld
<1>2. /\ run.phase \in Ahead /\ run'.phase \in Ahead
      /\ run.phase \notin {"idle", "check", "read", "save"}
      /\ run'.phase \notin {"idle", "check", "read", "save"}
    BY DEF SameText, InBatch, Ahead
<1>3. GotOn'
    BY <1>2 DEF ResumeInv, ResumeOK, GotOn, SameText, WasRead, Reach
<1>4. Begun'
    BY <1>2 DEF ResumeInv, ResumeOK, Begun, SameText
<1> QED BY <1>1, <1>2, <1>3, <1>4 DEF ResumeInv, ResumeOK, SameText

\* The header is that of the file the batch was read from, or the batch strays.
LEMMA HeaderResumes ==
    ASSUME ResumeInv, ReadHeader
    PROVE  ResumeOK' /\ strayed \subseteq strayed'
<1> PICK h : h = HeaderSession
    OBVIOUS
<1>0. /\ run.phase = "header" /\ run.phase \in InBatch /\ run \in BatchOver /\ h \in Sessions
      /\ run' = [run EXCEPT !.phase = "emit", !.session = h]
      /\ UNCHANGED <<cursor, events>>
    BY HeaderIsSession DEF ReadHeader, ResumeInv, ResumeOK, BatchTyped, InBatch, HeaderSession,
                           pipelineVars, stored
<1>1. /\ run'.phase = "emit" /\ run'.session = h /\ run'.batch = run.batch
      /\ run' \in BatchOver /\ SameText
    BY <1>0 DEF BatchOver, SameText, InBatch
<1>2. BatchTyped'
    BY <1>1 DEF BatchTyped
<1>3. Titled'
    <2>1. CASE run.batch = {}
        BY <1>1, <2>1 DEF Titled
    <2>2. CASE run.batch # {} /\ FirstHeader(file) = FirstHeader(run.text)
        <3>1. LogOK(run.text)
            BY <1>0 DEF ResumeInv, ResumeOK, GotOn, Ahead
        <3>2. PICK b \in run.batch : b.end \in RecordEnds(run.text)
            BY <1>0, <2>2 DEF ResumeInv, ResumeOK, BatchHeld
        <3>3. Len(run.text) >= 2
            BY <3>1, <3>2 DEF RecordEnds, LogOK
        <3>4. h = HeaderOf[run.text[1]]
            BY <2>2, <3>1, <3>3, HeaderFacts DEF HeaderSession
        <3>5. run'.phase # "await" /\ run'.session = HeaderOf[run'.text[1]]
            BY <1>1, <3>4 DEF SameText
        <3> QED BY <3>5 DEF Titled
    <2>3. CASE FirstHeader(file) # FirstHeader(run.text)
        <3>1. strayed' = strayed \cup {Content[b.record].body : b \in run.batch}
            BY <2>3 DEF ReadHeader
        <3>2. \A b \in run'.batch : Content[b.record].body \in strayed'
            BY <1>1, <3>1
        <3> QED BY <1>1, <3>2 DEF Titled, Stray
    <2> QED BY <2>1, <2>2, <2>3
<1>4. ResumeOK'
    BY <1>0, <1>1, <1>2, <1>3, TextResumes DEF ResumeInv, ResumeOK, BatchHeld
<1>5. strayed \subseteq strayed'
    BY DEF ReadHeader
<1> QED BY <1>4, <1>5

\* A record is sent under the session of the file it was read from.
LEMMA EmitResumes ==
    ASSUME ResumeInv, Emit
    PROVE  ResumeOK'
<1> PICK item : item = First(run.batch)
    OBVIOUS
<1> PICK session : session = SessionOf(item.record, run.session)
    OBVIOUS
<1> PICK h : h = HeaderOf[run.text[1]]
    OBVIOUS
<1>0. /\ run.phase = "emit" /\ run.phase \in InBatch /\ run \in BatchOver /\ run.batch # {}
      /\ run' = [run EXCEPT !.phase = "await", !.session = session]
      /\ UNCHANGED <<cursor, events, strayed>>
      /\ LogOK(run.text)
    BY DEF Emit, ResumeInv, ResumeOK, BatchTyped, GotOn, Ahead, InBatch, Ingest, Send, SendRefused, stored
<1>1. /\ item \in run.batch /\ item.end \in RecordEnds(run.text) /\ item.end \in Nat
      /\ item.record = RecordOf(run.text, item.end) /\ \A b \in run.batch : item.end <= b.end
    BY <1>0, NextInText DEF ResumeInv, ResumeOK
<1>2. /\ HeaderOf[item.record] \in {None, h} /\ h \in Sessions
      /\ item.end <= 3 => item.record = run.text[1] /\ h # None
    BY <1>0, <1>1, RecordFacts
<1>3. session \in Sessions
    BY <1>0, <1>2 DEF SessionOf, BatchOver
<1>4. session = h \/ Stray
    <2>1. (\E b \in run.batch : b.end <= 3) => item.end <= 3
        <3>1. \A b \in run.batch : b.end \in Nat
            BY <1>0 DEF BatchOver
        <3> QED BY <1>1, <3>1
    <2>2. run.session = h \/ Stray \/ \E b \in run.batch : b.end <= 3
        BY <1>0 DEF ResumeInv, ResumeOK, Titled
    <2> QED BY <1>2, <2>1, <2>2 DEF SessionOf
<1>5. /\ run'.phase = "await" /\ run'.session = session /\ run'.batch = run.batch
      /\ run' \in BatchOver /\ SameText
    BY <1>0, <1>3 DEF BatchOver, SameText, InBatch
<1>6. BatchTyped'
    BY <1>5 DEF BatchTyped
<1>7. Titled'
    <2>1. Stray => Stray'
        BY <1>0, <1>5 DEF Stray
    <2> QED BY <1>0, <1>4, <1>5, <2>1 DEF Titled, SameText
<1> QED BY <1>0, <1>5, <1>6, <1>7, TextResumes DEF ResumeInv, ResumeOK, BatchHeld

\* A record leaves the batch when it is imported.
LEMMA AwaitResumes ==
    ASSUME ResumeInv, Await
    PROVE  ResumeOK'
<1> PICK item : item = First(run.batch)
    OBVIOUS
<1>0. /\ run.phase = "await" /\ run.phase \in InBatch /\ run \in BatchOver /\ run.batch # {}
      /\ BatchTyped /\ BatchHeld /\ SentOK /\ UNCHANGED <<cursor, events, strayed>>
    BY DEF Await, ResumeInv, ResumeOK, BatchTyped, Titled, InBatch, Collect, stored
<1>1. CASE reply[Importer].state # "stored"
    <2>1. run'.phase = "idle"
        BY <1>1 DEF Await, NoRun
    <2> QED BY <2>1 DEF ResumeOK, BatchTyped, BatchHeld, Titled, GotOn, Begun, InBatch, Ahead
<1>2. CASE reply[Importer].state = "stored"
    <2>1. Persisted(Current)
        BY <1>0, <1>2 DEF SentOK
    <2>2. run' = [run EXCEPT !.phase = "emit", !.batch = @ \ {item}]
        BY <1>2 DEF Await
    <2>3. /\ run'.phase = "emit" /\ run'.session = run.session /\ run'.batch = run.batch \ {item}
          /\ run' \in BatchOver /\ SameText
        BY <1>0, <2>2 DEF BatchOver, SameText, InBatch
    <2>4. BatchTyped'
        BY <2>3 DEF BatchTyped
    <2>5. Titled'
        <3>1. Stray => Stray'
            BY <1>0, <2>3 DEF Stray
        <3> QED BY <1>0, <2>3, <3>1 DEF Titled, SameText, ResumeInv, ResumeOK
    <2>6. ASSUME NEW i \in Positions(run.seen)
          PROVE  \/ Imported(run.seen, i)
                 \/ \E b \in run'.batch : b.record = run.seen[i - 1] /\ b.end \in {i, i + 1}
        <3>1. CASE item.record = run.seen[i - 1] /\ item.end \in {i, i + 1}
            <4>1. PICK k \in DOMAIN events : events[k].draft = Current
                BY <2>1 DEF Persisted
            <4>2. Current.body = Content[item.record].body /\ Current.source[2] = item.end
                BY <1>0, CurrentFacts
            <4> QED BY <3>1, <4>1, <4>2 DEF Imported
        <3>2. CASE ~(item.record = run.seen[i - 1] /\ item.end \in {i, i + 1})
            BY <1>0, <2>3, <3>2 DEF BatchHeld
        <3> QED BY <3>1, <3>2
    <2> QED BY <2>3, <2>4, <2>5, <2>6, TextResumes
<1> QED BY <1>1, <1>2

\* The batch is over: what was read makes a cursor, whatever the digest was taken of.
LEMMA DigestResumes ==
    ASSUME ResumeInv, TakeDigest
    PROVE  ResumeOK'
<1> PICK c : c = [offset |-> run.end, digest |-> PrefixDigest(file, run.end), seen |-> run.seen]
    OBVIOUS
<1>0. /\ run.phase = "emit" /\ run.phase \in InBatch /\ run.phase \in Ahead /\ run.phase # "save"
      /\ run \in BatchOver /\ run.batch = {} /\ UNCHANGED <<cursor, events>>
      /\ run' = [phase |-> "save", size |-> run.size, loaded |-> run.loaded,
                 from |-> run.from, text |-> run.text, cursor |-> c]
    BY DEF TakeDigest, ResumeInv, ResumeOK, BatchTyped, InBatch, Ahead, pipelineVars, stored
<1>1. /\ run'.phase = "save" /\ run'.size = run.size /\ run'.loaded = run.loaded
      /\ run'.from = run.from /\ run'.text = run.text /\ run'.cursor = c
      /\ c.offset = run.end /\ c.seen = run.seen /\ run.size \in Nat /\ run.end \in Nat
    BY <1>0 DEF BatchOver
<1>2. PrefixOK(c)
    BY <1>0, <1>1 DEF ResumeInv, ResumeOK, BatchHeld, PrefixOK, Covered
<1>3. PrefixOK(run.cursor)'
    BY <1>0, <1>1, <1>2 DEF PrefixOK, Covered, Imported
<1>4. GotOn'
    <2>1. WasRead' = WasRead /\ Reach' = Reach /\ run'.phase \in Ahead
        BY <1>0, <1>1 DEF WasRead, Reach, Ahead
    <2> QED BY <1>0, <1>1, <2>1 DEF ResumeInv, ResumeOK, GotOn
<1>5. Begun'
    BY <1>0, <1>1 DEF ResumeInv, ResumeOK, Begun
<1> QED BY <1>1, <1>3, <1>4, <1>5 DEF ResumeOK, BatchTyped, BatchHeld, Titled, InBatch, Ahead

\* The cursor that is saved is the one the run made.
LEMMA SaveResumes ==
    ASSUME ResumeInv, SaveCursor
    PROVE  PrefixOK(cursor)' /\ ResumeOK'
<1> PICK c : c = run.cursor
    OBVIOUS
<1>0. PrefixOK(c) /\ run.size \in Nat /\ UNCHANGED events /\ cursor' = c
    BY DEF SaveCursor, ResumeInv, ResumeOK, pipelineVars, stored
<1>1. \/ run' = [phase |-> "check", cursor |-> c, size |-> run.size]
      \/ run' = NoRun
    BY DEF SaveCursor
<1>2. PrefixOK(cursor)'
    BY <1>0 DEF PrefixOK, Covered, Imported
<1>3. CASE run' = [phase |-> "check", cursor |-> c, size |-> run.size]
    <2>1. run'.phase = "check" /\ run'.size = run.size /\ run'.cursor = c
        BY <1>3
    <2>2. PrefixOK(run.cursor)'
        BY <1>0, <2>1 DEF PrefixOK, Covered, Imported
    <2>3. Begun'
        BY <1>0, <2>1 DEF Begun, Ahead, InBatch
    <2> QED BY <1>0, <1>2, <2>1, <2>2, <2>3
            DEF ResumeOK, BatchTyped, BatchHeld, Titled, GotOn, InBatch, Ahead
<1>4. CASE run' = NoRun
    <2>1. run'.phase = "idle"
        BY <1>4 DEF NoRun
    <2> QED BY <1>2, <2>1 DEF ResumeOK, BatchTyped, BatchHeld, Titled, GotOn, Begun, InBatch, Ahead
<1> QED BY <1>1, <1>3, <1>4

\* What the worker persists was observed, or is a record in the session of its rollout.
LEMMA AppendKeepsNames ==
    ASSUME Shape, ResumeInv, AppendEvent, UNCHANGED strayed
    PROVE  EventsGrow /\ EventsNamed'
<1> PICK d : d = job.draft
    OBVIOUS
<1>1. NamedRight(d, strayed)
    <2>1. job # NoJob /\ job.stage = "append"
        BY DEF AppendEvent, NoJob
    <2>2. CASE job.from # Importer
        BY <2>1, <2>2 DEF ResumeInv, SentOK, NamedRight
    <2>3. CASE job.from = Importer
        <3> PICK item : item = First(run.batch)
            OBVIOUS
        <3>1. run.phase = "await" /\ d = Current /\ run.phase \in InBatch /\ run.phase \in Ahead
            BY <2>1, <2>3 DEF ResumeInv, SentOK, InBatch, Ahead
        <3>2. /\ run.batch # {} /\ (run.session = HeaderOf[run.text[1]] \/ Stray)
              /\ LogOK(run.text) /\ BatchTyped /\ BatchHeld
            BY <3>1 DEF ResumeInv, ResumeOK, Titled, GotOn
        <3>3. /\ item \in run.batch /\ item.record \in Records
              /\ item.end \in RecordEnds(run.text) /\ item.record = RecordOf(run.text, item.end)
              /\ d.body = Content[item.record].body /\ d.session = run.session
            BY <3>1, <3>2, NextInText, CurrentFacts
        <3>4. Content[item.record].session = HeaderOf[run.text[1]]
            BY <3>2, <3>3, RecordFacts
        <3>5. Stray => d.body \in strayed
            BY <3>3 DEF Stray
        <3> QED BY <3>2, <3>3, <3>4, <3>5 DEF NamedRight
    <2> QED BY <2>2, <2>3
<1>3. CASE UNCHANGED events
    BY <1>3 DEF EventsGrow, EventsNamed, ResumeInv
<1>4. CASE AppendsDraft(d)
    <2>1. EventsGrow
        BY <1>4 DEF EventsGrow, AppendsDraft
    <2>2. \A k \in DOMAIN events' :
              \/ k \in DOMAIN events /\ events'[k].draft = events[k].draft
              \/ events'[k].draft = d
        BY <1>4 DEF AppendsDraft
    <2>3. \A k \in DOMAIN events' : NamedRight(events'[k].draft, strayed)
        BY <1>1, <2>2 DEF ResumeInv, EventsNamed
    <2> QED BY <2>1, <2>3 DEF EventsNamed
<1> QED BY <1>3, <1>4, AppendFacts

\* Every step of the import, of the agent, of what replaces its log and of the others.
LEMMA ResumeStep == Shape /\ ResumeInv /\ [Next]_vars => ResumeInv'
<1> SUFFICES ASSUME Shape, ResumeInv, [Next]_vars
             PROVE  ResumeInv'
    OBVIOUS
<1>1. SentOK'
    BY SentStep DEF ResumeInv, ResumeOK
<1>2. ASSUME UNCHANGED <<events, file>>, strayed \subseteq strayed', PrefixOK(cursor)', ResumeOK'
      PROVE  ResumeInv'
    <2>1. \A k \in DOMAIN events' : NamedRight(events'[k].draft, strayed')
        BY <1>2 DEF ResumeInv, EventsNamed, NamedRight
    <2>2. LogOK(file)'
        BY <1>2 DEF ResumeInv, LogOK
    <2> QED BY <1>1, <1>2, <2>1, <2>2 DEF ResumeInv, EventsNamed
<1>3. ASSUME UNCHANGED <<events, cursor>>
      PROVE  PrefixOK(cursor)'
    BY <1>3 DEF ResumeInv, PrefixOK, Covered, Imported
<1>4. ASSUME UNCHANGED <<events, cursor, run, strayed>>, LogOK(file)'
      PROVE  ResumeInv'
    <2>1. EventsGrow
        BY <1>4 DEF EventsGrow
    <2>2. PrefixOK(cursor)' /\ ResumeOK'
        BY <1>4, <2>1, GrowthKeepsResume
    <2>3. EventsNamed'
        BY <1>4 DEF ResumeInv, EventsNamed, NamedRight
    <2> QED BY <1>1, <1>4, <2>2, <2>3 DEF ResumeInv
<1>5. CASE Discover \/ CheckPrefix \/ ReadBatch \/ TakeDigest
    <2>1. UNCHANGED <<events, file, cursor, strayed>>
        BY <1>5 DEF Discover, CheckPrefix, ReadBatch, TakeDigest, pipelineVars, stored
    <2>2. ASSUME ReadBatch
          PROVE  ResumeOK'
        <3>1. run.offset \in Nat /\ Len(file) \in Nat
            BY <2>2 DEF ReadBatch, ResumeInv, ResumeOK, LogOK
        <3> QED BY <2>2, <3>1, ReadOn, ReadNothing
    <2>3. ResumeOK'
        BY <1>5, <2>2, DiscoverResumes, CheckResumes, DigestResumes
    <2> QED BY <1>2, <1>3, <2>1, <2>3
<1>6. CASE ReadHeader
    <2>1. UNCHANGED <<events, file, cursor>>
        BY <1>6 DEF ReadHeader, pipelineVars, stored
    <2> QED BY <1>2, <1>3, <1>6, <2>1, HeaderResumes
<1>7. CASE Emit \/ Await
    <2>1. UNCHANGED <<events, file, cursor, strayed>>
        BY <1>7 DEF Emit, Await, Collect, Ingest, Send, SendRefused, stored
    <2> QED BY <1>2, <1>3, <1>7, <2>1, EmitResumes, AwaitResumes
<1>8. CASE SaveCursor
    <2>1. UNCHANGED <<events, file, strayed>>
        BY <1>8 DEF SaveCursor, pipelineVars, stored
    <2> QED BY <1>2, <1>8, <2>1, SaveResumes
<1>9. CASE ImportFails \/ Crash
    <2>1. run' = NoRun /\ UNCHANGED <<file, events, cursor, strayed>>
        BY <1>9 DEF ImportFails, Crash, PipelineCrash, pipelineVars, stored
    <2>2. run'.phase = "idle"
        BY <2>1 DEF NoRun
    <2>3. ResumeOK'
        BY <2>2 DEF ResumeOK, BatchTyped, BatchHeld, Titled, GotOn, Begun, InBatch, Ahead
    <2> QED BY <1>2, <1>3, <2>1, <2>3
<1>10. CASE Write \/ Rewrite
    <2>1. UNCHANGED <<events, cursor, run, strayed>>
        BY <1>10 DEF Write, Rewrite, pipelineVars, stored
    <2>2. ASSUME Write
          PROVE  LogOK(file)'
        <3>1. PICK t \in NextTokens : file' = Append(file, t)
            BY <2>2 DEF Write
        <3>2. LogOK(Append(file, t))
            BY AgentKeepsLog DEF ResumeInv
        <3> QED BY <3>1, <3>2 DEF LogOK
    <2>3. ASSUME Rewrite
          PROVE  LogOK(file)'
        <3>1. PICK f \in Rollouts : file' = f
            BY <2>3 DEF Rewrite
        <3>2. LogOK(f)
            BY RolloutAssumption
        <3> QED BY <3>1, <3>2 DEF LogOK
    <2> QED BY <1>4, <1>10, <2>1, <2>2, <2>3
<1>11. CASE Observe
    <2>1. UNCHANGED <<events, file, cursor, run, strayed>>
        BY <1>11 DEF Observe, Ingest, Close, Collect, Send, SendRefused, stored
    <2>2. LogOK(file)'
        BY <2>1 DEF ResumeInv, LogOK
    <2> QED BY <1>4, <2>1, <2>2
<1>12. CASE Work /\ UNCHANGED importVars
    <2>1. UNCHANGED <<file, cursor, run, strayed>>
        BY <1>12 DEF importVars
    <2>2. LogOK(file)'
        BY <2>1 DEF ResumeInv, LogOK
    <2>3. CASE AppendEvent
        <3>1. EventsGrow /\ EventsNamed'
            BY <2>1, <2>3, AppendKeepsNames
        <3>2. PrefixOK(cursor)' /\ ResumeOK'
            BY <2>1, <3>1, GrowthKeepsResume
        <3> QED BY <1>1, <2>2, <3>1, <3>2 DEF ResumeInv
    <2>4. CASE ~AppendEvent
        <3>1. UNCHANGED events
            BY <1>12, <2>4 DEF Work, Receive, Stop, SaveFindings, CorrelateEvent, Fail, stored
        <3> QED BY <1>4, <2>1, <2>2, <3>1
    <2> QED BY <2>3, <2>4
<1>13. CASE UNCHANGED vars
    <2>1. UNCHANGED <<events, file, cursor, run, strayed>>
        BY <1>13 DEF vars, importVars, pipelineVars, stored
    <2>2. LogOK(file)'
        BY <2>1 DEF ResumeInv, LogOK
    <2> QED BY <1>4, <2>1, <2>2
<1> QED BY <1>5, <1>6, <1>7, <1>8, <1>9, <1>10, <1>11, <1>12, <1>13 DEF Next, Import

\* Nothing is written and nothing imported at the start.
LEMMA ResumeStart == Init => ResumeInv
<1> SUFFICES ASSUME Init PROVE ResumeInv
    OBVIOUS
<1>0. file = <<>> /\ cursor = NoCursor /\ run = NoRun /\ events = <<>>
    BY DEF Init, PipelineInit
<1>1. LogOK(file)
    BY <1>0 DEF LogOK
<1>2. PrefixOK(cursor)
    BY <1>0, NothingSeen
<1>3. run.phase = "idle"
    BY <1>0 DEF NoRun
<1>4. ResumeOK
    BY <1>3 DEF ResumeOK, BatchTyped, BatchHeld, Titled, GotOn, Begun, InBatch, Ahead
<1>5. EventsNamed
    BY <1>0 DEF EventsNamed
<1> QED BY <1>1, <1>2, <1>4, <1>5, SentStart DEF ResumeInv

\* The invariant holds throughout an import, however often its file is replaced.
LEMMA ResumeInvariant == Spec => []ResumeInv
<1>1. RepliesInv => Shape
    BY DEF RepliesInv
<1> QED BY <1>1, EvidenceInvariant, ResumeStep, ResumeStart, PTL DEF Spec

\* What the two invariants say together.
LEMMA FaithfulAnyway == ResumeInv /\ ImportInv => ImportFaithful
<1> SUFFICES ASSUME ResumeInv, ImportInv PROVE ImportFaithful
    OBVIOUS
<1>1. NothingSkipped
    <2> SUFFICES ASSUME ~Rewritten(cursor), ~Unnoticed,
                        NEW i \in RecordsBefore(file, cursor.offset)
                 PROVE  Imported(file, i)
        BY DEF NothingSkipped
    <2>1. cursor.offset \in Nat /\ Len(file) \in Nat
        BY DEF ResumeInv, PrefixOK, LogOK
    <2>2. i \in Positions(file) /\ i <= cursor.offset
        BY <2>1 DEF RecordsBefore, Positions
    <2> QED BY <2>2, PrefixHolds DEF ResumeInv
<1>2. OneSession
    <2> SUFFICES ASSUME NEW k \in DOMAIN events, NEW r \in Records,
                        events[k].draft.body = Content[r].body, Content[r].body \notin strayed
                 PROVE  events[k].draft.session = Content[r].session
        BY DEF OneSession
    <2>1. events[k].draft \notin Drafts
        BY LogAssumption
    <2>2. PICK q \in Records : /\ events[k].draft.body = Content[q].body
                               /\ events[k].draft.session = Content[q].session
        BY <2>1 DEF ResumeInv, EventsNamed, NamedRight
    <2> QED BY <2>2, LogAssumption
<1>3. OldestFirst
    BY DEF ImportInv, LogInv, InOrder, OldestFirst
<1> QED BY <1>1, <1>2, <1>3 DEF ImportFaithful

\* import_source, has_been_rewritten: however often the file is truncated, rotated or
\* replaced by another rollout, between two batches or in the midst of one, no record
\* before the cursor is skipped as long as the digest gives the replacement away, and
\* none gets into a foreign session but with a batch whose header was another file's;
\* while the file is only appended to, none is stored before an older one.
THEOREM ImportIsFaithful == Spec => []ImportFaithful
BY ResumeInvariant, ImportInvariant, FaithfulAnyway, PTL

\* run_import: a run that ends well has read to the size it saw when it began, in the
\* file it read last, unless that file is not the one it had read before.
THEOREM DiscoveredIsDrained == Spec => DrainsDiscovered
<1> DEFINE Ends == /\ run.phase = "save" /\ run'.phase = "idle" /\ cursor' = run.cursor
                   /\ run.from = run.loaded /\ IsPrefix(run.cursor.seen, run.text)
           Drained == \A i \in RecordsBefore(run.text, run.size) : i <= cursor'.offset
<1>1. ResumeInv /\ [Next]_vars => [Ends => Drained]_vars
    <2> SUFFICES ASSUME ResumeInv, Next, Ends
                 PROVE  Drained
        OBVIOUS
    <2> PICK r : r = run.cursor.offset
        OBVIOUS
    <2>0. /\ run.phase \in Ahead /\ run.size \in Nat /\ run.from \in Nat /\ r \in Nat /\ r >= run.from
          /\ r > run.from \/ \A i \in Positions(run.text) : i <= run.from
          /\ run.loaded = cursor.offset \/ run.size < cursor.offset
          /\ Len(run.text) \in Nat /\ cursor.offset \in Nat /\ cursor'.offset = r
          /\ run.loaded = run.from
        BY DEF ResumeInv, ResumeOK, GotOn, Begun, PrefixOK, LogOK, Ahead, Reach, WasRead
    <2>1. \A i \in RecordsBefore(run.text, run.size) :
              i \in Positions(run.text) /\ i <= run.size /\ i \in Nat
        BY <2>0 DEF RecordsBefore, Positions
    <2>2. CASE SaveCursor
        <3>1. ~(r > run.loaded /\ r < run.size)
            <4>1. ~More
                BY <2>2 DEF SaveCursor
            <4> QED BY <4>1 DEF More
        <3> QED BY <2>0, <2>1, <3>1
    <2>3. CASE ~SaveCursor
        <3>1. UNCHANGED cursor
            BY <2>3 DEF Next, Import, Discover, CheckPrefix, ReadBatch, ReadHeader, Emit, Await,
                        TakeDigest, ImportFails, Crash, Write, Rewrite, Observe, importVars
        <3> QED BY <2>0, <2>1, <3>1
    <2> QED BY <2>2, <2>3
<1>2. Spec => [][Ends => Drained]_vars
    BY <1>1, ResumeInvariant, PTL DEF Spec
<1> QED BY <1>2 DEF DrainsDiscovered
=============================================================================
