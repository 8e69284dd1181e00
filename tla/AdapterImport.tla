----------------------------- MODULE AdapterImport -----------------------------
(* Import of one JSONL rollout by the Codex adapter: the agent appends to its *)
(* log while the importer reads it in batches, sends each record to the       *)
(* ingestion pipeline, waits for the answer and saves a cursor after the      *)
(* batch.  The daemon may die anywhere.                                       *)
EXTENDS IngestionPipeline, SequencesExt

CONSTANTS
    Importer,       \* the producer that imports
    Records,        \* well-formed records an agent writes
    Bad,            \* a line that is no JSON
    Content,        \* Content[r]: the draft of r but for its source; the
                    \* session is that of the rollout r is written in
    HeaderOf,       \* HeaderOf[r]: the session r is the header of, or None
    FileName,       \* the session named after the file
    Rollouts,       \* contents the file may be replaced by
    Drafts,         \* what the other producers send
    MaxLength,      \* bound: tokens in the file
    MaxTurns,       \* bound: replacements of the file and commands of the others
    MaxRecords,     \* MAX_RECORDS_PER_BATCH
    PrefixLimit     \* SOURCE_PREFIX_BYTES

ASSUME ImportAssumption ==
    /\ Importer \in Producers
    /\ MaxRecords \in Nat \ {0} /\ PrefixLimit \in Nat \ {0}
    /\ FileName \in Sessions

\* A record of an agent is a report, in the session its header names; what others
\* observe has sources and contents of its own.
ASSUME LogAssumption ==
    /\ Records \cap {Bad, "end", "newline"} = {} /\ Bad \notin {"end", "newline"}
    /\ Content \in [Records -> Draft] /\ HeaderOf \in [Records -> Sessions \cup {None}]
    /\ \A r \in Records : /\ Content[r].class = "reported"
                          /\ HeaderOf[r] # None => Content[r].session = HeaderOf[r]
    /\ \A r, q \in Records :
          Content[r].body = Content[q].body => Content[r].session = Content[q].session
    /\ \A d \in Drafts : /\ d \in Draft /\ d.class # "reported"
                         /\ d.source \notin Sessions \X Nat
                         /\ \A r \in Records : d.body # Content[r].body

\* History, which no step depends on: text, the file as a batch was read from it; seen,
\* what a cursor stands for, that is, all that was read before its offset; strayed.
VARIABLES
    file,       \* the agent's log, a sequence of tokens
    cursor,     \* import_cursors: the durable cursor
    run,        \* the run of the importer
    rewritten,  \* the file was replaced
    strayed,    \* contents of batches that got the header of another file
    turns       \* bound: replacements and commands so far

importVars == <<file, cursor, run, rewritten, strayed, turns>>
vars == <<pipelineVars, importVars>>

\* A line is a record (or rubbish) in two parts and a newline; offsets count
\* tokens.
End == "end"
NL == "newline"
Token == Records \cup {Bad, End, NL}

\* Digests are the prefixes themselves; NoDigest when it could not be taken.
NoDigest == <<NL>>
NoCursor == [offset |-> 0, digest |-> NoDigest, seen |-> <<>>]

NoRun == [phase |-> "idle"]
-----------------------------------------------------------------------------
(* Reading *)

\* The line that begins after offset: as far as its newline or the end of the
\* file.
LineEnd(f, offset) ==
    LET newlines == {i \in (offset + 1)..Len(f) : f[i] = NL}
    IN IF newlines = {} THEN Len(f)
       ELSE CHOOSE i \in newlines : \A j \in newlines : i <= j

Terminated(f, end) == f[end] = NL
Text(f, offset, end) == SubSeq(f, offset + 1, IF Terminated(f, end) THEN end - 1 ELSE end)
Parses(text) == Len(text) = 2 /\ text[1] \in Records /\ text[2] = End

\* Faulty variant: what is left of a torn line is quarantined like any other.
NeverTorn(f, offset) == FALSE

\* The last line may be in the middle of being written.
Torn(f, offset) ==
    LET end == LineEnd(f, offset)
    IN ~Terminated(f, end) /\ ~Parses(Text(f, offset, end))

\* The lines from offset on, by where they begin, but for one that is torn.
Lines(f, offset) ==
    {o \in offset..(Len(f) - 1) : (o = offset \/ f[o] = NL) /\ ~Torn(f, o)}

IsRecord(f, o) == Parses(Text(f, o, LineEnd(f, o)))

\* The lines that are reached while there are less than max records.
Reached(f, offset, max) ==
    {o \in Lines(f, offset) :
        Cardinality({q \in Lines(f, offset) : q < o /\ IsRecord(f, q)}) < max}

\* read_jsonl_sync: what they contain, each with the offset of its end.
ReadJsonl(f, offset, max) ==
    LET reached == Reached(f, offset, max)
    IN [offset |-> Max({offset} \cup {LineEnd(f, o) : o \in reached}),
        records |-> {[record |-> f[o + 1], end |-> LineEnd(f, o)] :
                        o \in {q \in reached : IsRecord(f, q)}}]

\* Records are taken in the order of the file.
First(records) == CHOOSE i \in records : \A j \in records : i.end <= j.end

\* source_prefix_digest of at most PrefixLimit; a shorter file has none.
PrefixDigest(f, length) ==
    LET read == IF length < PrefixLimit THEN length ELSE PrefixLimit
    IN IF read > Len(f) THEN NoDigest ELSE SubSeq(f, 1, read)

\* The session the first line names.
FirstHeader(f) ==
    LET first == ReadJsonl(f, 0, 1).records
    IN IF first # {} /\ HeaderOf[First(first).record] # None
       THEN HeaderOf[First(first).record] ELSE FileName

\* source_event_id
SourceOf(session, end) == <<session, end>>

\* parse_event with the session that ensure_session knows under this name.
DraftOf(item, session) ==
    [Content[item.record] EXCEPT !.source = SourceOf(session, item.end),
                                 !.session = session]
-----------------------------------------------------------------------------
(* The importer *)

\* The cursor a run starts from: one beyond the end of the file is dropped.
StartCursor == IF cursor.offset > Len(file) THEN NoCursor ELSE cursor

\* import_gate is taken; the size the run will drain is that of now.
Discover ==
    /\ run.phase = "idle"
    /\ run' = [phase |-> "check", cursor |-> StartCursor, size |-> Len(file)]
    /\ UNCHANGED <<pipelineVars, file, cursor, rewritten, strayed, turns>>

\* The file is shorter than the cursor, or its beginning is another one.
Rewritten(c) ==
    \/ c.offset > Len(file)
    \/ /\ c.offset > 0 /\ c.digest # NoDigest
       /\ PrefixDigest(file, c.offset) # c.digest

\* import_source begins; loaded is the cursor that the loop compares with.
CheckPrefix ==
    /\ run.phase = "check"
    /\ run' = [phase |-> "read", size |-> run.size, loaded |-> run.cursor.offset,
               offset |-> IF Rewritten(run.cursor) THEN 0 ELSE run.cursor.offset,
               seen |-> IF Rewritten(run.cursor) THEN <<>> ELSE run.cursor.seen]
    /\ UNCHANGED <<pipelineVars, file, cursor, rewritten, strayed, turns>>

\* A file that became shorter after the check gives nothing.
ReadBatch ==
    /\ run.phase = "read"
    /\ LET batch == IF run.offset > Len(file) THEN [offset |-> run.offset, records |-> {}]
                    ELSE ReadJsonl(file, run.offset, MaxRecords)
       IN run' = [phase |-> IF run.offset > 0 THEN "header" ELSE "emit",
                  size |-> run.size, loaded |-> run.loaded, end |-> batch.offset,
                  batch |-> batch.records, session |-> FileName,
                  from |-> run.offset, text |-> file,
                  seen |-> run.seen \o SubSeq(file, run.offset + 1, batch.offset)]
    /\ UNCHANGED <<pipelineVars, file, cursor, rewritten, strayed, turns>>

\* The header is at the start of the rollout, before the resumed batch.
HeaderSession == FirstHeader(file)

ReadHeader ==
    /\ run.phase = "header"
    /\ run' = [run EXCEPT !.phase = "emit", !.session = HeaderSession]
    /\ strayed' = IF FirstHeader(file) = FirstHeader(run.text) THEN strayed
                  ELSE strayed \cup {Content[b.record].body : b \in run.batch}
    /\ UNCHANGED <<pipelineVars, file, cursor, rewritten, turns>>

\* The session of a record: its own when it is a header, else the last one's.
SessionOf(record, fallback) ==
    IF HeaderOf[record] # None THEN HeaderOf[record] ELSE fallback

Emit ==
    /\ run.phase = "emit" /\ run.batch # {}
    /\ LET item == First(run.batch)
           session == SessionOf(item.record, run.session)
       IN /\ Ingest(Importer, DraftOf(item, session))
          /\ run' = [run EXCEPT !.phase = "await", !.session = session]
    /\ UNCHANGED <<file, cursor, rewritten, strayed, turns>>

Await ==
    /\ run.phase = "await"
    /\ Collect(Importer)
    /\ run' = IF reply[Importer].state = "stored"
              THEN [run EXCEPT !.phase = "emit", !.batch = @ \ {First(@)}]
              ELSE NoRun        \* the source failed, the cursor stays
    /\ UNCHANGED <<file, cursor, rewritten, strayed, turns>>

\* The outcome's cursor, with the digest of the file as it is now.
TakeDigest ==
    /\ run.phase = "emit" /\ run.batch = {}
    /\ run' = [phase |-> "save", size |-> run.size, loaded |-> run.loaded,
               from |-> run.from, text |-> run.text,
               cursor |-> [offset |-> run.end, digest |-> PrefixDigest(file, run.end),
                           seen |-> run.seen]]
    /\ UNCHANGED <<pipelineVars, file, cursor, rewritten, strayed, turns>>

\* Faulty variant: a run reads one batch.
OneBatch == FALSE

\* The size seen at discovery is drained, a log that keeps growing not chased.
More == run.cursor.offset > run.loaded /\ run.cursor.offset < run.size

SaveCursor ==
    /\ run.phase = "save"
    /\ cursor' = run.cursor
    /\ run' = IF More THEN [phase |-> "check", cursor |-> run.cursor, size |-> run.size]
              ELSE NoRun
    /\ UNCHANGED <<pipelineVars, file, rewritten, strayed, turns>>

\* Reading the file or saving the cursor failed.
ImportFails ==
    /\ run.phase \in {"read", "header", "save"}
    /\ run' = NoRun
    /\ UNCHANGED <<pipelineVars, file, cursor, rewritten, strayed, turns>>

Import == \/ Discover \/ CheckPrefix \/ ReadBatch \/ ReadHeader \/ Emit \/ Await
          \/ TakeDigest \/ SaveCursor \/ ImportFails

Crash ==
    /\ PipelineCrash
    /\ run' = NoRun
    /\ UNCHANGED <<file, cursor, rewritten, strayed, turns>>
-----------------------------------------------------------------------------
(* The agent, and the other producers *)

\* The header is the first record of a rollout, and only there.
NextTokens ==
    IF file = <<>> THEN {r \in Records : HeaderOf[r] # None}
    ELSE IF file[Len(file)] = NL
    THEN {Bad} \cup {r \in Records : /\ HeaderOf[r] = None
                                     /\ Content[r].session = FirstHeader(file)}
    ELSE IF file[Len(file)] = End THEN {NL} ELSE {End}

Write ==
    /\ Len(file) < MaxLength
    /\ \E token \in NextTokens : file' = Append(file, token)
    /\ UNCHANGED <<pipelineVars, cursor, run, rewritten, strayed, turns>>

Turn == turns < MaxTurns /\ turns' = turns + 1

\* Truncation, rotation, another rollout under the same name, at any time.
Rewrite ==
    /\ Turn
    /\ rewritten' = TRUE
    /\ file' \in Rollouts \ {file}
    /\ UNCHANGED <<pipelineVars, cursor, run, strayed>>

Observe ==
    \E p \in Producers \ {Importer} :
        /\ \/ /\ Turn
              /\ Close(p) \/ \E draft \in Drafts : Ingest(p, draft)
           \/ Collect(p) /\ UNCHANGED turns
        /\ UNCHANGED <<file, cursor, run, rewritten, strayed>>

Init ==
    /\ PipelineInit
    /\ file = <<>>
    /\ cursor = NoCursor
    /\ run = NoRun
    /\ rewritten = FALSE
    /\ strayed = {}
    /\ turns = 0

Next ==
    \/ Import
    \/ Crash
    \/ Write
    \/ Rewrite
    \/ Observe
    \/ Work /\ UNCHANGED importVars

Spec == Init /\ [][Next]_vars
-----------------------------------------------------------------------------
(* Correctness *)

\* A rollout as its agent leaves it: lines in order, the last one perhaps torn, the
\* header first and only there, all records in its session.
LogOK(f) ==
    /\ f \in Seq(Token)
    /\ \A i \in DOMAIN f :
         /\ f[i] = End => i > 1 /\ f[i - 1] \in Records \cup {Bad}
         /\ f[i] = NL => i > 1 /\ f[i - 1] = End
         /\ f[i] \in Records \cup {Bad} => i = 1 \/ f[i - 1] = NL
         /\ f[i] \in Records => /\ Content[f[i]].session = HeaderOf[f[1]]
                                /\ i # 1 => HeaderOf[f[i]] = None
    /\ f # <<>> => f[1] \in Records /\ HeaderOf[f[1]] # None

\* What replaces a log is a rollout too.
ASSUME RolloutAssumption == \A f \in Rollouts : LogOK(f)

\* The records of the file that end at or before offset, with the offset of
\* their text.
RecordsBefore(f, offset) ==
    {i \in 2..(IF offset < Len(f) THEN offset ELSE Len(f)) :
        f[i] = End /\ f[i - 1] \in Records}

Imported(f, i) ==
    \E k \in DOMAIN events :
        /\ events[k].draft.body = Content[f[i - 1]].body
        /\ events[k].draft.source[2] \in {i, i + 1}

\* A replacement that the digest does not give away: it was taken of another file than
\* the one that was read, or the file differs from what was read behind the part that is
\* digested only.
Unnoticed ==
    LET Digest(f) == PrefixDigest(f, cursor.offset)
    IN \/ cursor.digest # Digest(cursor.seen)
       \/ Digest(file) = Digest(cursor.seen) /\ ~IsPrefix(cursor.seen, file)

\* What lies before the saved cursor was persisted, whatever batch, crash, failure, torn
\* line or replacement came in between, unless a replacement goes unnoticed: no record
\* is skipped.
NothingSkipped ==
    ~Rewritten(cursor) /\ ~Unnoticed =>
        \A i \in RecordsBefore(file, cursor.offset) : Imported(file, i)

\* All records of a rollout are in the session its header names, however many
\* batches, restarts and replacements of the file its import took, but for those of a
\* batch whose header was read from another file than its records.
OneSession ==
    \A k \in DOMAIN events : \A r \in Records :
        events[k].draft.body = Content[r].body /\ Content[r].body \notin strayed =>
            events[k].draft.session = Content[r].session

\* While the file is only appended to, its records are persisted from the
\* oldest to the newest, a replay after a crash included.
OldestFirst ==
    ~rewritten => \A k, l \in DOMAIN events :
        (k < l /\ {events[k].draft.class, events[l].draft.class} = {"reported"})
            => events[k].draft.source[2] < events[l].draft.source[2]

\* An import is faithful to the log: no record is skipped, none is in a foreign
\* session, none is stored before an older one.
ImportFaithful == NothingSkipped /\ OneSession /\ OldestFirst

\* Importing again, after whatever failure, never makes a second live event of
\* one line of the file.
ImportedOnce ==
    ~rewritten => \A k, l \in DOMAIN events :
        (events[k].live /\ events[l].live /\ events[k].draft.class = "reported"
           /\ events[l].draft.source[2] = events[k].draft.source[2] + 1)
              => events[k].draft.body # events[l].draft.body

\* A run that ends well has imported every record that was complete when it began, as
\* far as the file it read last had it, unless that batch had to begin again at zero, or
\* went on in a file that does not begin with what had been read.
DrainsDiscovered ==
    [][(/\ run.phase = "save" /\ run'.phase = "idle" /\ cursor' = run.cursor
        /\ run.from = run.loaded /\ IsPrefix(run.cursor.seen, run.text)) =>
          \A i \in RecordsBefore(run.text, run.size) : i <= cursor'.offset]_vars
=============================================================================
