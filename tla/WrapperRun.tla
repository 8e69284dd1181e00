------------------------------ MODULE WrapperRun ------------------------------
(***************************************************************************)
(* One `agenttraceback run` after another, and side by side: the command's *)
(* process (crates/agenttraceback-cli/src/main.rs, run_wrapper) with its   *)
(* root and transcript tasks, the terminal the agent runs in               *)
(* (crates/agenttraceback-platform/src/pty.rs), and what the requests it   *)
(* makes store in the daemon (crates/agenttraceback-daemon/src/            *)
(* coordinator.rs): the session row, the file versions, snapshots and Git  *)
(* states of both ends, the events, the transcript and the chain's root.   *)
(* The project's observation, which the same requests enter and leave, is  *)
(* in WrapperCoordinator; here their steps are those that write.  A daemon *)
(* that stops does not come back for these runs: another one knows none of *)
(* their sessions.                                                         *)
(***************************************************************************)
EXTENDS BlobStore

CONSTANTS
    Runs,           \* the commands, each run once
    Files,          \* paths of the project, numbered in the order of the walk
    Sensitive,      \* the paths whose content is not captured
    Missing,        \* the content of a file that is not there
    GitState,       \* what capture_git_state says, the same before and after
    Output,         \* Output[r]: the chunks the agent of r writes to its terminal
    Unbased,        \* runs with --no-recovery-snapshot
    Imported,       \* runs of agents whose history is imported: codex and claude
    Trees,          \* what the project's files may hold at first
    MaxEdits,       \* bound on the changes of files
    Circumstances   \* the circumstances the runs may meet

MainOf(r) == <<r, "main">>
ChunkOf(r) == <<r, "chunk">>
Exits == {"succeeded", "failed", "cancelled"}

ASSUME RunsAssumption ==
    /\ Files \subseteq Nat /\ Sensitive \subseteq Files /\ Missing \notin Contents
    /\ GitState \in Contents /\ Output \in [Runs -> Seq(Contents)]
    /\ Unbased \subseteq Runs /\ Imported \subseteq Runs
    /\ Writers = {MainOf(r) : r \in Runs} \cup {ChunkOf(r) : r \in Runs}
    /\ Trees \subseteq [Files -> Contents \cup {Missing}]
    /\ MaxEdits \in Nat
\* runs: those that take place; taped: those without --no-transcript; ends: how
\* agents end; trouble: what may go wrong.  refusal: any awaited call may fail;
\* timeout: a client may give up after its sixty seconds; stop: the daemon may;
\* launch: an agent may not start, or its terminal fail under it; disk: a put may
\* fail, a file decay; edits: files change.
Circumstance ==
    [runs : SUBSET Runs, taped : SUBSET Runs, ends : SUBSET Exits,
     trouble : SUBSET {"refusal", "timeout", "stop", "launch", "disk", "edits"}]
ASSUME CircumstancesAssumption == Circumstances \subseteq Circumstance

VARIABLES
    given,      \* the circumstances, which do not change
    daemon,     \* "up" or "down"
    active,     \* the sessions the daemon holds open
    request,    \* request[r]: where its prepare or complete request stands
    posted,     \* posted[r]: where its transcript request stands
    tree,       \* the project's files
    edits,      \* the changes made to them
    cli,        \* cli[r]: where run_wrapper stands
    agent,      \* agent[r]: the process in the terminal
    result,     \* result[r]: what run_pty returned
    written,    \* written[r]: chunks the agent has written
    forwarded,  \* forwarded[r]: chunks the output thread has sent on
    taken,      \* taken[r]: chunks the transcript task has taken
    tape,       \* tape[r]: the transcript task
    root,       \* root[r]: the task that reports the process id
    rooted,     \* root_pids: the sessions whose process id is known
    cut,        \* the runs whose transcript or process id met a failure
    rows        \* the database, by session

taskVars == <<tape, root, rooted, taken, cut>>
agentVars == <<agent, written, forwarded>>
ownVars == <<given, daemon, active, request, posted, tree, edits, cli, agent, result,
             written, forwarded, taken, tape, root, rooted, cut, rows>>
runVars == <<ownVars, blobVars>>

NoRequest == [op |-> "none", step |-> "none", todo |-> {}, manifest |-> <<>>, moved |-> {}]
\* What the database has of a session: its row, its events, the versions of files
\* (phase, file, the hash of the manifest, the id of the stored content or Missing,
\* and whether the file changed after it was hashed), the phases of its snapshots and
\* Git states, and whether its chain is closed.
NoRow == [state |-> "none", outcome |-> "unknown", events |-> {}, versions |-> {},
          snapshots |-> {}, git |-> {}, closed |-> FALSE]

RunInit ==
    /\ given \in Circumstances
    /\ daemon = "up" /\ active = {}
    /\ request = [r \in Runs |-> NoRequest]
    /\ posted = [r \in Runs |-> "none"]
    /\ tree \in Trees /\ edits = 0
    /\ cli = [r \in Runs |-> "idle"]
    /\ agent = [r \in Runs |-> "none"]
    /\ result = [r \in Runs |-> "none"]
    /\ written = [r \in Runs |-> 0]
    /\ forwarded = [r \in Runs |-> 0]
    /\ taken = [r \in Runs |-> 0]
    /\ tape = [r \in Runs |-> IF r \in given.taped THEN "waiting" ELSE "ended"]
    /\ root = [r \in Runs |-> "waiting"]
    /\ rooted = {} /\ cut = {}
    /\ rows = [r \in Runs |-> NoRow]
    /\ BlobInit
-----------------------------------------------------------------------------
(* The project, which any process may change. *)

Edit(f, c) ==
    /\ "edits" \in given.trouble /\ edits < MaxEdits /\ tree[f] # c
    /\ tree' = [tree EXCEPT ![f] = c]
    /\ edits' = edits + 1
    /\ request' = [r \in Runs |-> [request[r] EXCEPT !.moved = @ \cup {f}]]
    /\ UNCHANGED <<given, daemon, active, posted, cli, agentVars, result, taskVars, rows,
                   blobVars>>
-----------------------------------------------------------------------------
(* prepare_wrapper and complete_wrapper in the daemon, from one write to the *)
(* next.                                                                     *)

InDaemon == UNCHANGED <<given, daemon, posted, tree, edits, cli, agentVars, result, taskVars>>
NoBlob == UNCHANGED blobVars

Phase(r) == IF request[r].op = "prepare" THEN "pre" ELSE "post"
At(r, step) == request[r].step = step
Becomes(r, step) == request' = [request EXCEPT ![r].step = step]

\* The manifest: paths in order with their hashes, or nothing when the baseline
\* is not wanted.  Files are hashed one after the other; they are independent.
Capture(r) ==
    LET present == IF request[r].op = "prepare" /\ r \in Unbased THEN {}
                   ELSE {f \in Files : tree[f] # Missing}
    IN  /\ At(r, "capture")
        /\ request' = [request EXCEPT ![r] =
              [@ EXCEPT !.todo = present, !.moved = {},
                        !.manifest = [f \in present |-> tree[f]],
                        !.step = IF request[r].op = "prepare" THEN "row" ELSE "files"]]
        /\ InDaemon /\ NoBlob /\ UNCHANGED <<active, rows>>

CreateSession(r) ==
    /\ At(r, "row")
    /\ rows' = [rows EXCEPT ![r].state = "active"]
    /\ Becomes(r, "files")
    /\ InDaemon /\ NoBlob /\ UNCHANGED active

\* persist_manifest_snapshot takes the entries in order and reads each file again,
\* unless its content is sensitive.
InTurn(r, f) == At(r, "files") /\ f \in request[r].todo /\ \A g \in request[r].todo : f <= g
Captured(f) == f \notin Sensitive /\ tree[f] # Missing

ReadFile(r, f) ==
    /\ InTurn(r, f) /\ put[MainOf(r)] = NoPut /\ Captured(f)
    /\ put' = [put EXCEPT ![MainOf(r)] = Putting(tree[f], "sealed")]
    /\ InDaemon /\ UNCHANGED <<active, request, rows, blobs, blobRows, decayed>>

\* The version of f: the hash of the manifest, the name of what has been stored.
StoreVersion(r, f, blob) ==
    /\ InTurn(r, f)
    /\ rows' = [rows EXCEPT ![r].versions = @ \cup
                    {[phase |-> Phase(r), file |-> f, hash |-> request[r].manifest[f],
                      blob |-> blob, moved |-> f \in request[r].moved]}]
    /\ request' = [request EXCEPT ![r].todo = @ \ {f}]
    /\ put' = [put EXCEPT ![MainOf(r)] = NoPut]
    /\ InDaemon /\ UNCHANGED <<active, blobs, blobRows, decayed>>

\* Faulty variant: the name is taken from the content that was to be stored.
NamedAtOnce(r, f) ==
    \/ /\ put[MainOf(r)].stage \in {"recorded", "refused"}
       /\ StoreVersion(r, f, put[MainOf(r)].content)
    \/ put[MainOf(r)].stage = "stored" /\ StoreVersion(r, f, put[MainOf(r)].content)
    \/ put[MainOf(r)] = NoPut /\ ~Captured(f) /\ StoreVersion(r, f, Missing)

\* What could not be read or stored is a version without content; a row of the
\* blobs table that cannot be written is only a warning.
StoreFile(r, f) ==
    \/ put[MainOf(r)].stage = "recorded" /\ StoreVersion(r, f, put[MainOf(r)].content)
    \/ /\ put[MainOf(r)].stage = "stored" /\ "refusal" \in given.trouble
       /\ StoreVersion(r, f, put[MainOf(r)].content)
    \/ put[MainOf(r)].stage = "refused" /\ StoreVersion(r, f, Missing)
    \/ put[MainOf(r)] = NoPut /\ ~Captured(f) /\ StoreVersion(r, f, Missing)

SaveSnapshot(r) ==
    /\ At(r, "files") /\ request[r].todo = {}
    /\ rows' = [rows EXCEPT ![r].snapshots = @ \cup {Phase(r)}]
    /\ Becomes(r, "git")
    /\ InDaemon /\ NoBlob /\ UNCHANGED active

PutGit(r) ==
    /\ At(r, "git") /\ put[MainOf(r)] = NoPut
    /\ put' = [put EXCEPT ![MainOf(r)] = Putting(GitState, "sealed")]
    /\ InDaemon /\ UNCHANGED <<active, request, rows, blobs, blobRows, decayed>>

\* Faulty variant: a Git state that cannot be stored is only a warning.
SaveGitOrWarn(r) ==
    /\ At(r, "git") /\ put[MainOf(r)].stage \in {"recorded", "refused"}
    /\ rows' = [rows EXCEPT ![r].git = @ \cup
                    {p \in {Phase(r)} : put[MainOf(r)].stage = "recorded"}]
    /\ Becomes(r, IF request[r].op = "prepare" THEN "join" ELSE "finalize")
    /\ put' = [put EXCEPT ![MainOf(r)] = NoPut]
    /\ InDaemon /\ UNCHANGED <<active, blobs, blobRows, decayed>>

SaveGit(r) ==
    /\ At(r, "git") /\ put[MainOf(r)].stage = "recorded"
    /\ rows' = [rows EXCEPT ![r].git = @ \cup {Phase(r)}]
    /\ Becomes(r, IF request[r].op = "prepare" THEN "join" ELSE "finalize")
    /\ put' = [put EXCEPT ![MainOf(r)] = NoPut]
    /\ InDaemon /\ UNCHANGED <<active, blobs, blobRows, decayed>>

\* The session is open, then its start event is stored, then the answer is given.
Open(r) ==
    /\ At(r, "join")
    /\ active' = active \cup {r}
    /\ Becomes(r, "start")
    /\ InDaemon /\ NoBlob /\ UNCHANGED rows

StoreStart(r) ==
    /\ At(r, "start")
    /\ rows' = [rows EXCEPT ![r].events = @ \cup {"start"}]
    /\ Becomes(r, "ok")
    /\ InDaemon /\ NoBlob /\ UNCHANGED active

\* complete_wrapper: whoever is not open is refused, and the first thing done is
\* to close the session to further requests and to forget its process.
LeaveSession(r) ==
    /\ At(r, "leave")
    /\ active' = active \ {r} /\ rooted' = rooted \ {r}
    /\ Becomes(r, IF r \in active THEN "end" ELSE "error")
    /\ NoBlob /\ UNCHANGED <<given, daemon, posted, tree, edits, cli, agentVars, result, tape,
                             root, taken, cut, rows>>

StoreEndEvent(r) ==
    /\ At(r, "end")
    /\ rows' = [rows EXCEPT ![r].events = @ \cup {"end"}]
    /\ Becomes(r, "capture")
    /\ InDaemon /\ NoBlob /\ UNCHANGED active

\* The chain is closed, unless an adapter has more to add to it.
Finalize(r) ==
    /\ At(r, "finalize")
    /\ rows' = [rows EXCEPT ![r].closed = r \notin Imported]
    /\ Becomes(r, "close")
    /\ InDaemon /\ NoBlob /\ UNCHANGED active

\* The exit code 126 with a name for a signal is what the command says of an
\* agent it could not launch.
CloseSession(r) ==
    /\ At(r, "close")
    /\ rows' = [rows EXCEPT ![r].state = "complete",
                  ![r].outcome = IF result[r] \in Exits THEN result[r] ELSE "cancelled"]
    /\ Becomes(r, "ok")
    /\ InDaemon /\ NoBlob /\ UNCHANGED active

InProgress(r) == request[r].step \notin {"none", "ok", "error"}

\* An awaited call fails, or what has to be stored is refused, and the rest of the
\* handler is not run.  Of the files nothing but the rows can fail it.
Refuse(r) ==
    /\ InProgress(r)
    /\ \/ "refusal" \in given.trouble /\ request[r].step # "leave"
       \/ At(r, "git") /\ put[MainOf(r)].stage = "refused"
    /\ Becomes(r, "error")
    /\ put' = [put EXCEPT ![MainOf(r)] = NoPut]
    /\ InDaemon /\ UNCHANGED <<active, rows, blobs, blobRows, decayed>>

\* Nobody waits for the answer any more, and the handler is dropped where it waits.
Drop(r) ==
    /\ InProgress(r) /\ cli[r] = "failed"
    /\ Becomes(r, "error")
    /\ put' = [put EXCEPT ![MainOf(r)] = NoPut]
    /\ InDaemon /\ UNCHANGED <<active, rows, blobs, blobRows, decayed>>
-----------------------------------------------------------------------------
(* append_transcript in the daemon. *)

InTranscript == UNCHANGED <<given, daemon, active, request, tree, edits, cli, agentVars,
                            result, tape, root, rooted, taken, rows>>

\* A chunk of a session that is not open is not found.
Admit(r) ==
    /\ posted[r] = "sent"
    /\ IF r \in active
       THEN /\ posted' = [posted EXCEPT ![r] = "storing"]
            /\ put' = [put EXCEPT ![ChunkOf(r)] = Putting(Output[r][taken[r]], "sealed")]
       ELSE posted' = [posted EXCEPT ![r] = "error"] /\ UNCHANGED put
    /\ InTranscript /\ UNCHANGED <<cut, blobs, blobRows, decayed>>

StoreChunk(r) ==
    /\ posted[r] = "storing" /\ put[ChunkOf(r)].stage = "recorded"
    /\ posted' = [posted EXCEPT ![r] = "ok"]
    /\ put' = [put EXCEPT ![ChunkOf(r)] = NoPut]
    /\ InTranscript /\ UNCHANGED <<cut, blobs, blobRows, decayed>>

RefuseChunk(r) ==
    /\ posted[r] = "storing"
    /\ \/ put[ChunkOf(r)].stage = "refused"
       \/ put[ChunkOf(r)].stage = "stored" /\ "refusal" \in given.trouble
       \/ tape[r] = "ended"
    /\ posted' = [posted EXCEPT ![r] = "error"]
    /\ cut' = cut \cup {r}
    /\ put' = [put EXCEPT ![ChunkOf(r)] = NoPut]
    /\ InTranscript /\ UNCHANGED <<blobs, blobRows, decayed>>

\* The daemon ends with everything it has under way.
StopDaemon ==
    /\ "stop" \in given.trouble /\ daemon = "up"
    /\ daemon' = "down" /\ active' = {} /\ rooted' = {}
    /\ request' = [r \in Runs |-> IF InProgress(r) THEN [request[r] EXCEPT !.step = "error"]
                                  ELSE request[r]]
    /\ posted' = [r \in Runs |-> IF posted[r] \in {"sent", "storing"} THEN "error" ELSE posted[r]]
    /\ cut' = cut \cup {r \in Runs : posted[r] \in {"sent", "storing"}}
    /\ put' = [w \in Writers |-> NoPut]
    /\ UNCHANGED <<given, tree, edits, cli, agentVars, result, tape, root, taken, rows,
                   blobs, blobRows, decayed>>
-----------------------------------------------------------------------------
(* The agent in its terminal, and the thread that copies what it writes. *)

InTerminal == UNCHANGED <<given, daemon, active, request, posted, tree, edits, cli, result,
                          taskVars, rows, blobVars>>

\* What an agent writes matters only where it is taped.
Write(r) ==
    /\ r \in given.taped /\ agent[r] = "running" /\ written[r] < Len(Output[r])
    /\ written' = [written EXCEPT ![r] = @ + 1]
    /\ InTerminal /\ UNCHANGED <<agent, forwarded>>

Exit(r, status) ==
    /\ agent[r] = "running"
    /\ agent' = [agent EXCEPT ![r] = status]
    /\ InTerminal /\ UNCHANGED <<written, forwarded>>

Forward(r) ==
    /\ forwarded[r] < written[r]
    /\ forwarded' = [forwarded EXCEPT ![r] = @ + 1]
    /\ InTerminal /\ UNCHANGED <<agent, written>>
-----------------------------------------------------------------------------
(* run_wrapper *)

InCommand == UNCHANGED <<given, daemon, active, posted, tree, edits, rows, blobVars>>
Asks(r, op, step) ==
    request' = [request EXCEPT ![r] = [NoRequest EXCEPT !.op = op, !.step = step]]
Command(r, from, to) == cli[r] = from /\ cli' = [cli EXCEPT ![r] = to]

StartRun(r) ==
    /\ r \in given.runs
    /\ \/ daemon = "up" /\ Command(r, "idle", "preparing") /\ Asks(r, "prepare", "capture")
       \/ daemon = "down" /\ Command(r, "idle", "failed") /\ UNCHANGED request
    /\ InCommand /\ UNCHANGED <<agentVars, result, taskVars>>

\* Without the answer no agent is launched.
Prepared(r) ==
    /\ \/ At(r, "ok") /\ Command(r, "preparing", "launching")
       \/ At(r, "error") /\ Command(r, "preparing", "failed")
    /\ request' = [request EXCEPT ![r] = NoRequest]
    /\ InCommand /\ UNCHANGED <<agentVars, result, taskVars>>

\* The callback of the launch hands the process id to the task that reports it.
Spawn(r) ==
    /\ Command(r, "launching", "running")
    /\ agent' = [agent EXCEPT ![r] = "running"]
    /\ root' = [root EXCEPT ![r] = "posting"]
    /\ InCommand /\ UNCHANGED <<request, written, forwarded, result, tape, rooted, taken, cut>>

\* Faulty variant: the callback, and the sender in it, outlives the launch.
KeepCallback(r) ==
    /\ "launch" \in given.trouble
    /\ Command(r, "launching", "returned")
    /\ result' = [result EXCEPT ![r] = "unlaunched"]
    /\ InCommand /\ UNCHANGED <<request, agentVars, taskVars>>

\* A launch that fails drops the callback, which ends the task.
CannotSpawn(r) ==
    /\ "launch" \in given.trouble
    /\ Command(r, "launching", "returned")
    /\ result' = [result EXCEPT ![r] = "unlaunched"]
    /\ root' = [root EXCEPT ![r] = "done"]
    /\ InCommand /\ UNCHANGED <<request, agentVars, tape, rooted, taken, cut>>

\* The terminal cannot be resized or the agent not waited for: run_pty returns and
\* the agent goes on.
TerminalFails(r) ==
    /\ "launch" \in given.trouble
    /\ Command(r, "running", "returned")
    /\ result' = [result EXCEPT ![r] = "unlaunched"]
    /\ InCommand /\ UNCHANGED <<request, agentVars, taskVars>>

SeeExit(r) ==
    /\ agent[r] \in Exits
    /\ Command(r, "running", "returned")
    /\ result' = [result EXCEPT ![r] = agent[r]]
    /\ InCommand /\ UNCHANGED <<request, agentVars, taskVars>>

\* Faulty variant: nobody waits for the transcript.
CompleteAtOnce(r) ==
    /\ root[r] = "done"
    /\ \/ daemon = "up" /\ Command(r, "returned", "completing") /\ Asks(r, "complete", "leave")
       \/ daemon = "down" /\ Command(r, "returned", "failed") /\ UNCHANGED request
    /\ InCommand /\ UNCHANGED <<agentVars, result, taskVars>>

\* Both tasks have ended before the session is completed.
AskComplete(r) ==
    /\ root[r] = "done" /\ tape[r] = "ended"
    /\ \/ daemon = "up" /\ Command(r, "returned", "completing") /\ Asks(r, "complete", "leave")
       \/ daemon = "down" /\ Command(r, "returned", "failed") /\ UNCHANGED request
    /\ InCommand /\ UNCHANGED <<agentVars, result, taskVars>>

\* The exit status of the agent is that of the command, unless the daemon did not
\* complete the session.
Completed(r) ==
    /\ \/ At(r, "ok") /\ result[r] \in Exits /\ Command(r, "completing", "done")
       \/ At(r, "ok") /\ result[r] = "unlaunched" /\ Command(r, "completing", "failed")
       \/ At(r, "error") /\ Command(r, "completing", "failed")
    /\ request' = [request EXCEPT ![r] = NoRequest]
    /\ InCommand /\ UNCHANGED <<agentVars, result, taskVars>>

\* The client's sixty seconds are over.
GiveUp(r) ==
    /\ "timeout" \in given.trouble /\ InProgress(r)
    /\ Command(r, "preparing", "failed") \/ Command(r, "completing", "failed")
    /\ InCommand /\ UNCHANGED <<request, agentVars, result, taskVars>>
-----------------------------------------------------------------------------
(* The tasks of run_wrapper *)

InTask == UNCHANGED <<given, daemon, active, request, tree, edits, cli, agentVars, result,
                      rows, blobVars>>

\* register_root_pid; what it answers is not looked at.
ReportRoot(r) ==
    /\ root[r] = "posting"
    /\ root' = [root EXCEPT ![r] = "done"]
    /\ \/ daemon = "up" /\ r \in active /\ rooted' = rooted \cup {r} /\ UNCHANGED cut
       \/ daemon = "up" /\ r \notin active /\ UNCHANGED <<rooted, cut>>
       \/ daemon = "down" /\ cut' = cut \cup {r} /\ UNCHANGED rooted
    /\ InTask /\ UNCHANGED <<posted, tape, taken>>

\* The channel ends when the output thread has met the end of the terminal, which
\* the exit of the agent closes, and run_pty has returned; then both have dropped
\* the callback.
ChannelEnds(r) ==
    /\ cli[r] = "returned"
    /\ agent[r] \in {"none"} \cup Exits /\ forwarded[r] = written[r]

Tape(r, from, to) == tape[r] = from /\ tape' = [tape EXCEPT ![r] = to]

SendChunk(r) ==
    /\ taken[r] < forwarded[r]
    /\ taken' = [taken EXCEPT ![r] = @ + 1]
    /\ \/ /\ daemon = "up" /\ Tape(r, "waiting", "posting")
          /\ posted' = [posted EXCEPT ![r] = "sent"]
          /\ UNCHANGED cut
       \/ daemon = "down" /\ Tape(r, "waiting", "ended") /\ cut' = cut \cup {r} /\ UNCHANGED posted
    /\ InTask /\ UNCHANGED <<root, rooted>>

\* The next chunk is not sent before this one is answered, and none after an error.
ChunkAnswered(r) ==
    /\ \/ posted[r] = "ok" /\ Tape(r, "posting", "waiting")
       \/ posted[r] = "error" /\ Tape(r, "posting", "ended")
    /\ posted' = [posted EXCEPT ![r] = "none"]
    /\ InTask /\ UNCHANGED <<root, rooted, taken, cut>>

ChunkGivenUp(r) ==
    /\ "timeout" \in given.trouble /\ posted[r] \in {"sent", "storing"}
    /\ Tape(r, "posting", "ended")
    /\ cut' = cut \cup {r}
    /\ InTask /\ UNCHANGED <<posted, root, rooted, taken>>

EndTape(r) ==
    /\ ChannelEnds(r) /\ taken[r] = forwarded[r]
    /\ Tape(r, "waiting", "ended")
    /\ InTask /\ UNCHANGED <<posted, root, rooted, taken, cut>>
-----------------------------------------------------------------------------
Handler(r) ==
    \/ Capture(r) \/ CreateSession(r) \/ SaveSnapshot(r) \/ PutGit(r) \/ SaveGit(r)
    \/ \E f \in Files : ReadFile(r, f) \/ StoreFile(r, f)
    \/ Open(r) \/ StoreStart(r) \/ LeaveSession(r) \/ StoreEndEvent(r) \/ Finalize(r) \/ CloseSession(r)
    \/ Refuse(r)

Blob(w) ==
    /\ UNCHANGED ownVars
    /\ \/ Look(w) \/ Persist(w) \/ Record(w)
       \/ "disk" \in given.trouble /\ CannotWrite(w)

Transcript(r) == Admit(r) \/ StoreChunk(r) \/ RefuseChunk(r)

Tasks(r) == ReportRoot(r) \/ SendChunk(r) \/ ChunkAnswered(r) \/ EndTape(r)

Cli(r) == Prepared(r) \/ Spawn(r) \/ SeeExit(r) \/ AskComplete(r) \/ Completed(r)

Environment(r) ==
    \/ StartRun(r) \/ Write(r) \/ GiveUp(r) \/ ChunkGivenUp(r) \/ Drop(r)
    \/ CannotSpawn(r) \/ TerminalFails(r)

\* What the daemon, the command's tasks and threads and the agent have to do is done
\* at last, in whatever order; a run takes finitely many steps, so that nothing
\* waits for ever behind the others.  Nothing has to go wrong.
Scheduled ==
    \/ \E w \in Writers : Blob(w)
    \/ \E r \in Runs :
        \/ Handler(r) \/ Transcript(r) \/ Tasks(r) \/ Cli(r) \/ Forward(r)
        \/ \E status \in given.ends : Exit(r, status)

RunNext ==
    \/ Scheduled \/ StopDaemon
    \/ \E f \in Files, c \in Contents \cup {Missing} : Edit(f, c)
    \/ \E c \in Contents : "disk" \in given.trouble /\ Decay(c) /\ UNCHANGED ownVars
    \/ \E r \in Runs : Environment(r)

RunFairness == WF_runVars(Scheduled)

RunSpec == RunInit /\ [][RunNext]_runVars /\ RunFairness
-----------------------------------------------------------------------------
(* Correctness *)

\* No agent is launched before its baseline, its Git state and its start are stored,
\* and a session that is complete has all of both its ends: nothing that could fail
\* on the way was passed over.  Its outcome is that of its agent; and the process id
\* of the agent is known while the session is open, unless the report of it failed,
\* and not longer.
RecordsComplete == \A r \in Runs :
    /\ agent[r] # "none" =>
        rows[r].state # "none" /\ "start" \in rows[r].events
            /\ "pre" \in rows[r].snapshots \cap rows[r].git
    /\ rows[r].state = "complete" =>
        /\ rows[r].events = {"start", "end"}
        /\ rows[r].snapshots = {"pre", "post"} /\ rows[r].git = {"pre", "post"}
        /\ rows[r].closed \/ r \in Imported
        /\ result[r] \in Exits => rows[r].outcome = agent[r]
    /\ agent[r] # "none" /\ root[r] = "done" /\ r \in active \ cut => r \in rooted
    /\ r \in rooted => r \in active

\* Every id in the database has its file, whole unless the disk damaged it, whoever
\* put the same content at the same time and whatever was interrupted; and content
\* stored for a file differs from the hash beside it only when the file was changed
\* between the two readings.
RecordsBacked ==
    /\ \A c \in blobRows : blobs[c] = "whole" \/ c \in decayed
    /\ \A r \in Runs :
        /\ rows[r].git # {} => GitState \in blobRows
        /\ \A v \in rows[r].versions :
            /\ v.blob # Missing => blobs[v.blob] = "whole" \/ v.blob \in decayed
            /\ v.blob \notin {v.hash, Missing} => v.moved

\* What the agent wrote to its terminal before it ended is stored when its session
\* is complete, unless a request failed.
OutputStored == \A r \in given.taped :
    rows[r].state = "complete" /\ r \notin cut =>
        \A i \in 1..written[r] : Output[r][i] \in blobRows

\* Every command that was started comes to an end: whatever fails, is refused or
\* stops, none waits for ever for an answer, a task or the end of a channel.
RunsEnd ==
    LET UnderWay(r) == cli[r] \notin {"idle", "done", "failed"}
    IN  (\E r \in Runs : UnderWay(r)) ~> (\A r \in Runs : ~UnderWay(r))

\* What a restorable version restores has the hash that was recorded for it.
BaselineRestorable == \A r \in Runs : \A v \in rows[r].versions :
    v.blob \in {v.hash, Missing}
=============================================================================
