---------------------------- MODULE ProcessObserver ----------------------------
(* The task that scans the process table every 100 ms and records the starts and *)
(* exits in the subtrees of the registered wrapper roots                         *)
(* (crates/agenttraceback-platform/src/processes.rs and coordinator.rs:902-1020). *)
(* Processes start, exit, leave their children to init and reuse pids meanwhile. *)
EXTENDS Naturals

CONSTANTS
    Pids,       \* pids of the processes observed
    Outside,    \* the pid of init and of all else that never exits
    Wrapped,    \* wrapper sessions
    NoPid,
    MaxStarts   \* bound: processes started

ASSUME PidsAssumption == Outside \notin Pids /\ NoPid \notin Pids \cup {Outside}

VARIABLES
    table,      \* table[p]: the process that has pid p, or NoProcess
    starts,     \* processes started so far; a process is known by pid and start
    root,       \* root[s]: key of the process the wrapper of s spawned
    descent,    \* descent[s]: keys of the processes that descend from it
    reused,     \* sessions whose root pid is, or lately was, another's
    active,     \* active sessions
    registered, \* root_pids
    known,      \* the processes of the last poll
    delta,      \* starts and exits found by the last poll
    rooted,     \* emitted_roots
    polled,     \* root_pids at the time of the last poll
    stage,      \* where the task is
    pending,    \* events it is about to record
    recordedOf  \* events recorded

processes == <<table, starts, root, descent, reused>>
sessionsOf == <<active, registered>>
taskOf == <<known, delta, rooted, polled, stage, pending>>
processVars == <<processes, sessionsOf, taskOf, recordedOf>>

NoProcess == [parent |-> NoPid, start |-> 0]
KeyOf(p, process) == [pid |-> p, start |-> process.start]
Keys(t) == {KeyOf(p, t[p]) : p \in {q \in Pids : t[q] # NoProcess}}
NoRoot == KeyOf(NoPid, NoProcess)
-----------------------------------------------------------------------------
(* Processes *)

Take(p, parent) ==
    /\ starts < MaxStarts /\ starts' = starts + 1
    /\ table[p] = NoProcess
    /\ table' = [table EXCEPT ![p] = [parent |-> parent, start |-> starts + 1]]

Start(p, parent) ==
    /\ parent = Outside \/ (parent \in Pids /\ table[parent] # NoProcess)
    /\ Take(p, parent)
    /\ descent' = [s \in Wrapped |->
                     IF parent \in Pids /\ KeyOf(parent, table[parent]) \in descent[s]
                     THEN descent[s] \cup {KeyOf(p, table'[p])} ELSE descent[s]]
    /\ reused' = reused \cup {s \in Wrapped : root[s].pid = p}
    /\ UNCHANGED <<root, sessionsOf, taskOf, recordedOf>>

\* Children are left to init.
Quit(p) ==
    /\ table[p] # NoProcess
    /\ table' = [q \in Pids |-> IF q = p THEN NoProcess
                                ELSE IF table[q].parent # p THEN table[q]
                                ELSE [table[q] EXCEPT !.parent = Outside]]
    /\ UNCHANGED <<starts, root, descent, reused, sessionsOf, taskOf, recordedOf>>

\* The wrapper of an active session spawns the agent,
Launch(s, p) ==
    /\ s \in active /\ root[s] = NoRoot
    /\ Take(p, Outside)
    /\ root' = [root EXCEPT ![s] = KeyOf(p, table'[p])]
    /\ descent' = [descent EXCEPT ![s] = {KeyOf(p, table'[p])}]
    /\ reused' = reused \cup {t \in Wrapped : root[t].pid = p}
                        \cup {t \in {s} : \E k \in Keys(known) \cup delta.exits : k.pid = p}
    /\ UNCHANGED <<sessionsOf, taskOf, recordedOf>>

\* reports its pid, which may be another's by then,
Register(s) ==
    /\ s \in active /\ root[s] # NoRoot /\ registered[s] = NoPid
    /\ registered' = [registered EXCEPT ![s] = root[s].pid]
    /\ UNCHANGED <<processes, active, taskOf, recordedOf>>

\* and completes the session.
CompleteSession(s) ==
    /\ s \in active
    /\ active' = active \ {s}
    /\ registered' = [registered EXCEPT ![s] = NoPid]
    /\ UNCHANGED <<processes, taskOf, recordedOf>>
-----------------------------------------------------------------------------
(* The task *)

\* Faulty variant: processes are told apart by pid.
ByPid(before, now) == {k \in now : \A o \in before : o.pid # k.pid}

Unknown(before, now) == now \ before

\* ProcessObserver::poll
Poll ==
    /\ stage = "idle" /\ stage' = "roots"
    /\ known' = table
    /\ delta' = [starts |-> Unknown(Keys(known), Keys(table)),
                 exits |-> Unknown(Keys(table), Keys(known))]
    /\ polled' = registered
    /\ UNCHANGED <<processes, sessionsOf, rooted, pending, recordedOf>>

\* is_descendant: the parents lead up to r among the processes of the last poll; that is,
\* p is in every set that has r and the children of its members.
IsDescendant(r, p) ==
    \A S \in SUBSET Pids :
        (r \in S /\ \A q \in Pids : known[q].parent \in S => q \in S) => p \in S

ProcessEvent(s, key, action) == [session |-> s, key |-> key, action |-> action]

\* emit_root_starts: a root is marked as done whether it is known yet or not.
RootStarts ==
    LET due == {s \in Wrapped : registered[s] # NoPid /\ <<s, registered[s]>> \notin rooted}
    IN /\ stage = "roots" /\ stage' = "recording roots"
       /\ rooted' = rooted \cup {<<s, registered[s]>> : s \in due}
       /\ pending' = {ProcessEvent(s, KeyOf(registered[s], known[registered[s]]), "start") :
                        s \in {t \in due : known[registered[t]] # NoProcess}}
       /\ UNCHANGED <<processes, sessionsOf, known, delta, polled, recordedOf>>

\* Faulty variant: only descendants are recorded, the root is left to RootStarts.
OfSubtree(keys, action) ==
    {ProcessEvent(s, k, action) : s \in {t \in Wrapped : registered[t] # NoPid}, k \in keys}

Owned(keys, action) ==
    {e \in OfSubtree(keys, action) : IsDescendant(registered[e.session], e.key.pid)}

\* emit_process_delta
Delta ==
    /\ stage = "delta" /\ stage' = "recording delta"
    /\ pending' = Owned(delta.starts, "start") \cup Owned(delta.exits, "exit")
    /\ UNCHANGED <<processes, sessionsOf, known, delta, rooted, polled, recordedOf>>

\* emit_process_event: nothing is recorded of a session that is no longer active.
Record ==
    /\ \E e \in pending :
         /\ pending' = pending \ {e}
         /\ recordedOf' = IF e.session \in active THEN recordedOf \cup {e} ELSE recordedOf
    /\ UNCHANGED <<processes, sessionsOf, known, delta, rooted, polled, stage>>

Recorded ==
    /\ pending = {}
    /\ \/ stage = "recording roots" /\ stage' = "delta"
       \/ stage = "recording delta" /\ stage' = "idle"
    /\ UNCHANGED <<processes, sessionsOf, known, delta, rooted, polled, pending, recordedOf>>

ProcessInit ==
    /\ table = [p \in Pids |-> NoProcess]
    /\ starts = 0
    /\ root = [s \in Wrapped |-> NoRoot]
    /\ descent = [s \in Wrapped |-> {}]
    /\ reused = {}
    /\ active = Wrapped
    /\ registered = [s \in Wrapped |-> NoPid]
    /\ known = table
    /\ delta = [starts |-> {}, exits |-> {}]
    /\ rooted = {}
    /\ polled = registered
    /\ stage = "idle"
    /\ pending = {}
    /\ recordedOf = {}

ProcessNext ==
    \/ \E p \in Pids, parent \in Pids \cup {Outside} : Start(p, parent)
    \/ \E p \in Pids : Quit(p)
    \/ \E s \in Wrapped, p \in Pids : Launch(s, p)
    \/ \E s \in Wrapped : Register(s) \/ CompleteSession(s)
    \/ Poll \/ RootStarts \/ Delta \/ Record \/ Recorded

ProcessSpec == ProcessInit /\ [][ProcessNext]_processVars
-----------------------------------------------------------------------------
\* "Events are exact only when the process belongs to a registered wrapper root's
\* observed subtree" (docs/architecture/capture.md:31-32): what is recorded for a
\* session descends from the agent it spawned, but for two reuses of a pid between
\* polls: the root's by another process, and an outsider's, whose exit is then
\* recorded, by a descendant (processes.rs:71-118).
ExactIsOwned ==
    \A e \in recordedOf :
        \/ e.session \in reused
        \/ e.key \in descent[e.session]
        \/ e.action = "exit" /\ \E k \in descent[e.session] : k.pid = e.key.pid

\* A root that lived through a poll made while it was registered has its start
\* recorded, whichever of the poll and the registration came first
\* (coordinator.rs:920-970).
RootRecorded ==
    \A s \in active :
        stage = "idle" /\ registered[s] # NoPid /\ polled[s] = registered[s]
            /\ root[s] \in Keys(known)
            => ProcessEvent(s, root[s], "start") \in recordedOf

ProcessesSound == ExactIsOwned /\ RootRecorded

\* "The daemon tracks ... process lifecycle" (docs/architecture/capture.md:29-31): a
\* process whose start is recorded and that is gone by a poll has its exit recorded,
\* unless the root is gone as well.  is_descendant looks among the processes of the
\* new poll, where one that exited is not found.
ExitsRecorded ==
    \A s \in active, k \in UNION {descent[t] : t \in Wrapped} :
        stage = "idle" /\ s \notin reused /\ root[s] \in Keys(known) /\ k \notin Keys(known)
            /\ ProcessEvent(s, k, "start") \in recordedOf
            => ProcessEvent(s, k, "exit") \in recordedOf
=============================================================================
