-------------------------- MODULE WrapperCoordinator --------------------------
(***************************************************************************)
(* The wrapper lifecycle of one project root                               *)
(* (crates/agenttraceback-daemon/src/coordinator.rs): prepare_wrapper and  *)
(* complete_wrapper of any number of sessions, step by step between their  *)
(* awaits, the project's observations, and the watcher task of each        *)
(* observation.  Roots are independent of each other.  Rows, manifests and *)
(* Git boundaries are abstracted to the order in which they are stored;    *)
(* what an observation says about a file change is kept: the session it is *)
(* attributed to at high confidence, or None when it is unattributed.      *)
(***************************************************************************)
EXTENDS Naturals, Sequences, FiniteSets

CONSTANTS
    Sessions,           \* wrapper sessions, each prepared at most once
    Changes,            \* file changes under the project root, each once
    None,               \* no session
    MaxObservations,    \* bound on the ProjectObservations created
    FlushCapacity,      \* capacity of the flush channel, 4 in the code
    Modes               \* the circumstances the coordinator may run in

Observations == 1..MaxObservations
NoObservation == 0

Preparing == {"observed", "captured", "created", "saved", "joined", "activated"}
Completing == {"draining", "flushing", "leaving", "unmapping", "ending",
               "posting", "finalizing", "closing"}
Fallible == {"idle", "observed", "captured", "created", "activated",
             "ending", "posting", "finalizing", "closing"}
Points == {"idle", "running", "complete", "failed"} \cup Preparing \cup Completing

ASSUME NoneAssumption == None \notin Sessions
ASSUME BoundsAssumption == MaxObservations \in Nat /\ FlushCapacity \in Nat \ {0}
\* failures: the points at which an awaited call may fail; serialized: no
\* prepare overlaps a completion; timely: a watcher that serves flushes does so
\* within the two seconds that a completion waits; changes: those that are made.
Mode == [failures : SUBSET Fallible, serialized : BOOLEAN, timely : BOOLEAN,
         changes : SUBSET Changes]
ASSUME ModesAssumption == Modes \subseteq Mode

VARIABLES
    mode,       \* the circumstances, which do not change
    at,         \* at[s]: where prepare_wrapper or complete_wrapper of s stands
    held,       \* held[s]: the observation prepare found or created
    creator,    \* the sessions whose prepare created the observation
    drains,     \* drains[s]: the observation complete found in the map
    mapped,     \* projects: the observation of the root, or none
    obs,        \* the ProjectObservations
    finalized,  \* sessions whose chain has a root
    writers,    \* writers[c]: the sessions whose agent ran when c was made
    made,       \* the changes made so far
    recorded,   \* ingested file events: the change and its attribution
    dropped     \* changes a watcher was notified of and never recorded

vars == <<mode, at, held, creator, drains, mapped, obs, finalized, writers, made,
          recorded, dropped>>
lifecycle == <<mode, at, held, creator, drains, mapped, finalized>>
evidence == <<writers, made, recorded, dropped>>

Observation ==
    [sessions  : SUBSET Sessions,       \* the set of active session ids
     cancelled : BOOLEAN,
     flushes   : Seq(Sessions),         \* the flush channel
     watcher   : {"none", "spawned", "watching", "emitting", "ingesting",
                  "failed", "stopped"},
     backlog   : SUBSET Changes,        \* delivered to the watcher, not drained
     batch     : SUBSET Changes,        \* drained, not yet emitted
     current   : SUBSET Changes,        \* the change being ingested, if any
     claim     : Sessions \cup {None},  \* the session it is attributed to
     ack       : Sessions \cup {None}]  \* whose flush the batch answers

NewObservation ==
    [sessions |-> {}, cancelled |-> FALSE, flushes |-> <<>>, watcher |-> "none",
     backlog |-> {}, batch |-> {}, current |-> {}, claim |-> None, ack |-> None]

Running == {s \in Sessions : at[s] = "running"}
Settled == {s \in Sessions : at[s] \in {"idle", "complete", "failed"}}

\* The observations that prepares have created.
Created == {o \in Observations : \E s \in creator : held[s] = o}

Goto(s, from, to) ==
    /\ at[s] = from
    /\ at' = [at EXCEPT ![s] = to]

Init ==
    /\ mode \in Modes
    /\ at = [s \in Sessions |-> "idle"]
    /\ held = [s \in Sessions |-> NoObservation]
    /\ creator = {}
    /\ drains = [s \in Sessions |-> NoObservation]
    /\ mapped = NoObservation
    /\ obs = [o \in Observations |-> NewObservation]
    /\ finalized = {}
    /\ writers = [c \in Changes |-> {}]
    /\ made = {}
    /\ recorded = {}
    /\ dropped = {}
-----------------------------------------------------------------------------
(* prepare_wrapper *)

\* Under the lock of the map: the project's observation, or a new one.
Observe(s) ==
    /\ mode.serialized => \A t \in Sessions : at[t] \notin Completing
    /\ Goto(s, "idle", "observed")
    /\ \/ /\ mapped # NoObservation
          /\ held' = [held EXCEPT ![s] = mapped]
          /\ UNCHANGED <<creator, mapped>>
       \/ /\ mapped = NoObservation
          /\ \E o \in Observations \ Created :
                /\ \A p \in Observations \ Created : o <= p
                /\ mapped' = o
                /\ held' = [held EXCEPT ![s] = o]
          /\ creator' = creator \cup {s}
    /\ UNCHANGED <<mode, drains, obs, finalized, evidence>>

\* The baseline manifest, the session row, the snapshot with the Git boundary.
StoreBaseline(s) ==
    /\ \/ Goto(s, "observed", "captured")
       \/ Goto(s, "captured", "created")
       \/ Goto(s, "created", "saved")
    /\ UNCHANGED <<mode, held, creator, drains, mapped, obs, finalized, evidence>>

\* Faulty variant: the session is not counted in the observation.
JoinUncounted(s) ==
    /\ Goto(s, "saved", "joined")
    /\ obs' = IF s \in creator THEN [obs EXCEPT ![held[s]].watcher = "spawned"] ELSE obs
    /\ UNCHANGED <<mode, held, creator, drains, mapped, finalized, evidence>>

\* The session joins the observation it found, and only the prepare that
\* created the observation spawns its watcher.
Join(s) ==
    /\ Goto(s, "saved", "joined")
    /\ LET ob == obs[held[s]]
       IN obs' = [obs EXCEPT ![held[s]] =
                    [ob EXCEPT !.sessions = ob.sessions \cup {s},
                               !.watcher = IF s \in creator THEN "spawned" ELSE ob.watcher]]
    /\ UNCHANGED <<mode, held, creator, drains, mapped, finalized, evidence>>

\* The entry in the active sessions, then the start event and the response,
\* upon which the CLI launches the agent.
Launch(s) ==
    /\ \/ Goto(s, "joined", "activated")
       \/ Goto(s, "activated", "running")
    /\ UNCHANGED <<mode, held, creator, drains, mapped, obs, finalized, evidence>>

\* The early return with the error of an awaited call: nothing is undone.
Fail(s) ==
    /\ at[s] \in mode.failures
    /\ at' = [at EXCEPT ![s] = "failed"]
    /\ UNCHANGED <<mode, held, creator, drains, mapped, obs, finalized, evidence>>
-----------------------------------------------------------------------------
(* complete_wrapper *)

\* The agent has exited; the project is looked up again, by its key.
Complete(s) ==
    /\ mode.serialized => \A t \in Sessions : at[t] \notin Preparing
    /\ Goto(s, "running", IF mapped = NoObservation THEN "ending" ELSE "draining")
    /\ drains' = [drains EXCEPT ![s] = mapped]
    /\ UNCHANGED <<mode, held, creator, mapped, obs, finalized, evidence>>

\* Faulty variant: the watcher is not asked.
SkipFlush(s) ==
    /\ Goto(s, "draining", "leaving")
    /\ UNCHANGED <<mode, held, creator, drains, mapped, obs, finalized, evidence>>

\* The flush request waits for room in the channel; the send fails when the
\* watcher is gone.
RequestFlush(s) ==
    /\ \/ /\ Goto(s, "draining", "leaving")
          /\ obs[drains[s]].watcher = "stopped"
          /\ UNCHANGED obs
       \/ /\ Goto(s, "draining", "flushing")
          /\ obs[drains[s]].watcher # "stopped"
          /\ Len(obs[drains[s]].flushes) < FlushCapacity
          /\ obs' = [obs EXCEPT ![drains[s]].flushes = Append(@, s)]
    /\ UNCHANGED <<mode, held, creator, drains, mapped, finalized, evidence>>

\* Faulty variant: the wait ends only when the watcher is gone.
AwaitFlush(s) ==
    /\ Goto(s, "flushing", "leaving")
    /\ obs[drains[s]].watcher = "stopped"
    /\ UNCHANGED <<mode, held, creator, drains, mapped, obs, finalized, evidence>>

\* The wait ends without an acknowledgement, after two seconds or because the
\* watcher is gone; its request stays in the channel.
FlushUnanswered(s) ==
    /\ Goto(s, "flushing", "leaving")
    /\ mode.timely => obs[drains[s]].watcher \in {"none", "failed", "stopped"}
    /\ UNCHANGED <<mode, held, creator, drains, mapped, obs, finalized, evidence>>

\* The last session cancels the watcher and goes on to clear the map.
Leave(s) ==
    /\ at[s] = "leaving"
    /\ LET ob == obs[drains[s]]
           left == ob.sessions \ {s}
       IN /\ obs' = [obs EXCEPT ![drains[s]] =
                       [ob EXCEPT !.sessions = left,
                                  !.cancelled = ob.cancelled \/ left = {}]]
          /\ at' = [at EXCEPT ![s] = IF left = {} THEN "unmapping" ELSE "ending"]
    /\ UNCHANGED <<mode, held, creator, drains, mapped, finalized, evidence>>

\* The entry of the root is removed, whichever observation it is by now.
Unmap(s) ==
    /\ Goto(s, "unmapping", "ending")
    /\ mapped' = NoObservation
    /\ UNCHANGED <<mode, held, creator, drains, obs, finalized, evidence>>

\* The end event; the final manifest and Git boundary; the chain root, which
\* is left to the importer for agents that have an adapter; the session row.
StoreEnd(s) ==
    /\ \/ Goto(s, "ending", "posting") /\ UNCHANGED finalized
       \/ Goto(s, "posting", "finalizing") /\ UNCHANGED finalized
       \/ /\ Goto(s, "finalizing", "closing")
          /\ \/ finalized' = finalized \cup {s}
             \/ UNCHANGED finalized
       \/ Goto(s, "closing", "complete") /\ UNCHANGED finalized
    /\ UNCHANGED <<mode, held, creator, drains, mapped, obs, evidence>>
-----------------------------------------------------------------------------
(* The watcher task of an observation *)

\* The native watcher starts and takes the flush channel, or a recorder gap is
\* recorded and the task returns.
Watch(o) ==
    /\ obs[o].watcher = "spawned"
    /\ \E w \in {"watching", "failed"} : obs' = [obs EXCEPT ![o].watcher = w]
    /\ UNCHANGED <<lifecycle, evidence>>

\* drain_now: what has been delivered becomes the batch to emit.
Drained(ob, flushes, ack) ==
    [ob EXCEPT !.watcher = "emitting", !.batch = ob.backlog, !.backlog = {},
               !.flushes = flushes, !.ack = ack]

Tick(o) ==
    /\ obs[o].watcher = "watching"
    /\ obs[o].backlog # {}
    /\ obs' = [obs EXCEPT ![o] = Drained(obs[o], obs[o].flushes, None)]
    /\ UNCHANGED <<lifecycle, evidence>>

ServeFlush(o) ==
    /\ obs[o].watcher = "watching"
    /\ obs[o].flushes # <<>>
    /\ obs' = [obs EXCEPT ![o] =
                 Drained(obs[o], Tail(obs[o].flushes), Head(obs[o].flushes))]
    /\ UNCHANGED <<lifecycle, evidence>>

\* Faulty variant: one of several sessions is credited.
SomeOwner(sessions) ==
    IF sessions = {} THEN None ELSE CHOOSE s \in sessions : TRUE

\* The session of a file event: the only one in the observation, if it is one.
SoleOwner(sessions) ==
    IF Cardinality(sessions) = 1 THEN CHOOSE s \in sessions : TRUE ELSE None

\* emit_file_event reads the sessions, releases their lock ...
Attribute(o) ==
    /\ obs[o].watcher = "emitting"
    /\ \E c \in obs[o].batch :
         LET ob == obs[o]
         IN obs' = [obs EXCEPT ![o] =
                      [ob EXCEPT !.watcher = "ingesting", !.current = {c},
                                 !.batch = ob.batch \ {c},
                                 !.claim = SoleOwner(ob.sessions)]]
    /\ UNCHANGED <<lifecycle, evidence>>

\* ... and awaits the pipeline, where a finalized chain refuses the event.
Ingest(o) ==
    /\ obs[o].watcher = "ingesting"
    /\ LET refused == obs[o].claim \in finalized
       IN /\ recorded' = recorded \cup {[change |-> c, session |-> obs[o].claim] :
                                          c \in IF refused THEN {} ELSE obs[o].current}
          /\ dropped' = dropped \cup {[change |-> c, by |-> o] :
                                         c \in IF refused THEN obs[o].current ELSE {}}
    /\ obs' = [obs EXCEPT ![o] = [obs[o] EXCEPT !.watcher = "emitting", !.current = {},
                                                !.claim = None]]
    /\ UNCHANGED <<lifecycle, writers, made>>

\* The batch is done and the flush it answers is acknowledged.
EndBatch(o) ==
    /\ obs[o].watcher = "emitting"
    /\ obs[o].batch = {}
    /\ LET s == obs[o].ack
       IN at' = IF s \in {t \in Sessions : at[t] = "flushing"}
                THEN [at EXCEPT ![s] = "leaving"] ELSE at
    /\ obs' = [obs EXCEPT ![o] = [obs[o] EXCEPT !.watcher = "watching", !.ack = None]]
    /\ UNCHANGED <<mode, held, creator, drains, mapped, finalized, evidence>>

\* A cancelled task ends between two batches and drops what it has not drained.
Stop(o) ==
    /\ obs[o].watcher = "watching"
    /\ obs[o].cancelled
    /\ dropped' = dropped \cup {[change |-> c, by |-> o] : c \in obs[o].backlog}
    /\ obs' = [obs EXCEPT ![o] = [obs[o] EXCEPT !.watcher = "stopped", !.backlog = {},
                                                !.flushes = <<>>]]
    /\ UNCHANGED <<lifecycle, writers, made, recorded>>

\* Somebody changes a file; every installed watcher is notified.
Change(c) ==
    /\ c \in mode.changes \ made
    /\ made' = made \cup {c}
    /\ writers' = [writers EXCEPT ![c] = Running]
    /\ obs' = [o \in Observations |->
                 IF obs[o].watcher \in {"watching", "emitting", "ingesting"}
                 THEN [obs[o] EXCEPT !.backlog = obs[o].backlog \cup {c}] ELSE obs[o]]
    /\ UNCHANGED <<lifecycle, recorded, dropped>>

Prepare(s) == Observe(s) \/ StoreBaseline(s) \/ Join(s) \/ Launch(s)
Finish(s) == RequestFlush(s) \/ FlushUnanswered(s) \/ Leave(s) \/ Unmap(s) \/ StoreEnd(s)
Watcher(o) == Watch(o) \/ Tick(o) \/ ServeFlush(o) \/ Attribute(o) \/ Ingest(o) \/ EndBatch(o)

Next ==
    \/ \E s \in Sessions : Prepare(s) \/ Fail(s) \/ Complete(s) \/ Finish(s)
    \/ \E o \in Observations : Watcher(o) \/ Stop(o)
    \/ \E c \in Changes : Change(c)

Spec == Init /\ [][Next]_vars

\* A spawned task is polled while it has something to do.  Whether an agent is
\* started, exits or writes is up to the user.
Fairness ==
    /\ \A s \in Sessions : WF_vars(StoreBaseline(s) \/ Join(s) \/ Launch(s)) /\ WF_vars(Finish(s))
    /\ \A o \in Observations : WF_vars(Watcher(o)) /\ WF_vars(ServeFlush(o)) /\ WF_vars(Stop(o))

FairSpec == Spec /\ Fairness
-----------------------------------------------------------------------------
(* Correctness *)

\* Ambiguous activity is never linked to an agent: a change attributed to s
\* at high confidence was made while no agent but that of s was running,
\* although attribution looks at the sessions when the change is drained and
\* not when it is made.
NeverFalselyLinked ==
    \A r \in recorded : r.session # None => writers[r.change] \subseteq {r.session}

\* A watcher observes each active project root: while an agent runs, some
\* observation that is not cancelled has its watcher, has recorded that the
\* watcher could not start, or has its creator still on the way to spawn it.
ActiveRootIsWatched ==
    Running # {} => \E o \in Observations :
        /\ ~obs[o].cancelled
        /\ \/ obs[o].watcher \notin {"none", "stopped"}
           \/ \E s \in creator : held[s] = o /\ at[s] \in Preparing

(* Both hold, and more, when prepares and completions take turns, watchers    *)
(* are prompt and no call fails between the creation of an observation and    *)
(* the last session's leaving it.                                             *)

Undisturbed ==
    /\ mode.serialized /\ mode.timely
    /\ mode.failures \subseteq {"ending", "posting", "finalizing", "closing"}

\* Undisturbed, attribution is never false.
AttributionSound == Undisturbed => NeverFalselyLinked

\* Undisturbed, no agent runs without a watcher.
RunningIsWatched == Undisturbed => ActiveRootIsWatched

\* Completion flushes before it finalizes: once the chain of s has its root,
\* no change made while its agent ran waits in the watcher of its observation.
FlushedBeforeFinalized == Undisturbed =>
    \A s \in finalized :
        LET ob == obs[held[s]]
        IN \A c \in ob.backlog \cup ob.batch \cup ob.current : s \notin writers[c]

\* A watcher drops no change it was notified of while the agent of one of its
\* sessions ran: not with what a cancelled watcher leaves undrained, and not at
\* a chain that was finalized between attribution and ingestion.
NothingDropped == Undisturbed =>
    \A d \in dropped : \A s \in writers[d.change] : held[s] # d.by

\* Undisturbed, all that was observed while the agent of a session ran is in its
\* chain when the chain is closed, or was observed for another session.
ObservedIsStored == FlushedBeforeFinalized /\ NothingDropped

(* Liveness *)

\* Nobody will ever take requests from the flush channel of o, which stays open with
\* the observation: its watcher could not start, or the prepare that was to spawn it
\* failed before.
Unserved(o) ==
    \/ obs[o].watcher = "failed"
    \/ obs[o].watcher = "none" /\ \A s \in creator : held[s] = o => at[s] = "failed"

\* The completion of s waits without a timeout for room in a full channel of that kind.
Hangs(s) ==
    /\ at[s] = "draining"
    /\ Unserved(drains[s])
    /\ Len(obs[drains[s]].flushes) >= FlushCapacity

\* Every completion comes to an end, whatever overlaps or fails, unless it is one that
\* hangs: requests of completions that timed out stay in a channel nobody serves, and
\* the first that finds no room waits for ever.  However late, slow, shared or
\* cancelled a watcher is, it lets all others through.
CompletionTerminates ==
    \A s \in Sessions : at[s] \in Completing ~> at[s] \in {"complete", "failed"} \/ Hangs(s)

\* Undisturbed, when the last session is through, its observation is released
\* and its watcher ends.
ObservationReleased ==
    Undisturbed /\ Settled = Sessions ~>
        \/ Settled # Sessions
        \/ mapped = NoObservation /\ \A o \in Observations :
              obs[o].watcher \in {"none", "failed", "stopped"}

\* Every completion ends or hangs at a full channel nobody serves, and undisturbed
\* nothing of the sessions outlives them.
SessionsEnd == CompletionTerminates /\ ObservationReleased
=============================================================================
