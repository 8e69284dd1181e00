----------------------------- MODULE WrapperProofs -----------------------------
(***************************************************************************)
(* The wrapper's two models, which share no state.  First the daemon's     *)
(* coordinator: why no agent runs unwatched, no change is credited to the  *)
(* wrong agent and none is lost, as long as prepares and completions take  *)
(* turns, the watchers are prompt and no call fails before the observation *)
(* is left (Undisturbed): for any number of sessions, changes and          *)
(* observations and any capacity of the flush channel.                     *)
(*                                                                         *)
(* Then what runs of the command store, for any number of runs, files,     *)
(* contents, chunks and circumstances: the records of a session whose      *)
(* agent was launched or that is complete have all they must have, they    *)
(* are backed by stored content, and a complete session has all the output *)
(* of its agent.  The argument goes from the blob store, which never loses *)
(* what it holds, over the requests that fill the rows and the command     *)
(* that makes them, to the transcript.                                     *)
(***************************************************************************)
EXTENDS WrapperCoordinator, WrapperRun, FiniteSetTheorems, SequenceTheorems, TLAPS

-----------------------------------------------------------------------------
(* The coordinator *)

\* Where a session is counted in its observation, and where it has seen its flush
\* answered or has nothing left to flush.
Inside == {"joined", "activated", "running", "draining", "flushing", "leaving"}
Flushed == {"leaving", "unmapping", "ending", "posting", "finalizing", "closing",
            "complete", "failed"}

\* What an observation has been told of and not yet passed on.
Pending(ob) == ob.backlog \cup ob.batch \cup ob.current

TypeOK ==
    /\ mode \in Mode
    /\ at \in [Sessions -> Points]
    /\ held \in [Sessions -> Observations \cup {NoObservation}]
    /\ creator \in SUBSET Sessions
    /\ drains \in [Sessions -> Observations \cup {NoObservation}]
    /\ mapped \in Observations \cup {NoObservation}
    /\ obs \in [Observations -> Observation]
    /\ finalized \in SUBSET Sessions
    /\ writers \in [Changes -> SUBSET Sessions]
    /\ made \in SUBSET Changes
    /\ recorded \in SUBSET [change : Changes, session : Sessions \cup {None}]
    /\ dropped \in SUBSET [change : Changes, by : Observations]
    /\ \A s \in Sessions : at[s] \in Preparing => held[s] \in Observations
    /\ \A s \in Sessions : at[s] \in {"draining", "flushing", "leaving"} =>
        drains[s] \in Observations

\* A prepare and a completion are never under way together.
TakingTurns == \A s, t \in Sessions : ~(at[s] \in Preparing /\ at[t] \in Completing)

\* A session holds an observation that a prepare created, and each is created once.
Holding ==
    /\ \A s \in creator : at[s] # "idle"
    /\ \A s, t \in creator : held[s] = held[t] => s = t
    /\ \A s \in Sessions : at[s] # "idle" => held[s] \in Created
    /\ \A s \in finalized : at[s] \in {"closing", "complete", "failed"}

\* From its prepare until it has left, a session's observation is the one in the map,
\* and its completion drains that one.
Mapping ==
    /\ mapped # NoObservation => mapped \in Created
    /\ \A s \in Sessions : at[s] \in Preparing \cup {"running", "draining", "flushing",
                                                    "leaving", "unmapping"} =>
        mapped # NoObservation /\ held[s] = mapped
    /\ \A s \in Sessions : at[s] \in {"draining", "flushing", "leaving", "unmapping"} =>
        drains[s] = held[s]

\* An observation counts exactly the sessions between their joining and leaving.
Counting == \A o \in Observations : \A s \in Sessions :
    s \in obs[o].sessions <=> held[s] = o /\ at[s] \in Inside

\* An observation is cancelled when the last session has left it, and that session
\* takes it out of the map; whatever is out of the map is cancelled.
Cancelling ==
    /\ \A o \in Observations : obs[o].cancelled =>
        /\ o \in Created /\ obs[o].sessions = {}
        /\ o = mapped => \E s \in Sessions : at[s] = "unmapping"
    /\ \A o \in Created : o # mapped => obs[o].cancelled
    /\ \A s \in Sessions : at[s] = "unmapping" =>
        obs[held[s]].cancelled /\ obs[held[s]].sessions = {}
    /\ \A s, t \in Sessions : at[s] = "unmapping" /\ at[t] = "unmapping" => s = t

\* A watcher is spawned when the session that created the observation joins it, ends
\* only when it is cancelled, and holds changes only while it lives.
Watching ==
    /\ \A o \in Observations :
        /\ obs[o].watcher # "none" => o \in Created
        /\ obs[o].watcher = "stopped" => obs[o].cancelled
        /\ obs[o].watcher # "ingesting" => obs[o].current = {}
        /\ obs[o].watcher \notin {"emitting", "ingesting"} => obs[o].batch = {}
        /\ obs[o].watcher \in {"none", "spawned", "failed", "stopped"} => obs[o].backlog = {}
        /\ Pending(obs[o]) \subseteq made
    /\ \A s \in creator :
        obs[held[s]].watcher = "none" <=> at[s] \in {"observed", "captured", "created", "saved"}

\* A flush is asked for by a session of the observation that runs no more.
Asking == \A o \in Observations :
    /\ \A i \in 1..Len(obs[o].flushes) :
        LET s == obs[o].flushes[i] IN held[s] = o /\ at[s] \in {"flushing"} \cup Flushed
    /\ \A s \in Sessions : obs[o].ack = s =>
        /\ held[s] = o /\ at[s] \in {"flushing"} \cup Flushed
        /\ \A c \in obs[o].backlog : s \notin writers[c]

\* Whose agent ran when a pending change was made is still in the observation, not
\* yet flushed, unless it was in another one; then this one is cancelled.
Covering ==
    /\ \A c \in made : \A s \in writers[c] :
          at[s] \in {"running", "draining", "flushing"} \cup Flushed
    /\ \A o \in Observations : \A c \in Pending(obs[o]) : \A s \in writers[c] :
        IF held[s] = o THEN at[s] \in {"running", "draining", "flushing"} ELSE obs[o].cancelled

\* What is said of a change is sound from the moment it is decided.
Crediting ==
    /\ \A o \in Observations : \A c \in obs[o].current :
        obs[o].claim # None => writers[c] \subseteq {obs[o].claim}
    /\ \A o \in Observations : \A c \in obs[o].current : \A s \in writers[c] :
        held[s] = o => obs[o].claim \in {s, None}
    /\ \A r \in recorded : r.change \in made
    /\ \A d \in dropped : d.change \in made
    /\ NeverFalselyLinked
    /\ \A d \in dropped : \A s \in writers[d.change] : held[s] # d.by

Orderly ==
    /\ TakingTurns /\ Holding /\ Mapping /\ Counting /\ Cancelling
    /\ Watching /\ Asking /\ Covering /\ Crediting

\* The observations count finitely many sessions: they come and go one by one.
Finite == \A o \in Observations : IsFiniteSet(obs[o].sessions)

\* The inductive invariant.
CoordinationInv == TypeOK /\ Finite /\ (Undisturbed => Orderly)
-----------------------------------------------------------------------------
(* Types *)

\* A session of a file event is the only one of the observation, or none.
LEMMA SoleOwnerIs ==
    ASSUME NEW S, IsFiniteSet(S), S \subseteq Sessions
    PROVE  /\ SoleOwner(S) \in Sessions \cup {None}
           /\ SoleOwner(S) # None => S = {SoleOwner(S)}
<1>1. CASE Cardinality(S) = 1
  <2>1. PICK x : S = {x}
    BY <1>1, FS_Singleton
  <2>2. SoleOwner(S) = CHOOSE s \in S : TRUE
    BY <1>1 DEF SoleOwner
  <2> QED
    BY <2>1, <2>2
<1>2. CASE Cardinality(S) # 1
  BY <1>2 DEF SoleOwner
<1> QED
  BY <1>1, <1>2

LEMMA TypeInit == Init => TypeOK
<1> SUFFICES ASSUME Init PROVE TypeOK
  OBVIOUS
<1>1. NewObservation \in Observation
  BY DEF NewObservation, Observation
<1> QED
  BY <1>1, ModesAssumption DEF Init, TypeOK, Points, Preparing

\* A session joins the observation it holds.
LEMMA JoinEffect ==
    ASSUME TypeOK, NEW s \in Sessions, Join(s)
    PROVE  /\ TypeOK'
           /\ \A p \in Observations : p # held[s] => obs'[p] = obs[p]
           /\ obs'[held[s]].sessions = obs[held[s]].sessions \cup {s}
           /\ (s \in creator => obs'[held[s]].watcher = "spawned")
           /\ (s \notin creator => obs'[held[s]].watcher = obs[held[s]].watcher)
           /\ obs'[held[s]].cancelled = obs[held[s]].cancelled
           /\ obs'[held[s]].flushes = obs[held[s]].flushes
           /\ obs'[held[s]].backlog = obs[held[s]].backlog
           /\ obs'[held[s]].batch = obs[held[s]].batch
           /\ obs'[held[s]].current = obs[held[s]].current
           /\ obs'[held[s]].claim = obs[held[s]].claim
           /\ obs'[held[s]].ack = obs[held[s]].ack
<1> DEFINE b == obs[held[s]]
           w == IF s \in creator THEN "spawned" ELSE b.watcher
           ob == [b EXCEPT !.sessions = b.sessions \cup {s}, !.watcher = w]
<1>1. obs' = [obs EXCEPT ![held[s]] = ob]
  BY DEF Join
<1>2. held[s] \in Observations /\ b \in Observation
  BY DEF TypeOK, Join, RequestFlush, Leave, Goto, Preparing
<1>3. ob = [b EXCEPT !.sessions = b.sessions \cup {s}, !.watcher = w]
  OBVIOUS
<1>4. w \in {b.watcher, "spawned"}
  OBVIOUS
<1>5. /\ s \in creator => w = "spawned"
      /\ s \notin creator => w = b.watcher
  OBVIOUS
<1> HIDE DEF b, ob, w
<1>6. /\ ob \in Observation
      /\ ob.sessions = b.sessions \cup {s}
      /\ ob.watcher = w
      /\ ob.cancelled = b.cancelled /\ ob.flushes = b.flushes
      /\ ob.backlog = b.backlog /\ ob.batch = b.batch
      /\ ob.current = b.current /\ ob.claim = b.claim
      /\ ob.ack = b.ack
  BY <1>2, <1>3, <1>4 DEF Observation, Drained
<1>7. /\ obs' \in [Observations -> Observation]
      /\ \A q \in Observations : q # held[s] => obs'[q] = obs[q]
      /\ obs'[held[s]] = ob
  BY <1>1, <1>2, <1>6 DEF TypeOK
<1>8. TypeOK'
  <2>1. at' \in [Sessions -> Points]
    BY DEF Join, Goto, TypeOK, Points, Preparing
  <2>2. /\ \A t \in Sessions : at'[t] \in Preparing => held'[t] \in Observations
        /\ \A t \in Sessions : at'[t] \in {"draining", "flushing", "leaving"} =>
              drains'[t] \in Observations
    BY DEF Join, Goto, evidence, TypeOK, Preparing
  <2> QED
    BY <1>7, <2>1, <2>2 DEF Join, evidence, TypeOK
<1> QED
  BY <1>5, <1>6, <1>7, <1>8 DEF b

\* A session asks for a flush of the observation it drains.
LEMMA RequestEffect ==
    ASSUME TypeOK, NEW s \in Sessions, RequestFlush(s), at'[s] = "flushing"
    PROVE  /\ TypeOK'
           /\ \A p \in Observations : p # drains[s] => obs'[p] = obs[p]
           /\ obs'[drains[s]].flushes = Append(obs[drains[s]].flushes, s)
           /\ obs'[drains[s]].sessions = obs[drains[s]].sessions
           /\ obs'[drains[s]].cancelled = obs[drains[s]].cancelled
           /\ obs'[drains[s]].watcher = obs[drains[s]].watcher
           /\ obs'[drains[s]].backlog = obs[drains[s]].backlog
           /\ obs'[drains[s]].batch = obs[drains[s]].batch
           /\ obs'[drains[s]].current = obs[drains[s]].current
           /\ obs'[drains[s]].claim = obs[drains[s]].claim
           /\ obs'[drains[s]].ack = obs[drains[s]].ack
<1> DEFINE b == obs[drains[s]]
           fl == Append(b.flushes, s)
           ob == [b EXCEPT !.flushes = fl]
<1>1. obs' = [obs EXCEPT ![drains[s]] = ob]
  <2>1. at' = [at EXCEPT ![s] = "flushing"]
    BY DEF RequestFlush, Goto, TypeOK
  <2>2. at[s] = "draining" /\ s \in DOMAIN at
    BY DEF RequestFlush, Goto, TypeOK
  <2>3. ~(at' = [at EXCEPT ![s] = "leaving"])
    BY <2>1, <2>2
  <2> QED
    BY <2>3 DEF RequestFlush, Goto
<1>2. drains[s] \in Observations /\ b \in Observation
  BY DEF TypeOK, Join, RequestFlush, Leave, Goto, Preparing
<1>3. ob = [b EXCEPT !.flushes = fl]
  OBVIOUS
<1>4. fl \in Seq(Sessions)
  BY <1>2 DEF Observation
<1>5. fl = Append(b.flushes, s)
  OBVIOUS
<1> HIDE DEF b, ob, fl
<1>6. /\ ob \in Observation
      /\ ob.flushes = fl
      /\ ob.sessions = b.sessions /\ ob.cancelled = b.cancelled
      /\ ob.watcher = b.watcher /\ ob.backlog = b.backlog
      /\ ob.batch = b.batch /\ ob.current = b.current
      /\ ob.claim = b.claim /\ ob.ack = b.ack
  BY <1>2, <1>3, <1>4 DEF Observation, Drained
<1>7. /\ obs' \in [Observations -> Observation]
      /\ \A q \in Observations : q # drains[s] => obs'[q] = obs[q]
      /\ obs'[drains[s]] = ob
  BY <1>1, <1>2, <1>6 DEF TypeOK
<1>8. TypeOK'
  <2>1. at' \in [Sessions -> Points]
    BY DEF RequestFlush, Goto, TypeOK, Points, Completing
  <2>2. /\ \A t \in Sessions : at'[t] \in Preparing => held'[t] \in Observations
        /\ \A t \in Sessions : at'[t] \in {"draining", "flushing", "leaving"} =>
              drains'[t] \in Observations
    BY DEF RequestFlush, Goto, evidence, TypeOK, Preparing
  <2> QED
    BY <1>7, <2>1, <2>2 DEF RequestFlush, evidence, TypeOK
<1> QED
  BY <1>5, <1>6, <1>7, <1>8 DEF b

\* A session leaves the observation it drains.
LEMMA LeaveEffect ==
    ASSUME TypeOK, NEW s \in Sessions, Leave(s)
    PROVE  /\ TypeOK'
           /\ \A p \in Observations : p # drains[s] => obs'[p] = obs[p]
           /\ obs'[drains[s]].sessions = obs[drains[s]].sessions \ {s}
           /\ (obs'[drains[s]].cancelled <=> obs[drains[s]].cancelled
                                             \/ obs[drains[s]].sessions \ {s} = {})
           /\ obs'[drains[s]].flushes = obs[drains[s]].flushes
           /\ obs'[drains[s]].watcher = obs[drains[s]].watcher
           /\ obs'[drains[s]].backlog = obs[drains[s]].backlog
           /\ obs'[drains[s]].batch = obs[drains[s]].batch
           /\ obs'[drains[s]].current = obs[drains[s]].current
           /\ obs'[drains[s]].claim = obs[drains[s]].claim
           /\ obs'[drains[s]].ack = obs[drains[s]].ack
<1> DEFINE b == obs[drains[s]]
           left == b.sessions \ {s}
           gone == b.cancelled \/ left = {}
           ob == [b EXCEPT !.sessions = left, !.cancelled = gone]
<1>1. obs' = [obs EXCEPT ![drains[s]] = ob]
  BY DEF Leave
<1>2. drains[s] \in Observations /\ b \in Observation
  BY DEF TypeOK, Join, RequestFlush, Leave, Goto, Preparing
<1>3. ob = [b EXCEPT !.sessions = left, !.cancelled = gone]
  OBVIOUS
<1>4. gone \in BOOLEAN /\ left \in SUBSET Sessions
  BY <1>2 DEF Observation
<1>5. /\ gone <=> b.cancelled \/ left = {}
      /\ left = b.sessions \ {s}
  OBVIOUS
<1> HIDE DEF b, ob, left, gone
<1>6. /\ ob \in Observation
      /\ ob.sessions = left
      /\ ob.cancelled = gone
      /\ ob.flushes = b.flushes /\ ob.watcher = b.watcher
      /\ ob.backlog = b.backlog /\ ob.batch = b.batch
      /\ ob.current = b.current /\ ob.claim = b.claim
      /\ ob.ack = b.ack
  BY <1>2, <1>3, <1>4 DEF Observation, Drained
<1>7. /\ obs' \in [Observations -> Observation]
      /\ \A q \in Observations : q # drains[s] => obs'[q] = obs[q]
      /\ obs'[drains[s]] = ob
  BY <1>1, <1>2, <1>6 DEF TypeOK
<1>8. TypeOK'
  <2>1. at' \in [Sessions -> Points]
    BY DEF Leave, TypeOK, Points, Completing
  <2>2. /\ \A t \in Sessions : at'[t] \in Preparing => held'[t] \in Observations
        /\ \A t \in Sessions : at'[t] \in {"draining", "flushing", "leaving"} =>
              drains'[t] \in Observations
    BY DEF Leave, Goto, evidence, TypeOK, Preparing
  <2> QED
    BY <1>7, <2>1, <2>2 DEF Leave, evidence, TypeOK
<1> QED
  BY <1>5, <1>6, <1>7, <1>8 DEF b

\* A watcher starts, or records that it cannot.
LEMMA WatchEffect ==
    ASSUME TypeOK, NEW o \in Observations, Watch(o)
    PROVE  /\ TypeOK'
           /\ \A p \in Observations : p # o => obs'[p] = obs[p]
           /\ obs'[o].watcher \in {"watching", "failed"}
           /\ obs'[o].sessions = obs[o].sessions /\ obs'[o].cancelled = obs[o].cancelled
           /\ obs'[o].flushes = obs[o].flushes /\ obs'[o].backlog = obs[o].backlog
           /\ obs'[o].batch = obs[o].batch /\ obs'[o].current = obs[o].current
           /\ obs'[o].claim = obs[o].claim /\ obs'[o].ack = obs[o].ack
<1>1. PICK w \in {"watching", "failed"} : obs' = [obs EXCEPT ![o].watcher = w]
  BY DEF Watch
<1> DEFINE b == obs[o]
           ob == [b EXCEPT !.watcher = w]
<1>2. obs' = [obs EXCEPT ![o] = ob]
  BY <1>1
<1>3. o \in Observations /\ b \in Observation
  BY DEF TypeOK, Join, RequestFlush, Leave, Goto, Preparing
<1>4. ob = [b EXCEPT !.watcher = w]
  OBVIOUS
<1> HIDE DEF b, ob
<1>5. /\ ob \in Observation
      /\ ob.watcher \in {"watching", "failed"}
      /\ ob.sessions = b.sessions /\ ob.cancelled = b.cancelled
      /\ ob.flushes = b.flushes /\ ob.backlog = b.backlog
      /\ ob.batch = b.batch /\ ob.current = b.current
      /\ ob.claim = b.claim /\ ob.ack = b.ack
  BY <1>3, <1>4 DEF Observation, Drained
<1>6. /\ obs' \in [Observations -> Observation]
      /\ \A q \in Observations : q # o => obs'[q] = obs[q]
      /\ obs'[o] = ob
  BY <1>2, <1>3, <1>5 DEF TypeOK
<1>7. TypeOK'
  BY <1>6 DEF Watch, lifecycle, evidence, TypeOK
<1> QED
  BY <1>5, <1>6, <1>7 DEF b

\* A watcher drains what it has been told of.
LEMMA TickEffect ==
    ASSUME TypeOK, NEW o \in Observations, Tick(o)
    PROVE  /\ TypeOK'
           /\ \A p \in Observations : p # o => obs'[p] = obs[p]
           /\ obs'[o].watcher = "emitting"
           /\ obs'[o].batch = obs[o].backlog
           /\ obs'[o].backlog = {}
           /\ obs'[o].ack = None
           /\ obs'[o].sessions = obs[o].sessions /\ obs'[o].cancelled = obs[o].cancelled
           /\ obs'[o].flushes = obs[o].flushes /\ obs'[o].current = obs[o].current
           /\ obs'[o].claim = obs[o].claim
<1> DEFINE b == obs[o]
           ob == Drained(b, b.flushes, None)
<1>1. obs' = [obs EXCEPT ![o] = ob]
  BY DEF Tick
<1>2. o \in Observations /\ b \in Observation
  BY DEF TypeOK, Join, RequestFlush, Leave, Goto, Preparing
<1>3. ob = Drained(b, b.flushes, None)
  OBVIOUS
<1>4. b.flushes \in Seq(Sessions)
  BY <1>2 DEF Observation
<1> HIDE DEF b, ob
<1>5. /\ ob \in Observation
      /\ ob.watcher = "emitting"
      /\ ob.batch = b.backlog
      /\ ob.backlog = {}
      /\ ob.ack = None
      /\ ob.sessions = b.sessions /\ ob.cancelled = b.cancelled
      /\ ob.flushes = b.flushes /\ ob.current = b.current
      /\ ob.claim = b.claim
  BY <1>2, <1>3, <1>4 DEF Observation, Drained
<1>6. /\ obs' \in [Observations -> Observation]
      /\ \A q \in Observations : q # o => obs'[q] = obs[q]
      /\ obs'[o] = ob
  BY <1>1, <1>2, <1>5 DEF TypeOK
<1>7. TypeOK'
  BY <1>6 DEF Tick, lifecycle, evidence, TypeOK
<1> QED
  BY <1>5, <1>6, <1>7 DEF b

\* A watcher drains what it has been told of because a session asked for it.
LEMMA ServeEffect ==
    ASSUME TypeOK, NEW o \in Observations, ServeFlush(o)
    PROVE  /\ TypeOK'
           /\ \A p \in Observations : p # o => obs'[p] = obs[p]
           /\ obs'[o].watcher = "emitting"
           /\ obs'[o].batch = obs[o].backlog
           /\ obs'[o].backlog = {}
           /\ obs'[o].flushes = Tail(obs[o].flushes)
           /\ obs'[o].ack = Head(obs[o].flushes)
           /\ obs'[o].sessions = obs[o].sessions /\ obs'[o].cancelled = obs[o].cancelled
           /\ obs'[o].current = obs[o].current /\ obs'[o].claim = obs[o].claim
<1> DEFINE b == obs[o]
           fl == Tail(b.flushes)
           a == Head(b.flushes)
           ob == Drained(b, fl, a)
<1>1. obs' = [obs EXCEPT ![o] = ob]
  BY DEF ServeFlush
<1>2. o \in Observations /\ b \in Observation
  BY DEF TypeOK, Join, RequestFlush, Leave, Goto, Preparing
<1>3. ob = Drained(b, fl, a)
  OBVIOUS
<1>4. fl \in Seq(Sessions) /\ a \in Sessions \cup {None}
  BY <1>2 DEF ServeFlush, Observation
<1>5. fl = Tail(b.flushes) /\ a = Head(b.flushes)
  OBVIOUS
<1> HIDE DEF b, ob, fl, a
<1>6. /\ ob \in Observation
      /\ ob.watcher = "emitting"
      /\ ob.batch = b.backlog
      /\ ob.backlog = {}
      /\ ob.flushes = fl
      /\ ob.ack = a
      /\ ob.sessions = b.sessions /\ ob.cancelled = b.cancelled
      /\ ob.current = b.current /\ ob.claim = b.claim
  BY <1>2, <1>3, <1>4 DEF Observation, Drained
<1>7. /\ obs' \in [Observations -> Observation]
      /\ \A q \in Observations : q # o => obs'[q] = obs[q]
      /\ obs'[o] = ob
  BY <1>1, <1>2, <1>6 DEF TypeOK
<1>8. TypeOK'
  BY <1>7 DEF ServeFlush, lifecycle, evidence, TypeOK
<1> QED
  BY <1>5, <1>6, <1>7, <1>8 DEF b

\* A change of the batch is attributed.
LEMMA AttributeEffect ==
    ASSUME TypeOK, NEW o \in Observations, IsFiniteSet(obs[o].sessions),
           NEW c \in obs[o].batch, Attribute(o),
           obs' = [obs EXCEPT ![o] =
                     [obs[o] EXCEPT !.watcher = "ingesting", !.current = {c},
                                    !.batch = obs[o].batch \ {c},
                                    !.claim = SoleOwner(obs[o].sessions)]]
    PROVE  /\ TypeOK'
           /\ \A p \in Observations : p # o => obs'[p] = obs[p]
           /\ obs'[o].watcher = "ingesting"
           /\ obs'[o].batch = obs[o].batch \ {c}
           /\ obs'[o].current = {c}
           /\ obs'[o].claim = SoleOwner(obs[o].sessions)
           /\ obs'[o].sessions = obs[o].sessions /\ obs'[o].cancelled = obs[o].cancelled
           /\ obs'[o].flushes = obs[o].flushes /\ obs'[o].backlog = obs[o].backlog
           /\ obs'[o].ack = obs[o].ack
<1> DEFINE b == obs[o]
           k == SoleOwner(b.sessions)
           ob == [b EXCEPT !.watcher = "ingesting", !.current = {c}, !.batch = b.batch \ {c},
                           !.claim = k]
<1>1. obs' = [obs EXCEPT ![o] = ob]
  OBVIOUS
<1>2. o \in Observations /\ b \in Observation
  BY DEF TypeOK, Join, RequestFlush, Leave, Goto, Preparing
<1>3. ob = [b EXCEPT !.watcher = "ingesting", !.current = {c}, !.batch = b.batch \ {c},
                     !.claim = k]
  OBVIOUS
<1>4. k \in Sessions \cup {None} /\ c \in b.batch
  BY <1>2, SoleOwnerIs DEF Observation
<1>5. k = SoleOwner(b.sessions)
  OBVIOUS
<1> HIDE DEF b, ob, k
<1>6. /\ ob \in Observation
      /\ ob.watcher = "ingesting"
      /\ ob.batch = b.batch \ {c}
      /\ ob.current = {c}
      /\ ob.claim = k
      /\ ob.sessions = b.sessions /\ ob.cancelled = b.cancelled
      /\ ob.flushes = b.flushes /\ ob.backlog = b.backlog
      /\ ob.ack = b.ack
  BY <1>2, <1>3, <1>4 DEF Observation, Drained
<1>7. /\ obs' \in [Observations -> Observation]
      /\ \A q \in Observations : q # o => obs'[q] = obs[q]
      /\ obs'[o] = ob
  BY <1>1, <1>2, <1>6 DEF TypeOK
<1>8. TypeOK'
  BY <1>7 DEF Attribute, lifecycle, evidence, TypeOK
<1> QED
  BY <1>5, <1>6, <1>7, <1>8 DEF b

\* The change has been ingested, or refused.
LEMMA IngestEffect ==
    ASSUME TypeOK, NEW o \in Observations, Ingest(o)
    PROVE  /\ TypeOK'
           /\ \A p \in Observations : p # o => obs'[p] = obs[p]
           /\ obs'[o].watcher = "emitting"
           /\ obs'[o].current = {}
           /\ obs'[o].claim = None
           /\ obs'[o].sessions = obs[o].sessions /\ obs'[o].cancelled = obs[o].cancelled
           /\ obs'[o].flushes = obs[o].flushes /\ obs'[o].backlog = obs[o].backlog
           /\ obs'[o].batch = obs[o].batch /\ obs'[o].ack = obs[o].ack
<1> DEFINE b == obs[o]
           ob == [b EXCEPT !.watcher = "emitting", !.current = {}, !.claim = None]
<1>1. obs' = [obs EXCEPT ![o] = ob]
  BY DEF Ingest
<1>2. o \in Observations /\ b \in Observation
  BY DEF TypeOK, Join, RequestFlush, Leave, Goto, Preparing
<1>3. ob = [b EXCEPT !.watcher = "emitting", !.current = {}, !.claim = None]
  OBVIOUS
<1> HIDE DEF b, ob
<1>4. /\ ob \in Observation
      /\ ob.watcher = "emitting"
      /\ ob.current = {}
      /\ ob.claim = None
      /\ ob.sessions = b.sessions /\ ob.cancelled = b.cancelled
      /\ ob.flushes = b.flushes /\ ob.backlog = b.backlog
      /\ ob.batch = b.batch /\ ob.ack = b.ack
  BY <1>2, <1>3 DEF Observation, Drained
<1>5. /\ obs' \in [Observations -> Observation]
      /\ \A q \in Observations : q # o => obs'[q] = obs[q]
      /\ obs'[o] = ob
  BY <1>1, <1>2, <1>4 DEF TypeOK
<1>6. TypeOK'
  <2>1. obs[o].claim \in Sessions \cup {None} /\ obs[o].current \in SUBSET Changes
    BY <1>2 DEF b, Observation
  <2>2. /\ recorded' \in SUBSET [change : Changes, session : Sessions \cup {None}]
        /\ dropped' \in SUBSET [change : Changes, by : Observations]
    BY <2>1 DEF Ingest, TypeOK
  <2> QED
    BY <1>5, <2>2 DEF Ingest, lifecycle, TypeOK
<1> QED
  BY <1>4, <1>5, <1>6 DEF b

\* A batch ends.
LEMMA EndBatchEffect ==
    ASSUME TypeOK, NEW o \in Observations, EndBatch(o)
    PROVE  /\ TypeOK'
           /\ \A p \in Observations : p # o => obs'[p] = obs[p]
           /\ obs'[o].watcher = "watching"
           /\ obs'[o].ack = None
           /\ obs'[o].sessions = obs[o].sessions /\ obs'[o].cancelled = obs[o].cancelled
           /\ obs'[o].flushes = obs[o].flushes /\ obs'[o].backlog = obs[o].backlog
           /\ obs'[o].batch = obs[o].batch /\ obs'[o].current = obs[o].current
           /\ obs'[o].claim = obs[o].claim
<1> DEFINE b == obs[o]
           ob == [b EXCEPT !.watcher = "watching", !.ack = None]
<1>1. obs' = [obs EXCEPT ![o] = ob]
  BY DEF EndBatch
<1>2. o \in Observations /\ b \in Observation
  BY DEF TypeOK, Join, RequestFlush, Leave, Goto, Preparing
<1>3. ob = [b EXCEPT !.watcher = "watching", !.ack = None]
  OBVIOUS
<1> HIDE DEF b, ob
<1>4. /\ ob \in Observation
      /\ ob.watcher = "watching"
      /\ ob.ack = None
      /\ ob.sessions = b.sessions /\ ob.cancelled = b.cancelled
      /\ ob.flushes = b.flushes /\ ob.backlog = b.backlog
      /\ ob.batch = b.batch /\ ob.current = b.current
      /\ ob.claim = b.claim
  BY <1>2, <1>3 DEF Observation, Drained
<1>5. /\ obs' \in [Observations -> Observation]
      /\ \A q \in Observations : q # o => obs'[q] = obs[q]
      /\ obs'[o] = ob
  BY <1>1, <1>2, <1>4 DEF TypeOK
<1>6. TypeOK'
  <2>1. at' \in [Sessions -> Points]
    BY DEF EndBatch, TypeOK, Points, Completing
  <2>2. /\ \A t \in Sessions : at'[t] \in Preparing => held'[t] \in Observations
        /\ \A t \in Sessions : at'[t] \in {"draining", "flushing", "leaving"} =>
              drains'[t] \in Observations
    BY DEF EndBatch, Goto, evidence, TypeOK, Preparing
  <2> QED
    BY <1>5, <2>1, <2>2 DEF EndBatch, evidence, TypeOK
<1> QED
  BY <1>4, <1>5, <1>6 DEF b

\* A cancelled watcher ends.
LEMMA StopEffect ==
    ASSUME TypeOK, NEW o \in Observations, Stop(o)
    PROVE  /\ TypeOK'
           /\ \A p \in Observations : p # o => obs'[p] = obs[p]
           /\ obs'[o].watcher = "stopped"
           /\ obs'[o].backlog = {}
           /\ obs'[o].flushes = <<>>
           /\ obs'[o].sessions = obs[o].sessions /\ obs'[o].cancelled = obs[o].cancelled
           /\ obs'[o].batch = obs[o].batch /\ obs'[o].current = obs[o].current
           /\ obs'[o].claim = obs[o].claim /\ obs'[o].ack = obs[o].ack
<1> DEFINE b == obs[o]
           fl == <<>>
           ob == [b EXCEPT !.watcher = "stopped", !.backlog = {}, !.flushes = fl]
<1>1. obs' = [obs EXCEPT ![o] = ob]
  BY DEF Stop
<1>2. o \in Observations /\ b \in Observation
  BY DEF TypeOK, Join, RequestFlush, Leave, Goto, Preparing
<1>3. ob = [b EXCEPT !.watcher = "stopped", !.backlog = {}, !.flushes = fl]
  OBVIOUS
<1>4. fl \in Seq(Sessions)
  OBVIOUS
<1>5. fl = <<>>
  OBVIOUS
<1> HIDE DEF b, ob, fl
<1>6. /\ ob \in Observation
      /\ ob.watcher = "stopped"
      /\ ob.backlog = {}
      /\ ob.flushes = fl
      /\ ob.sessions = b.sessions /\ ob.cancelled = b.cancelled
      /\ ob.batch = b.batch /\ ob.current = b.current
      /\ ob.claim = b.claim /\ ob.ack = b.ack
  BY <1>2, <1>3, <1>4 DEF Observation, Drained
<1>7. /\ obs' \in [Observations -> Observation]
      /\ \A q \in Observations : q # o => obs'[q] = obs[q]
      /\ obs'[o] = ob
  BY <1>1, <1>2, <1>6 DEF TypeOK
<1>8. TypeOK'
  <2>1. obs[o].backlog \in SUBSET Changes
    BY <1>2 DEF b, Observation
  <2>2. dropped' \in SUBSET [change : Changes, by : Observations]
    BY <2>1 DEF Stop, TypeOK
  <2> QED
    BY <1>7, <2>2 DEF Stop, lifecycle, TypeOK
<1> QED
  BY <1>5, <1>6, <1>7, <1>8 DEF b

\* Somebody changes a file, and every watcher that lives is told.
LEMMA ChangeEffect ==
    ASSUME TypeOK, NEW c \in Changes, Change(c)
    PROVE  /\ TypeOK'
           /\ \A o \in Observations :
                /\ obs'[o].backlog \subseteq obs[o].backlog \cup {c}
                /\ obs'[o].watcher \notin {"watching", "emitting", "ingesting"} =>
                     obs'[o].backlog = obs[o].backlog
                /\ obs'[o].sessions = obs[o].sessions /\ obs'[o].cancelled = obs[o].cancelled
                /\ obs'[o].flushes = obs[o].flushes /\ obs'[o].watcher = obs[o].watcher
                /\ obs'[o].batch = obs[o].batch /\ obs'[o].current = obs[o].current
                /\ obs'[o].claim = obs[o].claim /\ obs'[o].ack = obs[o].ack
<1>1. writers' \in [Changes -> SUBSET Sessions]
  BY DEF Change, Running, TypeOK
<1>2. ASSUME NEW o \in Observations
      PROVE  /\ obs'[o] \in Observation
             /\ obs'[o].backlog \subseteq obs[o].backlog \cup {c}
             /\ obs'[o].watcher \notin {"watching", "emitting", "ingesting"} =>
                  obs'[o].backlog = obs[o].backlog
             /\ obs'[o].sessions = obs[o].sessions /\ obs'[o].cancelled = obs[o].cancelled
             /\ obs'[o].flushes = obs[o].flushes /\ obs'[o].watcher = obs[o].watcher
             /\ obs'[o].batch = obs[o].batch /\ obs'[o].current = obs[o].current
             /\ obs'[o].claim = obs[o].claim /\ obs'[o].ack = obs[o].ack
  <2> DEFINE b == obs[o]
             ob == [b EXCEPT !.backlog = b.backlog \cup {c}]
  <2>1. b \in Observation
    BY DEF TypeOK
  <2>2. ob = [b EXCEPT !.backlog = b.backlog \cup {c}]
    OBVIOUS
  <2>3. obs'[o] = IF b.watcher \in {"watching", "emitting", "ingesting"} THEN ob ELSE b
    BY DEF Change
  <2> HIDE DEF b, ob
  <2>4. /\ ob \in Observation /\ ob.backlog = b.backlog \cup {c}
        /\ ob.sessions = b.sessions /\ ob.cancelled = b.cancelled
        /\ ob.flushes = b.flushes /\ ob.watcher = b.watcher
        /\ ob.batch = b.batch /\ ob.current = b.current
        /\ ob.claim = b.claim /\ ob.ack = b.ack
    BY <2>1, <2>2 DEF Observation
  <2>5. CASE b.watcher \in {"watching", "emitting", "ingesting"}
    <3>1. obs'[o] = ob
      BY <2>3, <2>5
    <3> QED
      BY <3>1, <2>4, <2>5 DEF b
  <2>6. CASE b.watcher \notin {"watching", "emitting", "ingesting"}
    <3>1. obs'[o] = b
      BY <2>3, <2>6
    <3> QED
      BY <3>1, <2>1 DEF b
  <2> QED
    BY <2>5, <2>6
<1>3. obs' \in [Observations -> Observation]
  BY <1>2 DEF Change
<1>4. made' \in SUBSET Changes
  BY DEF Change, TypeOK
<1>5. TypeOK'
  BY <1>1, <1>3, <1>4 DEF Change, lifecycle, TypeOK
<1> QED
  BY <1>2, <1>5

\* The other steps of a session leave the observations alone.
LEMMA MoveEffect ==
    ASSUME TypeOK, NEW s \in Sessions, obs' = obs,
           \/ Observe(s) \/ StoreBaseline(s) \/ Launch(s) \/ Fail(s) \/ Complete(s)
           \/ RequestFlush(s) \/ FlushUnanswered(s) \/ Unmap(s) \/ StoreEnd(s)
    PROVE  TypeOK'
<1>1. CASE Observe(s)
  BY <1>1 DEF Observe, Goto, evidence, TypeOK, Points, Preparing
<1>2. CASE StoreBaseline(s)
  BY <1>2 DEF StoreBaseline, Goto, evidence, TypeOK, Points, Preparing
<1>3. CASE Launch(s)
  BY <1>3 DEF Launch, Goto, evidence, TypeOK, Points, Preparing
<1>4. CASE Fail(s)
  BY <1>4 DEF Fail, evidence, TypeOK, Points, Preparing
<1>5. CASE Complete(s)
  BY <1>5 DEF Complete, Goto, evidence, TypeOK, Points, Completing, Preparing
<1>6. CASE RequestFlush(s)
  BY <1>6 DEF RequestFlush, Goto, evidence, TypeOK, Points, Completing, Preparing
<1>7. CASE FlushUnanswered(s)
  BY <1>7 DEF FlushUnanswered, Goto, evidence, TypeOK, Points, Completing, Preparing
<1>8. CASE Unmap(s)
  BY <1>8 DEF Unmap, Goto, evidence, TypeOK, Points, Completing, Preparing
<1>9. CASE StoreEnd(s)
  BY <1>9 DEF StoreEnd, Goto, evidence, TypeOK, Points, Completing, Preparing
<1> QED
  BY <1>1, <1>2, <1>3, <1>4, <1>5, <1>6, <1>7, <1>8, <1>9

\* Types and finiteness are kept by every step.
LEMMA TypeStep ==
    ASSUME TypeOK, Finite, [Next]_vars
    PROVE  TypeOK' /\ Finite'
<1>1. ASSUME NEW p \in Observations, NEW s,
             \A q \in Observations : q # p => obs'[q] = obs[q],
             \/ obs'[p].sessions = obs[p].sessions
             \/ obs'[p].sessions = obs[p].sessions \cup {s}
             \/ obs'[p].sessions = obs[p].sessions \ {s}
      PROVE  Finite'
  BY <1>1, FS_AddElement, FS_RemoveElement DEF Finite
<1>2. CASE UNCHANGED vars
  BY <1>2 DEF vars, TypeOK, Finite
<1>3. ASSUME NEW s \in Sessions, Prepare(s) \/ Fail(s) \/ Complete(s) \/ Finish(s)
      PROVE  TypeOK' /\ Finite'
  <2>1. CASE Join(s)
    <3>1. held[s] \in Observations
      BY <2>1 DEF Join, Goto, TypeOK, Preparing
    <3> QED
      BY <2>1, <3>1, <1>1, JoinEffect
  <2>2. CASE Leave(s)
    <3>1. drains[s] \in Observations
      BY <2>2 DEF Leave, TypeOK
    <3> QED
      BY <2>2, <3>1, <1>1, LeaveEffect
  <2>3. CASE RequestFlush(s) /\ at'[s] = "flushing"
    <3>1. drains[s] \in Observations
      BY <2>3 DEF RequestFlush, Goto, TypeOK
    <3> QED
      BY <2>3, <3>1, <1>1, RequestEffect
  <2>4. CASE ~(Join(s) \/ Leave(s) \/ (RequestFlush(s) /\ at'[s] = "flushing"))
    <3>1. /\ obs' = obs
          /\ \/ Observe(s) \/ StoreBaseline(s) \/ Launch(s) \/ Fail(s) \/ Complete(s)
             \/ RequestFlush(s) \/ FlushUnanswered(s) \/ Unmap(s) \/ StoreEnd(s)
      BY <1>3, <2>4 DEF Prepare, Finish, Observe, StoreBaseline, Launch, Fail, Complete,
         RequestFlush, FlushUnanswered, Unmap, StoreEnd, Goto, TypeOK
    <3> QED
      BY <3>1, MoveEffect DEF Finite
  <2> QED
    BY <2>1, <2>2, <2>3, <2>4
<1>4. ASSUME NEW o \in Observations, Watcher(o) \/ Stop(o)
      PROVE  TypeOK' /\ Finite'
  <2>1. CASE Watch(o)
    BY <2>1, <1>1, WatchEffect
  <2>2. CASE Tick(o)
    BY <2>2, <1>1, TickEffect
  <2>3. CASE ServeFlush(o)
    BY <2>3, <1>1, ServeEffect
  <2>4. CASE Attribute(o)
    <3>1. PICK c \in obs[o].batch :
            obs' = [obs EXCEPT ![o] =
                      [obs[o] EXCEPT !.watcher = "ingesting", !.current = {c},
                                     !.batch = obs[o].batch \ {c},
                                     !.claim = SoleOwner(obs[o].sessions)]]
      BY <2>4 DEF Attribute
    <3>2. IsFiniteSet(obs[o].sessions)
      BY DEF Finite
    <3> QED
      BY <2>4, <3>1, <3>2, <1>1, AttributeEffect
  <2>5. CASE Ingest(o)
    BY <2>5, <1>1, IngestEffect
  <2>6. CASE EndBatch(o)
    BY <2>6, <1>1, EndBatchEffect
  <2>7. CASE Stop(o)
    BY <2>7, <1>1, StopEffect
  <2> QED
    BY <1>4, <2>1, <2>2, <2>3, <2>4, <2>5, <2>6, <2>7 DEF Watcher
<1>5. ASSUME NEW c \in Changes, Change(c)
      PROVE  TypeOK' /\ Finite'
  BY <1>5, ChangeEffect DEF Finite
<1> QED
  BY <1>2, <1>3, <1>4, <1>5 DEF Next
-----------------------------------------------------------------------------
(* The steps *)

\* Storing a baseline disturbs nothing.
LEMMA BaselineMove ==
    ASSUME TypeOK, Orderly,
           NEW s \in Sessions, \A t \in Sessions : t # s => at'[t] = at[t],
           at[s] \in {"observed", "captured", "created"},
           at'[s] \in {"captured", "created", "saved"},
           UNCHANGED <<mode, held, creator, drains, mapped, obs, finalized, evidence>>
    PROVE  Orderly'
<1>1. /\ \A c \in made : writers[c] \subseteq Sessions
      /\ \A o \in Observations :
            /\ \A i \in 1..Len(obs[o].flushes) : obs[o].flushes[i] \in Sessions
            /\ \A c \in Pending(obs[o]) : writers[c] \subseteq Sessions
  BY DEF TypeOK, Pending, Observation
<1> USE <1>1 DEF TypeOK, Orderly, evidence
<1>2. TakingTurns'
  BY DEF TakingTurns, Preparing, Completing
<1>3. Holding'
  BY DEF Holding, Created
<1>4. Mapping'
  BY DEF Mapping, Created, Preparing
<1>5. Counting'
  BY DEF Counting, Inside
<1>6. Cancelling'
  BY DEF Cancelling, Created
<1>7. Watching'
  BY DEF Watching, Created, Pending
<1>8. Asking'
  BY DEF Asking, Flushed
<1>9. Covering'
  BY DEF Covering, Pending, Flushed
<1>10. Crediting'
  BY DEF Crediting, NeverFalselyLinked, Pending
<1> QED
  BY <1>2, <1>3, <1>4, <1>5, <1>6, <1>7, <1>8, <1>9, <1>10 DEF Orderly

\* Nor does the launch of an agent.
LEMMA LaunchMove ==
    ASSUME TypeOK, Orderly,
           NEW s \in Sessions, \A t \in Sessions : t # s => at'[t] = at[t],
           at[s] \in {"joined", "activated"}, at'[s] \in {"activated", "running"},
           UNCHANGED <<mode, held, creator, drains, mapped, obs, finalized, evidence>>
    PROVE  Orderly'
<1>1. /\ \A c \in made : writers[c] \subseteq Sessions
      /\ \A o \in Observations :
            /\ \A i \in 1..Len(obs[o].flushes) : obs[o].flushes[i] \in Sessions
            /\ \A c \in Pending(obs[o]) : writers[c] \subseteq Sessions
  BY DEF TypeOK, Pending, Observation
<1> USE <1>1 DEF TypeOK, Orderly, evidence
<1>2. TakingTurns'
  BY DEF TakingTurns, Preparing, Completing
<1>3. Holding'
  BY DEF Holding, Created
<1>4. Mapping'
  BY DEF Mapping, Created, Preparing
<1>5. Counting'
  BY DEF Counting, Inside
<1>6. Cancelling'
  BY DEF Cancelling, Created
<1>7. Watching'
  BY DEF Watching, Created, Pending
<1>8. Asking'
  BY DEF Asking, Flushed
<1>9. Covering'
  BY DEF Covering, Pending, Flushed
<1>10. Crediting'
  BY DEF Crediting, NeverFalselyLinked, Pending
<1> QED
  BY <1>2, <1>3, <1>4, <1>5, <1>6, <1>7, <1>8, <1>9, <1>10 DEF Orderly

\* Nor what a completion stores when it has left the observation.
LEMMA EndMove ==
    ASSUME TypeOK, Orderly,
           NEW s \in Sessions, \A t \in Sessions : t # s => at'[t] = at[t],
           at[s] \in {"ending", "posting", "finalizing", "closing"},
           at'[s] \in {"posting", "finalizing", "closing", "complete", "failed"},
           finalized' \subseteq finalized \cup {s},
           s \in finalized' => at'[s] \in {"closing", "complete", "failed"},
           UNCHANGED <<mode, held, creator, drains, mapped, obs, evidence>>
    PROVE  Orderly'
<1>1. /\ \A c \in made : writers[c] \subseteq Sessions
      /\ \A o \in Observations :
            /\ \A i \in 1..Len(obs[o].flushes) : obs[o].flushes[i] \in Sessions
            /\ \A c \in Pending(obs[o]) : writers[c] \subseteq Sessions
  BY DEF TypeOK, Pending, Observation
<1> USE <1>1 DEF TypeOK, Orderly, evidence
<1>2. TakingTurns'
  BY DEF TakingTurns, Preparing, Completing
<1>3. Holding'
  BY DEF Holding, Created
<1>4. Mapping'
  BY DEF Mapping, Created, Preparing
<1>5. Counting'
  BY DEF Counting, Inside
<1>6. Cancelling'
  BY DEF Cancelling, Created
<1>7. Watching'
  BY DEF Watching, Created, Pending
<1>8. Asking'
  BY DEF Asking, Flushed
<1>9. Covering'
  BY DEF Covering, Pending, Flushed
<1>10. Crediting'
  BY DEF Crediting, NeverFalselyLinked, Pending
<1> QED
  BY <1>2, <1>3, <1>4, <1>5, <1>6, <1>7, <1>8, <1>9, <1>10 DEF Orderly

\* A prepare finds the observation in the map.
LEMMA FindOrderly ==
    ASSUME TypeOK, Orderly, NEW s \in Sessions, at[s] = "idle",
           \A t \in Sessions : at[t] \notin Completing, mapped # NoObservation,
           at' = [at EXCEPT ![s] = "observed"], held' = [held EXCEPT ![s] = mapped],
           UNCHANGED <<mode, creator, drains, mapped, obs, finalized, evidence>>
    PROVE  Orderly'
<1>1. s \notin creator /\ mapped \in Created
  BY DEF Orderly, Holding, Mapping
<1>2. Created' = Created
  BY <1>1 DEF Created, TypeOK
<1>3. \A c \in made : s \notin writers[c]
  BY DEF Orderly, Covering, Flushed
<1>4. \A o \in Observations : Pending(obs[o]) \subseteq made
  BY DEF Orderly, Watching
<1> USE DEF TypeOK, Orderly, evidence, Preparing, Inside, Flushed
<1>5. TakingTurns'
  BY DEF TakingTurns, Preparing, Completing
<1>6. Holding'
  BY <1>1, <1>2 DEF Holding
<1>7. Mapping'
  BY <1>2 DEF Mapping
<1>8. Counting'
  BY DEF Counting, Inside
<1>9. Cancelling'
  BY <1>1, <1>2 DEF Cancelling, Mapping, Holding, Completing
<1>10. Watching'
  BY <1>1, <1>2 DEF Watching, Pending
<1>11. Asking'
  BY DEF Asking, Flushed
<1>12. Covering'
  BY <1>3, <1>4 DEF Covering, Pending
<1>13. Crediting'
  BY <1>3, <1>4 DEF Crediting, NeverFalselyLinked, Pending
<1> QED
  BY <1>5, <1>6, <1>7, <1>8, <1>9, <1>10, <1>11, <1>12, <1>13 DEF Orderly

\* A prepare creates the observation of a root that has none.
LEMMA CreateOrderly ==
    ASSUME TypeOK, Orderly, NEW s \in Sessions, at[s] = "idle",
           NEW o \in Observations \ Created,
           \A t \in Sessions : at[t] \notin Completing, mapped = NoObservation, mapped' = o,
           at' = [at EXCEPT ![s] = "observed"], held' = [held EXCEPT ![s] = o],
           creator' = creator \cup {s},
           UNCHANGED <<mode, drains, obs, finalized, evidence>>
    PROVE  Orderly'
<1>1. Created' = Created \cup {o}
  BY DEF Created, Orderly, Holding, TypeOK
<1>2. \A t \in Sessions : at[t] # "unmapping" /\ at'[t] # "unmapping"
  BY DEF Completing, TypeOK
<1>3. ~obs[o].cancelled /\ \A p \in Created : obs[p].cancelled
  BY DEF Created, Observations, NoObservation, Orderly, Cancelling
<1> USE DEF TypeOK, Orderly, evidence, Preparing, Inside, Flushed
<1>4. TakingTurns'
  BY DEF TakingTurns, Preparing, Completing
<1>5. Holding'
  BY <1>1 DEF Holding, Created
<1>6. Mapping'
  BY <1>1 DEF Mapping, Completing, Observations, NoObservation
<1>7. Counting'
  BY DEF Counting, Inside
<1>8. Cancelling'
  BY <1>1, <1>2, <1>3 DEF Cancelling
<1>9. Watching'
  BY <1>1 DEF Watching, Pending, Created, Holding
<1>10. Asking'
  BY DEF Asking, Flushed
<1>11. Covering'
  BY DEF Covering, Pending, Watching, Holding, Created
<1>12. Crediting'
  BY DEF Crediting, NeverFalselyLinked, Covering, Watching, Pending, Holding, Created
<1> QED
  BY <1>4, <1>5, <1>6, <1>7, <1>8, <1>9, <1>10, <1>11, <1>12 DEF Orderly

\* The agent of a session exits; the session is still counted.
LEMMA CompleteOrderly ==
    ASSUME TypeOK, Undisturbed, Orderly, NEW s \in Sessions, Complete(s)
    PROVE  Orderly'
<1>1. /\ at[s] = "running"
      /\ at' = [at EXCEPT ![s] = "draining"]
      /\ drains' = [drains EXCEPT ![s] = held[s]]
  BY DEF Complete, Goto, Orderly, Mapping
<1>2. \A t \in Sessions : at[t] \notin Preparing
  BY DEF Complete, Undisturbed
<1> USE <1>1 DEF Complete, TypeOK, Orderly, evidence
<1>3. TakingTurns'
  BY <1>2 DEF TakingTurns, Preparing, Completing
<1>4. Holding'
  BY DEF Holding, Created
<1>5. Mapping'
  BY DEF Mapping, Created, Preparing
<1>6. Counting'
  BY DEF Counting, Inside
<1>7. Cancelling'
  BY DEF Cancelling, Created
<1>8. Watching'
  BY DEF Watching, Created, Pending
<1>9. Asking'
  BY DEF Asking, Flushed
<1>10. Covering'
  BY DEF Covering, Pending, Flushed
<1>11. Crediting'
  BY DEF Crediting, NeverFalselyLinked, Pending
<1> QED
  BY <1>3, <1>4, <1>5, <1>6, <1>7, <1>8, <1>9, <1>10, <1>11 DEF Orderly

\* A session goes on to leave when its observation holds nothing that was made while
\* its agent ran.
LEMMA LeavingMove ==
    ASSUME TypeOK, Orderly, NEW s \in Sessions, \A t \in Sessions : t # s => at'[t] = at[t],
           at[s] \in {"draining", "flushing"}, at'[s] = "leaving",
           \A o \in Observations : held[s] = o =>
               \A c \in Pending(obs[o]) : s \notin writers[c],
           UNCHANGED <<mode, held, creator, drains, mapped, obs, finalized, evidence>>
    PROVE  Orderly'
<1>1. /\ \A c \in made : writers[c] \subseteq Sessions
      /\ \A o \in Observations :
            /\ \A i \in 1..Len(obs[o].flushes) : obs[o].flushes[i] \in Sessions
            /\ \A c \in Pending(obs[o]) : writers[c] \subseteq Sessions
  BY DEF TypeOK, Pending, Observation
<1> USE <1>1 DEF TypeOK, Orderly, evidence
<1>2. TakingTurns'
  BY DEF TakingTurns, Preparing, Completing
<1>3. Holding'
  BY DEF Holding, Created
<1>4. Mapping'
  BY DEF Mapping, Created, Preparing
<1>5. Counting'
  BY DEF Counting, Inside
<1>6. Cancelling'
  BY DEF Cancelling, Created
<1>7. Watching'
  BY DEF Watching, Created, Pending
<1>8. Asking'
  BY DEF Asking, Flushed
<1>9. Covering'
  BY DEF Covering, Pending, Flushed
<1>10. Crediting'
  BY DEF Crediting, NeverFalselyLinked, Pending
<1> QED
  BY <1>2, <1>3, <1>4, <1>5, <1>6, <1>7, <1>8, <1>9, <1>10 DEF Orderly

\* The last session takes the observation out of the map.
LEMMA UnmapOrderly ==
    ASSUME TypeOK, Orderly, NEW s \in Sessions, Unmap(s)
    PROVE  Orderly'
<1>1. /\ at[s] = "unmapping" /\ at' = [at EXCEPT ![s] = "ending"] /\ mapped' = NoObservation
      /\ held[s] = mapped /\ held[s] \in Observations
  BY DEF Unmap, Goto, Orderly, Mapping, TypeOK
<1>2. \A t \in Sessions : t # s =>
         at[t] \notin Preparing \cup {"running", "draining", "flushing", "leaving", "unmapping"}
  BY <1>1 DEF Orderly, Mapping, TakingTurns, Completing, Counting, Cancelling, Inside
<1> USE <1>1 DEF Unmap, TypeOK, Orderly, evidence
<1>3. TakingTurns'
  BY DEF TakingTurns, Preparing, Completing
<1>4. Holding'
  BY DEF Holding, Created
<1>5. Mapping'
  BY <1>2 DEF Mapping, Preparing
<1>6. Counting'
  BY DEF Counting, Inside
<1>7. Cancelling'
  BY <1>2 DEF Cancelling, Created, Observations, NoObservation
<1>8. Watching'
  BY DEF Watching, Created, Pending
<1>9. Asking'
  BY DEF Asking, Flushed
<1>10. Covering'
  BY DEF Covering, Pending, Flushed
<1>11. Crediting'
  BY DEF Crediting, NeverFalselyLinked, Pending
<1> QED
  BY <1>3, <1>4, <1>5, <1>6, <1>7, <1>8, <1>9, <1>10, <1>11 DEF Orderly

\* A session joins, and the watcher is spawned if its prepare created the observation.
LEMMA JoinOrderly ==
    ASSUME TypeOK, Orderly, NEW s \in Sessions, Join(s)
    PROVE  Orderly'
<1>1. /\ at[s] = "saved" /\ at' = [at EXCEPT ![s] = "joined"] /\ held[s] \in Observations
      /\ UNCHANGED <<mode, held, creator, drains, mapped, finalized, writers, made,
                     recorded, dropped>>
  BY DEF Join, Goto, evidence, TypeOK, Preparing
<1>2. \A p \in Observations :
        /\ p # held[s] => obs'[p].sessions = obs[p].sessions /\ obs'[p].watcher = obs[p].watcher
        /\ p = held[s] => obs'[p].sessions = obs[p].sessions \cup {s}
        /\ p = held[s] => obs'[p].watcher \in {"spawned", obs[p].watcher}
        /\ p = held[s] /\ s \in creator => obs'[p].watcher = "spawned"
        /\ obs'[p].cancelled = obs[p].cancelled /\ obs'[p].flushes = obs[p].flushes
        /\ obs'[p].backlog = obs[p].backlog /\ obs'[p].batch = obs[p].batch
        /\ obs'[p].current = obs[p].current /\ obs'[p].claim = obs[p].claim
        /\ obs'[p].ack = obs[p].ack
  BY JoinEffect
<1>3. ~obs[held[s]].cancelled /\ \A t \in Sessions : at[t] # "unmapping"
  BY <1>1 DEF Orderly, TakingTurns, Cancelling, Mapping, Preparing, Completing
<1>4. s \in creator => Pending(obs[held[s]]) = {} /\ obs[held[s]].watcher = "none"
  BY <1>1 DEF Orderly, Watching, Holding, Pending
<1>5. /\ Created' = Created /\ Created \subseteq Observations
      /\ \A t \in Sessions : at[t] # "idle" => held[t] \in Observations
      /\ \A t \in creator : held[t] \in Observations
  BY <1>1 DEF Created, Orderly, Holding, TypeOK
<1> USE <1>1, <1>2, <1>5 DEF TypeOK, Orderly
<1>6. TakingTurns'
  BY DEF TakingTurns, Preparing, Completing
<1>7. Holding'
  BY DEF Holding, Created
<1>8. Mapping'
  BY DEF Mapping, Created, Preparing
<1>9. Counting'
  BY DEF Counting, Inside
<1>10. Cancelling'
  BY <1>3 DEF Cancelling
<1>11. Watching'
  <2>1. ASSUME NEW p \in Observations
        PROVE  /\ obs'[p].watcher # "none" => p \in Created
               /\ obs'[p].watcher = "stopped" => obs'[p].cancelled
               /\ obs'[p].watcher # "ingesting" => obs'[p].current = {}
               /\ obs'[p].watcher \notin {"emitting", "ingesting"} => obs'[p].batch = {}
               /\ obs'[p].watcher \in {"none", "spawned", "failed", "stopped"}
                    => obs'[p].backlog = {}
               /\ Pending(obs'[p]) \subseteq made
    <3>1. CASE p # held[s]
      BY <3>1 DEF Watching, Pending
    <3>2. CASE p = held[s] /\ s \in creator
      BY <3>2, <1>4 DEF Watching, Pending, Holding
    <3>3. CASE p = held[s] /\ s \notin creator
      <4>1. obs'[p].watcher = obs[p].watcher
        BY <3>3, JoinEffect
      <4> QED
        BY <3>3, <4>1 DEF Watching, Pending
    <3> QED
      BY <3>1, <3>2, <3>3
  <2>2. ASSUME NEW t \in creator
        PROVE  obs'[held[t]].watcher = "none" <=>
                 at'[t] \in {"observed", "captured", "created", "saved"}
    <3>1. CASE t = s
      BY <3>1
    <3>2. CASE t # s /\ s \in creator
      BY <3>2 DEF Watching, Holding
    <3>3. CASE t # s /\ s \notin creator
      <4>1. obs'[held[s]].watcher = obs[held[s]].watcher
        BY <3>3, JoinEffect
      <4> QED
        BY <3>3, <4>1 DEF Watching, Holding
    <3> QED
      BY <3>1, <3>2, <3>3
  <2> QED
    BY <2>1, <2>2 DEF Watching
<1>12. Asking'
  BY DEF Asking, Flushed
<1>13. Covering'
  BY DEF Covering, Pending, Flushed
<1>14. Crediting'
  BY DEF Crediting, NeverFalselyLinked, Pending
<1> QED
  BY <1>6, <1>7, <1>8, <1>9, <1>10, <1>11, <1>12, <1>13, <1>14 DEF Orderly

\* A session asks for a flush.
LEMMA RequestOrderly ==
    ASSUME TypeOK, Orderly, NEW s \in Sessions, RequestFlush(s), at'[s] = "flushing"
    PROVE  Orderly'
<1>1. /\ at[s] = "draining" /\ at' = [at EXCEPT ![s] = "flushing"] /\ drains[s] \in Observations
      /\ held[s] = drains[s] /\ obs[drains[s]].flushes \in Seq(Sessions)
      /\ UNCHANGED <<mode, held, creator, drains, mapped, finalized, writers, made,
                     recorded, dropped>>
  <2>1. at[s] = "draining"
    BY DEF RequestFlush, Goto
  <2> QED
    BY <2>1 DEF RequestFlush, Goto, evidence, TypeOK, Orderly, Mapping, Observation
<1>2. \A p \in Observations :
        /\ p # held[s] => obs'[p].flushes = obs[p].flushes
        /\ p = held[s] => obs'[p].flushes = Append(obs[p].flushes, s)
        /\ obs'[p].sessions = obs[p].sessions /\ obs'[p].watcher = obs[p].watcher
        /\ obs'[p].cancelled = obs[p].cancelled
        /\ obs'[p].backlog = obs[p].backlog /\ obs'[p].batch = obs[p].batch
        /\ obs'[p].current = obs[p].current /\ obs'[p].claim = obs[p].claim
        /\ obs'[p].ack = obs[p].ack
  BY <1>1, RequestEffect
<1>3. /\ Created' = Created /\ Created \subseteq Observations
      /\ \A t \in Sessions : at[t] # "idle" => held[t] \in Observations
      /\ \A t \in creator : held[t] \in Observations
  BY <1>1 DEF Created, Orderly, Holding, TypeOK
<1> USE <1>1, <1>2, <1>3 DEF TypeOK, Orderly
<1>4. TakingTurns'
  BY DEF TakingTurns, Preparing, Completing
<1>5. Holding'
  BY DEF Holding, Created
<1>6. Mapping'
  BY DEF Mapping, Created, Preparing
<1>7. Counting'
  BY DEF Counting, Inside
<1>8. Cancelling'
  BY DEF Cancelling
<1>9. Watching'
  <2>1. \A p \in Observations : Pending(obs'[p]) = Pending(obs[p])
    BY DEF Pending
  <2>2. \A t \in creator : held[t] \in Observations /\ obs'[held[t]].watcher = obs[held[t]].watcher
    OBVIOUS
  <2>3. \A t \in Sessions : at'[t] \in {"observed", "captured", "created", "saved"}
                            <=> at[t] \in {"observed", "captured", "created", "saved"}
    BY DEF TypeOK
  <2>4. creator \subseteq Sessions /\ creator' = creator
    BY DEF TypeOK
  <2>5. \A p \in Observations :
          /\ obs'[p].watcher # "none" => p \in Created'
          /\ obs'[p].watcher = "stopped" => obs'[p].cancelled
          /\ obs'[p].watcher # "ingesting" => obs'[p].current = {}
          /\ obs'[p].watcher \notin {"emitting", "ingesting"} => obs'[p].batch = {}
          /\ obs'[p].watcher \in {"none", "spawned", "failed", "stopped"} => obs'[p].backlog = {}
          /\ Pending(obs'[p]) \subseteq made'
    BY <2>1 DEF Watching
  <2>6. \A t \in creator' : obs'[held'[t]].watcher = "none"
                           <=> at'[t] \in {"observed", "captured", "created", "saved"}
    BY <2>2, <2>3, <2>4 DEF Watching
  <2> QED
    BY ONLY <2>5, <2>6 DEF Watching
<1>10. Asking'
  <2>1. ASSUME NEW p \in Observations, NEW i \in 1..Len(obs'[p].flushes)
        PROVE  /\ held[obs'[p].flushes[i]] = p
               /\ at'[obs'[p].flushes[i]] \in {"flushing"} \cup Flushed
    <3>1. CASE p # held[s]
      BY <2>1, <3>1 DEF Asking, Flushed
    <3>2. CASE p = held[s] /\ i = Len(obs[p].flushes) + 1
      <4>1. obs'[p].flushes[i] = s
        BY <3>2, AppendProperties
      <4> QED
        BY <4>1, <3>2
    <3>3. CASE p = held[s] /\ i \in 1..Len(obs[p].flushes)
      BY <2>1, <3>3 DEF Asking, Flushed
    <3> QED
      BY <2>1, <3>1, <3>2, <3>3
  <2>2. \A p \in Observations : \A t \in Sessions : obs'[p].ack = t =>
          /\ held[t] = p /\ at'[t] \in {"flushing"} \cup Flushed
          /\ \A c \in obs'[p].backlog : t \notin writers[c]
    BY DEF Asking, Flushed
  <2> QED
    BY <2>1, <2>2 DEF Asking
<1>11. Covering'
  <2>1. \A c \in made : \A t \in writers[c] :
           at'[t] \in {"running", "draining", "flushing"} \cup Flushed
    BY DEF Covering, Flushed
  <2>2. ASSUME NEW p \in Observations, NEW c \in Pending(obs'[p]), NEW t \in writers[c]
        PROVE  /\ held[t] = p => at'[t] \in {"running", "draining", "flushing"}
               /\ held[t] # p => obs'[p].cancelled
    <3>1. c \in Pending(obs[p])
      BY DEF Pending
    <3> QED
      BY <3>1 DEF Covering, Flushed
  <2> QED
    BY <2>1, <2>2 DEF Covering
<1>12. Crediting'
  BY DEF Crediting, NeverFalselyLinked, Pending
<1> QED
  BY <1>4, <1>5, <1>6, <1>7, <1>8, <1>9, <1>10, <1>11, <1>12 DEF Orderly

\* A session leaves, and the last one cancels the watcher.
LEMMA LeaveOrderly ==
    ASSUME TypeOK, Orderly, NEW s \in Sessions, Leave(s)
    PROVE  Orderly'
<1>1. /\ at[s] = "leaving"
      /\ drains[s] \in Observations
      /\ held[s] = drains[s]
      /\ held[s] = mapped
      /\ s \in obs[held[s]].sessions
      /\ UNCHANGED <<mode, held, creator, drains, mapped, finalized, writers, made,
                     recorded, dropped>>
  BY DEF Leave, evidence, TypeOK, Orderly, Mapping, Counting, Inside
<1>2. \A p \in Observations :
        /\ p # held[s]
             => obs'[p].sessions = obs[p].sessions /\ obs'[p].cancelled = obs[p].cancelled
        /\ p = held[s] => obs'[p].sessions = obs[p].sessions \ {s}
        /\ p = held[s] => (obs'[p].cancelled <=> obs[p].cancelled \/ obs[p].sessions \ {s} = {})
        /\ obs'[p].flushes = obs[p].flushes /\ obs'[p].watcher = obs[p].watcher
        /\ obs'[p].backlog = obs[p].backlog /\ obs'[p].batch = obs[p].batch
        /\ obs'[p].current = obs[p].current /\ obs'[p].claim = obs[p].claim
        /\ obs'[p].ack = obs[p].ack
  <2>1. ASSUME NEW p \in Observations, p # held[s]
        PROVE  obs'[p] = obs[p]
    BY <1>1, <2>1, LeaveEffect
  <2>2. /\ obs'[held[s]].sessions = obs[held[s]].sessions \ {s}
        /\ obs'[held[s]].cancelled <=> obs[held[s]].cancelled
                                       \/ obs[held[s]].sessions \ {s} = {}
        /\ obs'[held[s]].flushes = obs[held[s]].flushes
        /\ obs'[held[s]].watcher = obs[held[s]].watcher
        /\ obs'[held[s]].backlog = obs[held[s]].backlog
        /\ obs'[held[s]].batch = obs[held[s]].batch
        /\ obs'[held[s]].current = obs[held[s]].current
        /\ obs'[held[s]].claim = obs[held[s]].claim
        /\ obs'[held[s]].ack = obs[held[s]].ack
    BY <1>1, LeaveEffect
  <2> QED
    BY <2>1, <2>2
<1>3. PICK to \in {"unmapping", "ending"} :
        /\ at' = [at EXCEPT ![s] = to]
        /\ to = "unmapping" <=> obs[held[s]].sessions \ {s} = {}
  BY <1>1 DEF Leave
<1>4. ~obs[held[s]].cancelled /\ \A t \in Sessions : at[t] # "unmapping"
  BY <1>1 DEF Orderly, Cancelling, Mapping
<1>5. /\ Created' = Created /\ Created \subseteq Observations
      /\ \A t \in Sessions : at[t] # "idle" => held[t] \in Observations
      /\ \A t \in creator : held[t] \in Observations
  BY <1>1 DEF Created, Orderly, Holding, TypeOK
<1> USE <1>1, <1>2, <1>3, <1>5 DEF TypeOK, Orderly
<1>6. TakingTurns'
  BY DEF TakingTurns, Preparing, Completing
<1>7. Holding'
  BY DEF Holding, Created
<1>8. Mapping'
  BY DEF Mapping, Created, Preparing
<1>9. Counting'
  BY DEF Counting, Inside
<1>10. Cancelling'
  <2>1. ASSUME NEW p \in Observations, obs'[p].cancelled
        PROVE  /\ p \in Created /\ obs'[p].sessions = {}
               /\ p = mapped => \E t \in Sessions : at'[t] = "unmapping"
    <3>1. CASE p = held[s]
      <4>1. obs[p].sessions \ {s} = {} /\ to = "unmapping"
        BY <2>1, <3>1, <1>4
      <4>2. at'[s] = "unmapping"
        BY <4>1
      <4> QED
        BY <4>1, <4>2, <3>1 DEF Mapping
    <3>2. CASE p # held[s]
      BY <2>1, <3>2 DEF Cancelling
    <3> QED
      BY <3>1, <3>2
  <2>2. \A p \in Created : p # mapped => obs'[p].cancelled
    BY DEF Cancelling
  <2>3. ASSUME NEW t \in Sessions, at'[t] = "unmapping"
        PROVE  t = s /\ obs'[held[t]].cancelled /\ obs'[held[t]].sessions = {}
    <3>1. t = s
      BY <2>3, <1>4
    <3> QED
      BY <2>3, <3>1
  <2> QED
    BY <2>1, <2>2, <2>3 DEF Cancelling
<1>11. Watching'
  BY DEF Watching, Pending
<1>12. Asking'
  BY DEF Asking, Flushed
<1>13. Covering'
  BY DEF Covering, Pending, Flushed
<1>14. Crediting'
  BY DEF Crediting, NeverFalselyLinked, Pending
<1> QED
  BY <1>6, <1>7, <1>8, <1>9, <1>10, <1>11, <1>12, <1>13, <1>14 DEF Orderly

\* A watcher starts, or records that it cannot.
LEMMA WatchOrderly ==
    ASSUME TypeOK, Orderly, NEW o \in Observations, Watch(o)
    PROVE  Orderly'
<1>1. /\ obs[o].watcher = "spawned"
      /\ UNCHANGED <<mode, at, held, creator, drains, mapped, finalized, writers, made,
                     recorded, dropped>>
  BY DEF Watch, lifecycle, evidence
<1>2. \A p \in Observations :
        /\ p # o => obs'[p].watcher = obs[p].watcher
        /\ p = o => obs'[p].watcher \in {"watching", "failed"}
        /\ obs'[p].sessions = obs[p].sessions /\ obs'[p].cancelled = obs[p].cancelled
        /\ obs'[p].flushes = obs[p].flushes /\ obs'[p].ack = obs[p].ack
        /\ obs'[p].backlog = obs[p].backlog /\ obs'[p].batch = obs[p].batch
        /\ obs'[p].current = obs[p].current /\ obs'[p].claim = obs[p].claim
  BY WatchEffect
<1>3. /\ Created' = Created /\ Created \subseteq Observations
      /\ \A t \in Sessions : at[t] # "idle" => held[t] \in Observations
      /\ \A t \in creator : held[t] \in Observations
  BY <1>1 DEF Created, Orderly, Holding, TypeOK
<1> USE <1>1, <1>2, <1>3 DEF TypeOK, Orderly
<1>4. TakingTurns'
  BY DEF TakingTurns, Preparing, Completing
<1>5. Holding'
  BY DEF Holding, Created
<1>6. Mapping'
  BY DEF Mapping, Created, Preparing
<1>7. Counting'
  BY DEF Counting, Inside
<1>8. Cancelling'
  BY DEF Cancelling
<1>9. Watching'
  BY DEF Watching, Pending
<1>10. Asking'
  BY DEF Asking, Flushed
<1>11. Covering'
  BY DEF Covering, Pending, Flushed
<1>12. Crediting'
  BY DEF Crediting, NeverFalselyLinked, Pending
<1> QED
  BY <1>4, <1>5, <1>6, <1>7, <1>8, <1>9, <1>10, <1>11, <1>12 DEF Orderly

\* A watcher drains what it has been told of.
LEMMA TickOrderly ==
    ASSUME TypeOK, Orderly, NEW o \in Observations, Tick(o)
    PROVE  Orderly'
<1>1. /\ obs[o].watcher = "watching"
      /\ UNCHANGED <<mode, at, held, creator, drains, mapped, finalized, writers, made,
                     recorded, dropped>>
  BY DEF Tick, lifecycle, evidence
<1>2. \A p \in Observations :
        /\ p # o => obs'[p] = obs[p]
        /\ p = o => /\ obs'[p].watcher = "emitting"
                   /\ obs'[p].batch = obs[p].backlog /\ obs'[p].backlog = {}
                   /\ obs'[p].flushes = obs[p].flushes /\ obs'[p].ack = None
        /\ obs'[p].sessions = obs[p].sessions /\ obs'[p].cancelled = obs[p].cancelled
        /\ obs'[p].current = obs[p].current /\ obs'[p].claim = obs[p].claim
  BY TickEffect
<1>3. /\ Created' = Created /\ Created \subseteq Observations
      /\ \A t \in Sessions : at[t] # "idle" => held[t] \in Observations
      /\ \A t \in creator : held[t] \in Observations
  BY <1>1 DEF Created, Orderly, Holding, TypeOK
<1> USE <1>1, <1>2, <1>3 DEF TypeOK, Orderly
<1>4. None \notin Sessions
  BY NoneAssumption
<1>5. TakingTurns'
  BY DEF TakingTurns, Preparing, Completing
<1>6. Holding'
  BY DEF Holding, Created
<1>7. Mapping'
  BY DEF Mapping, Created, Preparing
<1>8. Counting'
  BY DEF Counting, Inside
<1>9. Cancelling'
  BY DEF Cancelling
<1>10. Watching'
  BY DEF Watching, Pending
<1>11. Asking'
  BY <1>4 DEF Asking
<1>12. Covering'
  BY DEF Covering, Pending, Flushed
<1>13. Crediting'
  BY DEF Crediting, NeverFalselyLinked, Pending
<1> QED
  BY <1>5, <1>6, <1>7, <1>8, <1>9, <1>10, <1>11, <1>12, <1>13 DEF Orderly

\* A watcher drains what it has been told of because a session asked for it.
LEMMA ServeOrderly ==
    ASSUME TypeOK, Orderly, NEW o \in Observations, ServeFlush(o)
    PROVE  Orderly'
<1>1. /\ obs[o].watcher = "watching"
      /\ obs[o].flushes # <<>> /\ obs[o].flushes \in Seq(Sessions)
      /\ UNCHANGED <<mode, at, held, creator, drains, mapped, finalized, writers, made,
                     recorded, dropped>>
  BY DEF ServeFlush, lifecycle, evidence, TypeOK, Observation
<1>2. \A p \in Observations :
        /\ p # o => obs'[p] = obs[p]
        /\ p = o => /\ obs'[p].watcher = "emitting"
                   /\ obs'[p].batch = obs[p].backlog /\ obs'[p].backlog = {}
                   /\ obs'[p].flushes = Tail(obs[p].flushes)
                   /\ obs'[p].ack = Head(obs[p].flushes)
        /\ obs'[p].sessions = obs[p].sessions /\ obs'[p].cancelled = obs[p].cancelled
        /\ obs'[p].current = obs[p].current /\ obs'[p].claim = obs[p].claim
  BY ServeEffect
<1>3. /\ Created' = Created /\ Created \subseteq Observations
      /\ \A t \in Sessions : at[t] # "idle" => held[t] \in Observations
      /\ \A t \in creator : held[t] \in Observations
  BY <1>1 DEF Created, Orderly, Holding, TypeOK
<1> USE <1>1, <1>2, <1>3 DEF TypeOK, Orderly
<1>4. TakingTurns'
  BY DEF TakingTurns, Preparing, Completing
<1>5. Holding'
  BY DEF Holding, Created
<1>6. Mapping'
  BY DEF Mapping, Created, Preparing
<1>7. Counting'
  BY DEF Counting, Inside
<1>8. Cancelling'
  BY DEF Cancelling
<1>9. Watching'
  BY DEF Watching, Pending
<1>10. Asking'
  <2>1. ASSUME NEW p \in Observations, NEW i \in 1..Len(obs'[p].flushes)
        PROVE  /\ held[obs'[p].flushes[i]] = p
               /\ at[obs'[p].flushes[i]] \in {"flushing"} \cup Flushed
    <3>1. CASE p # o
      BY <2>1, <3>1 DEF Asking
    <3>2. CASE p = o
      <4> DEFINE f == obs[o].flushes
      <4>1. /\ f \in Seq(Sessions)
            /\ f # <<>>
            /\ obs'[p].flushes = Tail(f)
            /\ i \in 1..Len(Tail(f))
        BY <2>1, <3>2
      <4> HIDE DEF f
      <4>2. i + 1 \in 1..Len(f) /\ obs'[p].flushes[i] = f[i + 1]
        BY <4>1
      <4>3. i + 1 \in 1..Len(obs[o].flushes) /\ obs'[p].flushes[i] = obs[o].flushes[i + 1]
        BY <4>2 DEF f
      <4> QED
        BY <4>3, <3>2 DEF Asking
    <3> QED
      BY <3>1, <3>2
  <2>2. held[Head(obs[o].flushes)] = o /\ at[Head(obs[o].flushes)] \in {"flushing"} \cup Flushed
    <3>1. 1 \in 1..Len(obs[o].flushes) /\ Head(obs[o].flushes) = obs[o].flushes[1]
      OBVIOUS
    <3> QED
      BY <3>1 DEF Asking
  <2>3. ASSUME NEW p \in Observations, NEW t \in Sessions, obs'[p].ack = t
        PROVE  /\ held[t] = p /\ at[t] \in {"flushing"} \cup Flushed
               /\ \A c \in obs'[p].backlog : t \notin writers[c]
    BY <2>2, <2>3 DEF Asking
  <2> QED
    BY <2>1, <2>3 DEF Asking
<1>11. Covering'
  BY DEF Covering, Pending, Flushed
<1>12. Crediting'
  BY DEF Crediting, NeverFalselyLinked, Pending
<1> QED
  BY <1>4, <1>5, <1>6, <1>7, <1>8, <1>9, <1>10, <1>11, <1>12 DEF Orderly

\* A change of the batch is attributed to the only session, if it is one.
LEMMA AttributeOrderly ==
    ASSUME TypeOK, Finite, Orderly, NEW o \in Observations, Attribute(o)
    PROVE  Orderly'
<1>1. PICK c \in obs[o].batch :
        obs' = [obs EXCEPT ![o] =
                  [obs[o] EXCEPT !.watcher = "ingesting", !.current = {c},
                                 !.batch = obs[o].batch \ {c},
                                 !.claim = SoleOwner(obs[o].sessions)]]
  BY DEF Attribute
<1>2. /\ obs[o].watcher = "emitting"
      /\ obs[o].current = {}
      /\ obs[o].sessions \subseteq Sessions
      /\ UNCHANGED <<mode, at, held, creator, drains, mapped, finalized, writers, made,
                     recorded, dropped>>
  BY DEF Attribute, lifecycle, evidence, Orderly, Watching, TypeOK, Observation
<1>3. \A p \in Observations :
        /\ p # o => obs'[p] = obs[p]
        /\ p = o => /\ obs'[p].watcher = "ingesting" /\ obs'[p].batch = obs[p].batch \ {c}
                   /\ obs'[p].current = {c} /\ obs'[p].claim = SoleOwner(obs[p].sessions)
        /\ obs'[p].sessions = obs[p].sessions /\ obs'[p].cancelled = obs[p].cancelled
        /\ obs'[p].flushes = obs[p].flushes /\ obs'[p].backlog = obs[p].backlog
        /\ obs'[p].ack = obs[p].ack
  BY <1>1, AttributeEffect DEF Finite
<1>4. /\ Created' = Created /\ Created \subseteq Observations
      /\ \A t \in Sessions : at[t] # "idle" => held[t] \in Observations
      /\ \A t \in creator : held[t] \in Observations
  BY <1>2 DEF Created, Orderly, Holding, TypeOK
<1> USE <1>2, <1>3, <1>4 DEF TypeOK, Orderly
<1>5. TakingTurns'
  BY DEF TakingTurns, Preparing, Completing
<1>6. Holding'
  BY DEF Holding, Created
<1>7. Mapping'
  BY DEF Mapping, Created, Preparing
<1>8. Counting'
  BY DEF Counting, Inside
<1>9. Cancelling'
  BY DEF Cancelling
<1>10. Watching'
  BY DEF Watching, Pending
<1>11. Asking'
  BY DEF Asking, Flushed
<1>12. Covering'
  BY DEF Covering, Pending, Flushed
<1>13. Crediting'
  <2> DEFINE k == SoleOwner(obs[o].sessions)
  <2>1. k # None => obs[o].sessions = {k}
    BY SoleOwnerIs DEF Finite
  <2>2. ASSUME NEW s \in writers[c], held[s] = o
        PROVE  s \in obs[o].sessions
    <3>1. s \in Sessions /\ at[s] \in {"running", "draining", "flushing"}
      BY <2>2 DEF Covering, Pending, Observation
    <3> QED
      BY <2>2, <3>1 DEF Counting, Inside
  <2>3. ASSUME NEW s \in writers[c], held[s] # o
        PROVE  obs[o].sessions = {}
    BY <2>3 DEF Covering, Pending, Cancelling
  <2> HIDE DEF k
  <2>4. \A s \in writers[c] : k = None \/ s = k
    BY <2>1, <2>2, <2>3
  <2>5. obs'[o].claim = k /\ obs'[o].current = {c}
    BY DEF k
  <2>6. ASSUME NEW p \in Observations, NEW d \in obs'[p].current
        PROVE  /\ obs'[p].claim # None => writers[d] \subseteq {obs'[p].claim}
               /\ \A s \in writers[d] : held[s] = p => obs'[p].claim \in {s, None}
    <3>1. CASE p # o
      BY <2>6, <3>1 DEF Crediting
    <3>2. CASE p = o
      BY <2>4, <2>5, <2>6, <3>2
    <3> QED
      BY <3>1, <3>2
  <2> QED
    BY <2>6 DEF Crediting, NeverFalselyLinked
<1> QED
  BY <1>5, <1>6, <1>7, <1>8, <1>9, <1>10, <1>11, <1>12, <1>13 DEF Orderly

\* The change is recorded for its session, unless the chain of that session is finalized.
LEMMA IngestOrderly ==
    ASSUME TypeOK, Orderly, NEW o \in Observations, Ingest(o)
    PROVE  Orderly'
<1>1. /\ obs[o].watcher = "ingesting" /\ obs[o].claim \in Sessions \cup {None}
      /\ UNCHANGED <<mode, at, held, creator, drains, mapped, finalized, writers, made>>
  BY DEF Ingest, lifecycle, TypeOK, Observation
<1>2. \A p \in Observations :
        /\ p # o => obs'[p] = obs[p]
        /\ p = o => obs'[p].watcher = "emitting" /\ obs'[p].current = {} /\ obs'[p].claim = None
        /\ obs'[p].sessions = obs[p].sessions /\ obs'[p].cancelled = obs[p].cancelled
        /\ obs'[p].flushes = obs[p].flushes /\ obs'[p].backlog = obs[p].backlog
        /\ obs'[p].batch = obs[p].batch /\ obs'[p].ack = obs[p].ack
  BY IngestEffect
<1>3. /\ Created' = Created /\ Created \subseteq Observations
      /\ \A t \in Sessions : at[t] # "idle" => held[t] \in Observations
      /\ \A t \in creator : held[t] \in Observations
  BY <1>1 DEF Created, Orderly, Holding, TypeOK
<1> USE <1>1, <1>2, <1>3 DEF TypeOK, Orderly
<1>4. TakingTurns'
  BY DEF TakingTurns, Preparing, Completing
<1>5. Holding'
  BY DEF Holding, Created
<1>6. Mapping'
  BY DEF Mapping, Created, Preparing
<1>7. Counting'
  BY DEF Counting, Inside
<1>8. Cancelling'
  BY DEF Cancelling
<1>9. Watching'
  BY DEF Watching, Pending
<1>10. Asking'
  BY DEF Asking, Flushed
<1>11. Covering'
  BY DEF Covering, Pending, Flushed
<1>12. Crediting'
  <2>1. \A c \in obs[o].current : c \in made /\ c \in Pending(obs[o])
    BY DEF Watching, Pending
  <2>2. ASSUME NEW r \in recorded'
        PROVE  /\ r.change \in made
               /\ (r.session # None => writers[r.change] \subseteq {r.session})
    <3>1. CASE r \in recorded
      BY <3>1 DEF Crediting, NeverFalselyLinked
    <3>2. CASE r \notin recorded
      <4>1. PICK c \in obs[o].current : r = [change |-> c, session |-> obs[o].claim]
        BY <2>2, <3>2 DEF Ingest
      <4>2. r.change = c /\ r.session = obs[o].claim
        BY <4>1
      <4> QED
        BY <4>2, <2>1 DEF Crediting
    <3> QED
      BY <3>1, <3>2
  <2>3. ASSUME NEW d \in dropped'
        PROVE  d.change \in made /\ \A s \in writers[d.change] : held[s] # d.by
    <3>1. CASE d \in dropped
      BY <3>1 DEF Crediting
    <3>2. CASE d \notin dropped
      <4>1. PICK c \in obs[o].current : d = [change |-> c, by |-> o]
        BY <2>3, <3>2 DEF Ingest
      <4>2. d.change = c /\ d.by = o
        BY <4>1
      <4>3. obs[o].claim \in finalized
        BY <2>3, <3>2 DEF Ingest
      <4>4. ASSUME NEW s \in writers[c], held[s] = o
            PROVE  FALSE
        <5>1. at[s] \in {"running", "draining", "flushing"}
          BY <2>1, <4>4 DEF Covering
        <5>2. obs[o].claim \in {s, None}
          BY <4>4 DEF Crediting
        <5>3. s \in finalized
          BY <4>3, <5>2, NoneAssumption
        <5> QED
          BY <5>1, <5>3 DEF Holding
      <4> QED
        BY <4>2, <4>4, <2>1
    <3> QED
      BY <3>1, <3>2
  <2>4. ASSUME NEW p \in Observations, NEW c \in obs'[p].current
        PROVE  /\ obs'[p].claim # None => writers[c] \subseteq {obs'[p].claim}
               /\ \A s \in writers[c] : held[s] = p => obs'[p].claim \in {s, None}
    BY <2>4 DEF Crediting
  <2> QED
    BY <2>2, <2>3, <2>4 DEF Crediting, NeverFalselyLinked
<1> QED
  BY <1>4, <1>5, <1>6, <1>7, <1>8, <1>9, <1>10, <1>11, <1>12 DEF Orderly

\* A batch ends, and whoever waits for it has nothing left to flush.
LEMMA BatchOrderly ==
    ASSUME TypeOK, Orderly, NEW o \in Observations, EndBatch(o)
    PROVE  Orderly'
<1>1. /\ obs[o].watcher = "emitting" /\ obs[o].batch = {} /\ obs[o].current = {}
      /\ UNCHANGED <<mode, held, creator, drains, mapped, finalized, writers, made,
                     recorded, dropped>>
  BY DEF EndBatch, evidence, Orderly, Watching
<1>2. \A p \in Observations :
        /\ p # o => obs'[p] = obs[p]
        /\ p = o => obs'[p].watcher = "watching" /\ obs'[p].ack = None
        /\ obs'[p].sessions = obs[p].sessions /\ obs'[p].cancelled = obs[p].cancelled
        /\ obs'[p].flushes = obs[p].flushes /\ obs'[p].backlog = obs[p].backlog
        /\ obs'[p].batch = obs[p].batch /\ obs'[p].current = obs[p].current
        /\ obs'[p].claim = obs[p].claim
  BY EndBatchEffect
<1>3. /\ Created' = Created /\ Created \subseteq Observations
      /\ \A t \in Sessions : at[t] # "idle" => held[t] \in Observations
      /\ \A t \in creator : held[t] \in Observations
  BY <1>1 DEF Created, Orderly, Holding, TypeOK
<1>4. \A s \in Sessions :
        \/ at'[s] = at[s]
        \/ at[s] = "flushing" /\ at'[s] = "leaving" /\ obs[o].ack = s
  BY DEF EndBatch, TypeOK
<1> USE <1>1, <1>2, <1>4, <1>3, NoneAssumption DEF TypeOK, Orderly
<1>5. TakingTurns'
  BY DEF TakingTurns, Preparing, Completing
<1>6. Holding'
  BY DEF Holding, Created
<1>7. Mapping'
  BY DEF Mapping, Created, Preparing
<1>8. Counting'
  BY DEF Counting, Inside
<1>9. Cancelling'
  BY DEF Cancelling
<1>10. Watching'
  BY DEF Watching, Pending
<1>11. Asking'
  <2>1. \A s \in Sessions : at[s] \in {"flushing"} \cup Flushed
                              => at'[s] \in {"flushing"} \cup Flushed
    BY DEF Flushed
  <2>2. ASSUME NEW p \in Observations, NEW i \in 1..Len(obs'[p].flushes)
        PROVE  /\ held[obs'[p].flushes[i]] = p
               /\ at'[obs'[p].flushes[i]] \in {"flushing"} \cup Flushed
    <3>1. obs[p].flushes[i] \in Sessions
      BY DEF Observation
    <3> QED
      BY <2>1, <3>1 DEF Asking
  <2>3. ASSUME NEW p \in Observations, NEW s \in Sessions, obs'[p].ack = s
        PROVE  /\ held[s] = p /\ at'[s] \in {"flushing"} \cup Flushed
               /\ \A c \in obs'[p].backlog : s \notin writers[c]
    BY <2>1, <2>3 DEF Asking
  <2> QED
    BY <2>2, <2>3 DEF Asking
<1>12. Covering'
  <2>1. \A c \in made : \A s \in writers[c] :
          at'[s] \in {"running", "draining", "flushing"} \cup Flushed
    BY DEF Covering, Flushed
  <2>2. ASSUME NEW p \in Observations, NEW c \in Pending(obs'[p]), NEW s \in writers[c]
        PROVE  /\ held[s] = p => at'[s] \in {"running", "draining", "flushing"}
               /\ held[s] # p => obs'[p].cancelled
    <3>1. c \in Pending(obs[p]) /\ s \in Sessions
      BY DEF Pending, Observation
    <3>2. CASE at'[s] = at[s]
      BY <3>1, <3>2 DEF Covering
    <3>3. CASE obs[o].ack = s
      <4>1. held[s] = o /\ \A d \in obs[o].backlog : s \notin writers[d]
        BY <3>1, <3>3 DEF Asking
      <4>2. p # o
        BY <3>1, <4>1 DEF Pending
      <4> QED
        BY <3>1, <4>1, <4>2 DEF Covering
    <3> QED
      BY <3>1, <3>2, <3>3
  <2> QED
    BY <2>1, <2>2 DEF Covering
<1>13. Crediting'
  BY DEF Crediting, NeverFalselyLinked, Pending
<1> QED
  BY <1>5, <1>6, <1>7, <1>8, <1>9, <1>10, <1>11, <1>12, <1>13 DEF Orderly

\* A cancelled watcher drops nothing that was made while an agent of its sessions ran.
LEMMA StopOrderly ==
    ASSUME TypeOK, Orderly, NEW o \in Observations, Stop(o)
    PROVE  Orderly'
<1>1. /\ obs[o].watcher = "watching" /\ obs[o].cancelled
      /\ UNCHANGED <<mode, at, held, creator, drains, mapped, finalized, writers, made,
                     recorded>>
  BY DEF Stop, lifecycle
<1>2. \A p \in Observations :
        /\ p # o => obs'[p] = obs[p]
        /\ p = o
             => obs'[p].watcher = "stopped" /\ obs'[p].backlog = {} /\ obs'[p].flushes = <<>>
        /\ obs'[p].sessions = obs[p].sessions /\ obs'[p].cancelled = obs[p].cancelled
        /\ obs'[p].batch = obs[p].batch /\ obs'[p].current = obs[p].current
        /\ obs'[p].claim = obs[p].claim /\ obs'[p].ack = obs[p].ack
  BY StopEffect
<1>3. /\ Created' = Created /\ Created \subseteq Observations
      /\ \A t \in Sessions : at[t] # "idle" => held[t] \in Observations
      /\ \A t \in creator : held[t] \in Observations
  BY <1>1 DEF Created, Orderly, Holding, TypeOK
<1> USE <1>1, <1>2, <1>3 DEF TypeOK, Orderly
<1>4. TakingTurns'
  BY DEF TakingTurns, Preparing, Completing
<1>5. Holding'
  BY DEF Holding, Created
<1>6. Mapping'
  BY DEF Mapping, Created, Preparing
<1>7. Counting'
  BY DEF Counting, Inside
<1>8. Cancelling'
  BY DEF Cancelling
<1>9. Watching'
  BY DEF Watching, Pending
<1>10. Asking'
  BY DEF Asking, Flushed
<1>11. Covering'
  BY DEF Covering, Pending, Flushed
<1>12. Crediting'
  <2>1. \A c \in obs[o].backlog : c \in made /\ c \in Pending(obs[o])
    BY DEF Watching, Pending
  <2>2. ASSUME NEW d \in dropped'
        PROVE  d.change \in made /\ \A s \in writers[d.change] : held[s] # d.by
    <3>1. CASE d \in dropped
      BY <3>1 DEF Crediting
    <3>2. CASE d \notin dropped
      <4>1. PICK c \in obs[o].backlog : d = [change |-> c, by |-> o]
        BY <2>2, <3>2 DEF Stop
      <4>2. d.change = c /\ d.by = o
        BY <4>1
      <4>3. ASSUME NEW s \in writers[c], held[s] = o
            PROVE  FALSE
        <5>1. at[s] \in {"running", "draining", "flushing"} /\ s \in Sessions
          BY <2>1, <4>3 DEF Covering, Observation
        <5> QED
          BY <5>1, <4>3 DEF Counting, Inside, Cancelling
      <4> QED
        BY <4>2, <4>3, <2>1
    <3> QED
      BY <3>1, <3>2
  <2> QED
    BY <2>2 DEF Crediting, NeverFalselyLinked
<1> QED
  BY <1>4, <1>5, <1>6, <1>7, <1>8, <1>9, <1>10, <1>11, <1>12 DEF Orderly

\* A change is made while the agents of the mapped observation run.
LEMMA ChangeOrderly ==
    ASSUME TypeOK, Orderly, NEW c \in Changes, Change(c)
    PROVE  Orderly'
<1>1. /\ c \notin made /\ made' = made \cup {c} /\ writers' = [writers EXCEPT ![c] = Running]
      /\ UNCHANGED <<mode, at, held, creator, drains, mapped, finalized, recorded, dropped>>
  BY DEF Change, lifecycle
<1>2. \A p \in Observations :
        /\ obs'[p].backlog \subseteq obs[p].backlog \cup {c}
        /\ obs[p].watcher \notin {"watching", "emitting", "ingesting"} =>
             obs'[p].backlog = obs[p].backlog
        /\ obs'[p].sessions = obs[p].sessions /\ obs'[p].cancelled = obs[p].cancelled
        /\ obs'[p].flushes = obs[p].flushes /\ obs'[p].watcher = obs[p].watcher
        /\ obs'[p].batch = obs[p].batch /\ obs'[p].current = obs[p].current
        /\ obs'[p].claim = obs[p].claim /\ obs'[p].ack = obs[p].ack
  BY ChangeEffect
<1>3. /\ Created' = Created /\ Created \subseteq Observations
      /\ \A t \in Sessions : at[t] # "idle" => held[t] \in Observations
      /\ \A t \in creator : held[t] \in Observations
  BY <1>1 DEF Created, Orderly, Holding, TypeOK
<1>4. /\ \A d \in made : writers'[d] = writers[d]
      /\ writers'[c] = Running
      /\ \A p \in Observations : Pending(obs[p]) \subseteq made
  BY <1>1 DEF TypeOK, Orderly, Watching
<1> USE <1>1, <1>2, <1>4, <1>3 DEF TypeOK, Orderly
<1>5. TakingTurns'
  BY DEF TakingTurns, Preparing, Completing
<1>6. Holding'
  BY DEF Holding, Created
<1>7. Mapping'
  BY DEF Mapping, Created, Preparing
<1>8. Counting'
  BY DEF Counting, Inside
<1>9. Cancelling'
  BY DEF Cancelling
<1>10. Watching'
  BY DEF Watching, Pending
<1>11. Asking'
  <2>1. ASSUME NEW p \in Observations, NEW s \in Sessions, obs'[p].ack = s
        PROVE  /\ held[s] = p /\ at[s] \in {"flushing"} \cup Flushed
               /\ \A d \in obs'[p].backlog : s \notin writers'[d]
    <3>1. /\ held[s] = p /\ at[s] \in {"flushing"} \cup Flushed
          /\ \A d \in obs[p].backlog : s \notin writers[d]
      BY <2>1 DEF Asking
    <3>2. s \notin Running
      BY <3>1 DEF Running, Flushed
    <3> QED
      BY <3>1, <3>2 DEF Pending
  <2>2. \A p \in Observations : \A i \in 1..Len(obs'[p].flushes) :
          held[obs'[p].flushes[i]] = p /\ at[obs'[p].flushes[i]] \in {"flushing"} \cup Flushed
    BY DEF Asking
  <2> QED
    BY <2>1, <2>2 DEF Asking
<1>12. Covering'
  <2>1. \A d \in made' : \A s \in writers'[d] :
          at[s] \in {"running", "draining", "flushing"} \cup Flushed
    BY DEF Covering, Running
  <2>2. ASSUME NEW p \in Observations, NEW d \in Pending(obs'[p]), NEW s \in writers'[d]
        PROVE  /\ held[s] = p => at[s] \in {"running", "draining", "flushing"}
               /\ held[s] # p => obs'[p].cancelled
    <3>1. CASE d \in Pending(obs[p])
      BY <3>1 DEF Covering
    <3>2. CASE d \notin Pending(obs[p])
      <4>1. d = c /\ obs[p].watcher \in {"watching", "emitting", "ingesting"}
        BY <3>2 DEF Pending
      <4>2. s \in Running /\ p \in Created
        BY <4>1 DEF Watching
      <4>3. at[s] = "running" /\ held[s] = mapped
        BY <4>2 DEF Running, Mapping
      <4> QED
        BY <4>2, <4>3 DEF Cancelling
    <3> QED
      BY <3>1, <3>2
  <2> QED
    BY <2>1, <2>2 DEF Covering
<1>13. Crediting'
  <2>1. \A d \in made : writers'[d] = writers[d]
    BY <1>4
  <2>2. \A p \in Observations : \A d \in obs[p].current : d \in made
    BY <1>4 DEF Pending
  <2>3. \A p \in Observations : \A d \in obs'[p].current :
          d \in obs[p].current /\ writers'[d] = writers[d]
    BY <1>2, <2>1, <2>2
  <2>4. \A r \in recorded : r.change \in made /\ writers'[r.change] = writers[r.change]
    BY <2>1 DEF Crediting
  <2>5. \A d \in dropped : d.change \in made /\ writers'[d.change] = writers[d.change]
    BY <2>1 DEF Crediting
  <2>6. NeverFalselyLinked'
    BY <1>1, <2>4 DEF Crediting, NeverFalselyLinked
  <2>7. /\ \A p \in Observations : \A d \in obs'[p].current :
             obs'[p].claim # None => writers'[d] \subseteq {obs'[p].claim}
        /\ \A p \in Observations : \A d \in obs'[p].current : \A s \in writers'[d] :
             held'[s] = p => obs'[p].claim \in {s, None}
    BY <1>1, <1>2, <2>3 DEF Crediting
  <2>8. /\ \A r \in recorded' : r.change \in made'
        /\ \A d \in dropped' : d.change \in made'
        /\ \A d \in dropped' : \A s \in writers'[d.change] : held'[s] # d.by
    BY <1>1, <2>4, <2>5 DEF Crediting
  <2> QED
    BY <2>6, <2>7, <2>8 DEF Crediting
<1> QED
  BY <1>5, <1>6, <1>7, <1>8, <1>9, <1>10, <1>11, <1>12, <1>13 DEF Orderly

-----------------------------------------------------------------------------
(* The invariant *)

LEMMA InitInv == Init => CoordinationInv
<1> SUFFICES ASSUME Init PROVE CoordinationInv
  OBVIOUS
<1>1. TypeOK
  BY TypeInit
<1>2. Finite
  BY FS_EmptySet DEF Init, Finite, NewObservation
<1>3. Created = {} /\ \A o \in Observations : obs[o] = NewObservation
  BY DEF Init, Created
<1>4. /\ NewObservation.sessions = {} /\ NewObservation.flushes = <<>>
      /\ NewObservation.watcher = "none" /\ NewObservation.ack = None
      /\ NewObservation.backlog = {} /\ NewObservation.batch = {} /\ NewObservation.current = {}
      /\ NewObservation.cancelled = FALSE
  BY DEF NewObservation
<1>5. TakingTurns /\ Holding /\ Mapping
  BY <1>3 DEF Init, TakingTurns, Holding, Mapping, Preparing, Completing
<1>6. Counting /\ Cancelling
  BY <1>3, <1>4 DEF Init, Counting, Cancelling, Inside
<1>7. Watching /\ Asking
  BY <1>3, <1>4, NoneAssumption DEF Init, Watching, Asking, Pending
<1>8. Covering /\ Crediting
  BY <1>3, <1>4 DEF Init, Covering, Crediting, Pending, NeverFalselyLinked
<1> QED
  BY <1>1, <1>2, <1>5, <1>6, <1>7, <1>8 DEF CoordinationInv, Orderly

\* Every step of a session keeps the coordination orderly.
LEMMA SessionOrderly ==
    ASSUME TypeOK, Undisturbed, Orderly, NEW s \in Sessions,
           Prepare(s) \/ Fail(s) \/ Complete(s) \/ Finish(s)
    PROVE  Orderly'
<1>1. CASE Observe(s)
  <2>1. \A t \in Sessions : at[t] \notin Completing
    BY <1>1 DEF Observe, Undisturbed
  <2>2. CASE mapped # NoObservation
    <3>1. /\ at[s] = "idle" /\ at' = [at EXCEPT ![s] = "observed"]
          /\ held' = [held EXCEPT ![s] = mapped]
          /\ UNCHANGED <<mode, creator, drains, mapped, obs, finalized, evidence>>
      BY <1>1, <2>2 DEF Observe, Goto
    <3> QED
      BY <2>1, <2>2, <3>1, FindOrderly
  <2>3. CASE mapped = NoObservation
    <3>1. PICK o \in Observations \ Created :
            mapped' = o /\ held' = [held EXCEPT ![s] = o] /\ creator' = creator \cup {s}
      BY <1>1, <2>3 DEF Observe
    <3>2. /\ at[s] = "idle" /\ at' = [at EXCEPT ![s] = "observed"]
          /\ UNCHANGED <<mode, drains, obs, finalized, evidence>>
      BY <1>1 DEF Observe, Goto
    <3> QED
      BY <2>1, <2>3, <3>1, <3>2, CreateOrderly
  <2> QED
    BY <2>2, <2>3
<1>2. CASE StoreBaseline(s)
  <2>1. /\ \A t \in Sessions : t # s => at'[t] = at[t]
        /\ at[s] \in {"observed", "captured", "created"}
        /\ at'[s] \in {"captured", "created", "saved"}
    BY <1>2 DEF StoreBaseline, Goto, TypeOK
  <2>2. UNCHANGED <<mode, held, creator, drains, mapped, obs, finalized, evidence>>
    BY <1>2 DEF StoreBaseline
  <2> QED
    BY <2>1, <2>2, BaselineMove
<1>3. CASE Join(s)
  BY <1>3, JoinOrderly
<1>4. CASE Launch(s)
  <2>1. /\ \A t \in Sessions : t # s => at'[t] = at[t]
        /\ at[s] \in {"joined", "activated"} /\ at'[s] \in {"activated", "running"}
    BY <1>4 DEF Launch, Goto, TypeOK
  <2>2. UNCHANGED <<mode, held, creator, drains, mapped, obs, finalized, evidence>>
    BY <1>4 DEF Launch
  <2> QED
    BY <2>1, <2>2, LaunchMove
<1>5. CASE Fail(s)
  <2>1. /\ \A t \in Sessions : t # s => at'[t] = at[t]
        /\ at[s] \in {"ending", "posting", "finalizing", "closing"} /\ at'[s] = "failed"
        /\ UNCHANGED <<mode, held, creator, drains, mapped, obs, finalized, evidence>>
    BY <1>5 DEF Fail, Undisturbed, TypeOK
  <2> QED
    BY <2>1, EndMove
<1>6. CASE Complete(s)
  BY <1>6, CompleteOrderly
<1>7. CASE RequestFlush(s)
  <2>1. CASE at'[s] = "flushing"
    BY <1>7, <2>1, RequestOrderly
  <2>2. CASE at'[s] # "flushing"
    <3>1. /\ at[s] = "draining" /\ at'[s] = "leaving"
          /\ \A t \in Sessions : t # s => at'[t] = at[t]
          /\ obs[drains[s]].watcher = "stopped" /\ obs' = obs
      BY <1>7, <2>2 DEF RequestFlush, Goto, TypeOK
    <3>2. \A o \in Observations : held[s] = o => Pending(obs[o]) = {}
      BY <3>1 DEF Orderly, Mapping, Watching, Pending
    <3> QED
      BY <1>7, <3>1, <3>2, LeavingMove DEF RequestFlush
  <2> QED
    BY <2>1, <2>2
<1>8. CASE FlushUnanswered(s)
  <2>1. /\ at[s] = "flushing" /\ at'[s] = "leaving"
        /\ \A t \in Sessions : t # s => at'[t] = at[t]
        /\ obs[drains[s]].watcher \in {"none", "failed", "stopped"}
    BY <1>8 DEF FlushUnanswered, Goto, Undisturbed, TypeOK
  <2>2. \A o \in Observations : held[s] = o => Pending(obs[o]) = {}
    BY <2>1 DEF Orderly, Mapping, Watching, Pending
  <2> QED
    BY <1>8, <2>1, <2>2, LeavingMove DEF FlushUnanswered
<1>9. CASE Leave(s)
  BY <1>9, LeaveOrderly
<1>10. CASE Unmap(s)
  BY <1>10, UnmapOrderly
<1>11. CASE StoreEnd(s)
  <2>1. /\ \A t \in Sessions : t # s => at'[t] = at[t]
        /\ at[s] \in {"ending", "posting", "finalizing", "closing"}
        /\ at'[s] \in {"posting", "finalizing", "closing", "complete"}
        /\ at[s] = "closing" => at'[s] = "complete"
        /\ finalized' # finalized => at'[s] = "closing"
        /\ finalized' \subseteq finalized \cup {s}
    BY <1>11 DEF StoreEnd, Goto, TypeOK
  <2>2. s \in finalized => at[s] = "closing"
    BY <2>1 DEF Orderly, Holding
  <2>3. s \in finalized' => at'[s] \in {"closing", "complete", "failed"}
    BY <2>1, <2>2
  <2>4. UNCHANGED <<mode, held, creator, drains, mapped, obs, evidence>>
    BY <1>11 DEF StoreEnd
  <2> QED
    BY <2>1, <2>3, <2>4, EndMove
<1> QED
  BY <1>1, <1>2, <1>3, <1>4, <1>5, <1>6, <1>7, <1>8, <1>9, <1>10, <1>11 DEF Prepare, Finish

\* The invariant is inductive.
LEMMA InvStep == CoordinationInv /\ [Next]_vars => CoordinationInv'
<1> SUFFICES ASSUME CoordinationInv, [Next]_vars PROVE CoordinationInv'
  OBVIOUS
<1>1. TypeOK /\ Finite /\ TypeOK' /\ Finite'
  BY TypeStep DEF CoordinationInv
<1>2. mode' = mode
  BY DEF Next, vars, lifecycle, Prepare, Observe, StoreBaseline, Join, Launch, Fail, Complete,
     Finish, RequestFlush, FlushUnanswered, Leave, Unmap, StoreEnd, Watcher, Watch, Tick,
     ServeFlush, Attribute, Ingest, EndBatch, Stop, Change
<1>3. ASSUME Undisturbed PROVE Orderly'
  <2>1. Orderly
    BY <1>3 DEF CoordinationInv
  <2>2. ASSUME NEW s \in Sessions, Prepare(s) \/ Fail(s) \/ Complete(s) \/ Finish(s)
        PROVE  Orderly'
    BY <1>1, <1>3, <2>1, <2>2, SessionOrderly
  <2>3. ASSUME NEW o \in Observations, Watcher(o) \/ Stop(o)
        PROVE  Orderly'
    BY <1>1, <2>1, <2>3, WatchOrderly, TickOrderly, ServeOrderly, AttributeOrderly,
       IngestOrderly, BatchOrderly, StopOrderly DEF Watcher
  <2>4. ASSUME NEW c \in Changes, Change(c)
        PROVE  Orderly'
    BY <1>1, <2>1, <2>4, ChangeOrderly
  <2>5. CASE UNCHANGED vars
    BY <2>1, <2>5 DEF vars, Orderly, TakingTurns, Holding, Mapping, Counting, Cancelling,
       Watching, Asking, Covering, Crediting, NeverFalselyLinked, Created, Pending
  <2> QED
    BY <2>2, <2>3, <2>4, <2>5 DEF Next
<1>4. Undisturbed' <=> Undisturbed
  BY <1>2 DEF Undisturbed
<1> QED
  BY <1>1, <1>3, <1>4 DEF CoordinationInv

LEMMA Coordination == Spec => []CoordinationInv
BY InitInv, InvStep, PTL DEF Spec
-----------------------------------------------------------------------------
(* What follows from it *)

\* Whatever mode the coordinator runs in, its state has its types: in particular no
\* completion drains an observation that does not exist.
THEOREM CoordinatorTypes == Spec => []TypeOK
<1>1. CoordinationInv => TypeOK
  BY DEF CoordinationInv
<1> QED
  BY <1>1, Coordination, PTL

\* Undisturbed, a change is credited at high confidence only to the agent of a session
\* that alone ran when the change was made, although emit_file_event looks at the
\* sessions of the observation only when the change is drained.
THEOREM CreditIsSound == Spec => []AttributionSound
<1>1. CoordinationInv => AttributionSound
  BY DEF CoordinationInv, Orderly, Crediting, AttributionSound
<1> QED
  BY <1>1, Coordination, PTL

\* Undisturbed, an observation that is not cancelled watches the project while an agent
\* runs: prepare_wrapper never joins one that complete_wrapper is about to release.
THEOREM AgentsAreWatched == Spec => []RunningIsWatched
<1>1. CoordinationInv => RunningIsWatched
  <2> SUFFICES ASSUME CoordinationInv, Undisturbed, NEW s \in Running
               PROVE  \E o \in Observations :
                        /\ ~obs[o].cancelled
                        /\ \/ obs[o].watcher \notin {"none", "stopped"}
                           \/ \E t \in creator : held[t] = o /\ at[t] \in Preparing
    BY DEF RunningIsWatched, ActiveRootIsWatched
  <2>1. Orderly
    BY DEF CoordinationInv
  <2>2. s \in Sessions /\ at[s] = "running" /\ held[s] \in Created
    BY <2>1 DEF Running, Orderly, Holding
  <2>3. held[s] \in Observations /\ \E t \in creator : held[t] = held[s]
    BY <2>2 DEF Created
  <2>4. s \in obs[held[s]].sessions
    BY <2>1, <2>2, <2>3 DEF Orderly, Counting, Inside
  <2>5. ~obs[held[s]].cancelled
    BY <2>1, <2>3, <2>4 DEF Orderly, Cancelling
  <2>6. obs[held[s]].watcher # "stopped"
    BY <2>1, <2>3, <2>5 DEF Orderly, Watching
  <2>7. CASE obs[held[s]].watcher = "none"
    BY <2>1, <2>3, <2>5, <2>7 DEF Orderly, Watching, Preparing
  <2>8. CASE obs[held[s]].watcher # "none"
    BY <2>3, <2>5, <2>6, <2>8
  <2> QED
    BY <2>7, <2>8
<1> QED
  BY <1>1, Coordination, PTL

\* Undisturbed, when the chain of a session is finalized its watcher holds no change made
\* while its agent ran, and no watcher ever drops one: complete_wrapper flushes before it
\* finalizes, and cancels only what nobody is left in.
THEOREM ChangesAreKept == Spec => []ObservedIsStored
<1>1. CoordinationInv => ObservedIsStored
  <2> SUFFICES ASSUME CoordinationInv PROVE FlushedBeforeFinalized /\ NothingDropped
    BY DEF ObservedIsStored
  <2>1. TypeOK /\ (Undisturbed => Orderly)
    BY DEF CoordinationInv
  <2>2. ASSUME Undisturbed, NEW s \in finalized, NEW c \in Pending(obs[held[s]])
        PROVE  s \notin writers[c]
    <3>1. s \in Sessions /\ at[s] \in {"closing", "complete", "failed"}
      BY <2>1, <2>2 DEF Orderly, Holding, TypeOK
    <3>2. held[s] \in Observations
      BY <2>1, <2>2, <3>1 DEF Orderly, Holding, Created
    <3> QED
      BY <2>1, <2>2, <3>1, <3>2 DEF Orderly, Covering
  <2>3. FlushedBeforeFinalized
    BY <2>2 DEF FlushedBeforeFinalized, Pending
  <2>4. NothingDropped
    BY <2>1 DEF NothingDropped, Orderly, Crediting
  <2> QED
    BY <2>3, <2>4
<1> QED
  BY <1>1, Coordination, PTL

-----------------------------------------------------------------------------
(* Runs of the command: the inductive invariant *)

FileState == {"absent", "whole", "damaged"}
Put == {NoPut} \cup
       [stage : {"sealed", "writing", "stored", "recorded", "refused"}, content : Contents]
Manifest == UNION {[present -> Contents] : present \in SUBSET Files}
RequestType ==
    [op : {"none", "prepare", "complete"},
     step : {"none", "capture", "row", "files", "git", "join", "start", "leave", "end",
             "finalize", "close", "ok", "error"},
     todo : SUBSET Files, manifest : Manifest, moved : SUBSET Files]
Version ==
    [phase : {"pre", "post"}, file : Files, hash : Contents, blob : Contents \cup {Missing},
     moved : BOOLEAN]
Row ==
    [state : {"none", "active", "complete"},
     outcome : {"unknown"} \cup Exits, events : SUBSET {"start", "end"},
     versions : SUBSET Version, snapshots : SUBSET {"pre", "post"},
     git : SUBSET {"pre", "post"}, closed : BOOLEAN]

StoreTypes ==
    /\ blobs \in [Contents -> FileState] /\ put \in [Writers -> Put]
    /\ blobRows \in SUBSET Contents /\ decayed \in SUBSET Contents
    /\ tree \in [Files -> Contents \cup {Missing}]
    /\ request \in [Runs -> RequestType]
    /\ \A r \in Runs : request[r].todo \subseteq DOMAIN request[r].manifest
    /\ rows \in [Runs -> Row]

CommandTypes ==
    /\ given \in Circumstance /\ daemon \in {"up", "down"}
    /\ active \in SUBSET Runs /\ rooted \in SUBSET Runs /\ cut \in SUBSET Runs
    /\ cli \in [Runs -> {"idle", "preparing", "launching", "running", "returned",
                         "completing", "done", "failed"}]
    /\ agent \in [Runs -> {"none", "running"} \cup Exits]
    /\ result \in [Runs -> {"none", "unlaunched"} \cup Exits]
    /\ root \in [Runs -> {"waiting", "posting", "done"}]

TapeTypes ==
    /\ posted \in [Runs -> {"none", "sent", "storing", "ok", "error"}]
    /\ tape \in [Runs -> {"waiting", "posting", "ended"}]
    /\ written \in [Runs -> Nat] /\ forwarded \in [Runs -> Nat] /\ taken \in [Runs -> Nat]
    /\ \A r \in Runs : taken[r] <= forwarded[r] /\ forwarded[r] <= written[r]
    /\ \A r \in Runs : written[r] <= Len(Output[r])
    /\ \A r \in Runs : posted[r] # "none" => taken[r] > 0

\* A file that was whole stays so unless the disk damages it.
Kept(c) == blobs[c] = "whole" \/ c \in decayed

\* A put that is through has its file, and once recorded its row.
BlobsKept ==
    /\ \A c \in blobRows : Kept(c)
    /\ \A w \in Writers : put[w].stage \in {"stored", "recorded"} => Kept(put[w].content)
    /\ \A w \in Writers : put[w].stage = "recorded" => put[w].content \in blobRows

\* A request puts only while it stores files or the Git state, a file at a time: what the
\* file held when it was hashed, unless the file was changed since.
Follows(r) ==
    /\ put[MainOf(r)].stage # "none" =>
        \/ At(r, "files") /\ request[r].todo # {}
        \/ At(r, "git") /\ put[MainOf(r)].content = GitState
    /\ \A f \in request[r].todo : tree[f] = request[r].manifest[f] \/ f \in request[r].moved
    /\ \A f \in Files : put[MainOf(r)].stage # "none" /\ InTurn(r, f) =>
        put[MainOf(r)].content = request[r].manifest[f] \/ f \in request[r].moved

Backed(r) ==
    /\ rows[r].git # {} => GitState \in blobRows
    /\ \A v \in rows[r].versions :
        /\ v.blob # Missing => Kept(v.blob)
        /\ v.blob \notin {v.hash, Missing} => v.moved

\* Where the command stands while a request of it is under way.
Requested(r) ==
    /\ request[r].op = "none" <=> At(r, "none")
    /\ request[r].op = "prepare" =>
        /\ cli[r] \in {"preparing", "failed"} /\ agent[r] = "none"
        /\ request[r].step \notin {"leave", "end", "finalize", "close"}
    /\ request[r].op = "complete" =>
        /\ cli[r] \in {"completing", "failed"}
        /\ request[r].step \notin {"row", "join", "start"}
    /\ cli[r] = "preparing" => request[r].op = "prepare"
    /\ cli[r] = "completing" => request[r].op = "complete"

\* The result is that of the agent, which is launched once.
Launched(r) ==
    /\ cli[r] \in {"idle", "preparing", "launching"} => agent[r] = "none"
    /\ cli[r] \in {"idle", "preparing", "launching", "running"} => result[r] = "none"
    /\ cli[r] = "running" => agent[r] # "none"
    /\ result[r] \in Exits => result[r] = agent[r]

\* What prepare stores, step by step, and who relies on all of it.
Begun(r) ==
    /\ rows[r].state # "none" /\ "start" \in rows[r].events
    /\ "pre" \in rows[r].snapshots /\ "pre" \in rows[r].git
Prepares(r) ==
    /\ request[r].op = "prepare" =>
        /\ request[r].step \in {"files", "git", "join", "start", "ok"} => rows[r].state # "none"
        /\ request[r].step \in {"git", "join", "start", "ok"} => "pre" \in rows[r].snapshots
        /\ request[r].step \in {"join", "start", "ok"} => "pre" \in rows[r].git
        /\ At(r, "ok") => "start" \in rows[r].events
    /\ cli[r] \in {"launching", "running", "returned", "completing", "done"} => Begun(r)
    /\ request[r].op = "complete" \/ agent[r] # "none" => Begun(r)

\* What complete stores, step by step, and what a complete row has.
Ended(r) ==
    /\ "end" \in rows[r].events /\ "post" \in rows[r].snapshots /\ "post" \in rows[r].git
    /\ rows[r].closed \/ r \in Imported
Completes(r) ==
    /\ request[r].op = "complete" =>
        /\ request[r].step \in {"capture", "files", "git", "finalize", "close", "ok"} =>
            "end" \in rows[r].events
        /\ request[r].step \in {"git", "finalize", "close", "ok"} => "post" \in rows[r].snapshots
        /\ request[r].step \in {"finalize", "close", "ok"} => "post" \in rows[r].git
        /\ request[r].step \in {"close", "ok"} => rows[r].closed \/ r \in Imported
    /\ rows[r].state = "complete" =>
        /\ cli[r] \in {"completing", "done", "failed"} /\ Begun(r) /\ Ended(r)
        /\ result[r] \in Exits => rows[r].outcome = result[r]

\* A session is open from the end of its prepare to its completion while the daemon is
\* up, and the process id of its agent is known as long.
Opened(r) ==
    /\ daemon = "up" /\ request[r].op = "prepare" /\ request[r].step \in {"start", "ok"} =>
        r \in active
    /\ daemon = "up" /\ cli[r] \in {"launching", "running", "returned"} => r \in active
    /\ r \in rooted => r \in active
    /\ agent[r] # "none" /\ root[r] = "done" /\ r \in active \ cut => r \in rooted

\* The transcript ends before the session is completed, and only when everything the
\* agent wrote has been taken or a request failed.
TapeEnds(r) ==
    /\ written[r] > 0 => agent[r] # "none"
    /\ cli[r] \in {"completing", "done"} \/ request[r].op = "complete" => tape[r] = "ended"
    /\ cli[r] = "failed" => agent[r] = "none" \/ tape[r] = "ended"
    /\ rows[r].state = "complete" => tape[r] = "ended"
    /\ r \in given.taped \ cut /\ tape[r] = "ended" =>
        /\ taken[r] = forwarded[r] /\ forwarded[r] = written[r] /\ agent[r] # "running"
        /\ cli[r] \in {"returned", "completing", "done", "failed"}

\* What has been taken is stored, but for the chunk that is on its way.
TapeStored(r) ==
    /\ tape[r] = "waiting" => posted[r] = "none"
    /\ r \notin cut =>
        /\ posted[r] # "none" => tape[r] = "posting"
        /\ posted[r] # "error"
        /\ posted[r] \in {"sent", "storing"} => daemon = "up"
        /\ posted[r] = "storing" => put[ChunkOf(r)].stage # "none"
                                      /\ put[ChunkOf(r)].content = Output[r][taken[r]]
        /\ \A i \in 1..taken[r] : Output[r][i] \in blobRows
                                    \/ (i = taken[r] /\ posted[r] \in {"sent", "storing"})

RunTypes == StoreTypes /\ CommandTypes /\ TapeTypes
StoreInv == BlobsKept /\ \A r \in Runs : Follows(r) /\ Backed(r)
Ordered(r) == Requested(r) /\ Launched(r) /\ Prepares(r) /\ Completes(r) /\ Opened(r)
CommandInv == \A r \in Runs : Ordered(r)
TapeInv == \A r \in Runs : TapeEnds(r) /\ TapeStored(r)
RunInv == RunTypes /\ StoreInv /\ CommandInv /\ TapeInv

-----------------------------------------------------------------------------
(* The state is well typed. *)

\* Every run has two writers of its own.
LEMMA OwnWriters ==
    ASSUME NEW r \in Runs, NEW q \in Runs
    PROVE  /\ MainOf(r) \in Writers /\ ChunkOf(r) \in Writers
           /\ MainOf(r) # ChunkOf(q)
           /\ MainOf(r) = MainOf(q) => r = q
           /\ ChunkOf(r) = ChunkOf(q) => r = q
  BY RunsAssumption DEF MainOf, ChunkOf

LEMMA NoRequestTyped == NoRequest \in RequestType
  <1>1. <<>> \in [{} -> Contents]
    OBVIOUS
  <1>2. <<>> \in Manifest
    BY <1>1 DEF Manifest
  <1>3. QED
    BY <1>2 DEF NoRequest, RequestType

\* Putting a content keeps the puts typed.
LEMMA PutTyped ==
    ASSUME NEW w \in Writers, put \in [Writers -> Put], NEW p \in Put,
           put' = [put EXCEPT ![w] = p]
    PROVE  put' \in [Writers -> Put]
  OBVIOUS

LEMMA PuttingTyped ==
    ASSUME NEW c \in Contents,
           NEW stage \in {"sealed", "writing", "stored", "recorded", "refused"}
    PROVE  Putting(c, stage) \in Put /\ Putting(c, stage).stage = stage
           /\ Putting(c, stage).content = c
  BY DEF Putting, Put

LEMMA NoPutTyped == NoPut \in Put /\ NoPut.stage = "none"
  BY DEF NoPut, Put

LEMMA PutCases ==
    ASSUME NEW p \in Put
    PROVE  /\ p.stage \in {"none", "sealed", "writing", "stored", "recorded", "refused"}
           /\ p.stage # "none" => p.content \in Contents
           /\ p = NoPut <=> p.stage = "none"
  BY DEF Put, NoPut

\* A request that moves on to another step keeps all the rest.
LEMMA RequestMoves ==
    ASSUME request \in [Runs -> RequestType], NEW r \in Runs, NEW q \in Runs,
           NEW step \in {"none", "capture", "row", "files", "git", "join", "start", "leave",
                         "end", "finalize", "close", "ok", "error"},
           Becomes(r, step)
    PROVE  /\ request' \in [Runs -> RequestType]
           /\ request'[q].step = IF q = r THEN step ELSE request[q].step
           /\ request'[q].op = request[q].op /\ request'[q].todo = request[q].todo
           /\ request'[q].manifest = request[q].manifest
           /\ request'[q].moved = request[q].moved
  BY DEF Becomes, RequestType

\* A row stays a row whatever is written to it.
LEMMA RowFields ==
    ASSUME NEW d \in Row
    PROVE  /\ \A s \in {"none", "active", "complete"} : [d EXCEPT !.state = s] \in Row
           /\ \A s \in {"none", "active", "complete"}, o \in {"unknown"} \cup Exits :
                [d EXCEPT !.state = s, !.outcome = o] \in Row
           /\ \A e \in SUBSET {"start", "end"} : [d EXCEPT !.events = e] \in Row
           /\ \A v \in SUBSET Version : [d EXCEPT !.versions = v] \in Row
           /\ \A p \in SUBSET {"pre", "post"} : [d EXCEPT !.snapshots = p] \in Row
           /\ \A p \in SUBSET {"pre", "post"} : [d EXCEPT !.git = p] \in Row
           /\ \A b \in BOOLEAN : [d EXCEPT !.closed = b] \in Row
  BY DEF Row

LEMMA RowUpdate ==
    ASSUME rows \in [Runs -> Row], NEW r \in Runs, NEW row \in Row,
           rows' = [rows EXCEPT ![r] = row]
    PROVE  rows' \in [Runs -> Row]
  OBVIOUS

LEMMA InitTyped == RunInit => RunTypes
  <1> SUFFICES ASSUME RunInit PROVE RunTypes
    OBVIOUS
  <1>1. NoRow \in Row
    BY DEF NoRow, Row
  <1>2. request \in [Runs -> RequestType] /\ \A r \in Runs : request[r].todo = {}
    BY NoRequestTyped DEF RunInit, NoRequest
  <1>3. given \in Circumstance
    BY CircumstancesAssumption DEF RunInit
  <1>4. tree \in [Files -> Contents \cup {Missing}]
    BY RunsAssumption DEF RunInit
  <1>5. put \in [Writers -> Put]
    BY NoPutTyped DEF RunInit, BlobInit
  <1>6. StoreTypes
    BY <1>1, <1>2, <1>4, <1>5 DEF RunInit, BlobInit, StoreTypes, FileState
  <1>7. CommandTypes
    BY <1>3 DEF RunInit, CommandTypes
  <1>8. \A r \in Runs : Len(Output[r]) \in Nat
    BY RunsAssumption
  <1>9. TapeTypes
    BY <1>8 DEF RunInit, TapeTypes
  <1>10. QED
    BY <1>6, <1>7, <1>9 DEF RunTypes

\* A handler that moves on keeps the types when the row and the put it leaves have theirs.
LEMMA StepTyped ==
    ASSUME StoreTypes, NEW r \in Runs,
           NEW step \in {"none", "capture", "row", "files", "git", "join", "start", "leave",
                         "end", "finalize", "close", "ok", "error"},
           Becomes(r, step), put' \in [Writers -> Put], rows' \in [Runs -> Row],
           UNCHANGED <<blobs, blobRows, decayed, tree>>
    PROVE  StoreTypes'
  <1>1. /\ request' \in [Runs -> RequestType]
        /\ \A q \in Runs : request'[q].todo = request[q].todo
                           /\ request'[q].manifest = request[q].manifest
    BY RequestMoves DEF StoreTypes
  <1>2. QED
    BY <1>1 DEF StoreTypes

\* What a step does to the rows, the requests and the blob store keeps their types.
LEMMA HandlerStoreTyped ==
    ASSUME RunTypes, NEW r \in Runs, Handler(r)
    PROVE  StoreTypes'
  <1> USE DEF RunTypes
  <1> MainOf(r) \in Writers
    BY OwnWriters
  <1>1. CASE Capture(r)
    <2> DEFINE present == IF request[r].op = "prepare" /\ r \in Unbased THEN {}
                          ELSE {f \in Files : tree[f] # Missing}
               manifest == [f \in present |-> tree[f]]
               step == IF request[r].op = "prepare" THEN "row" ELSE "files"
               req == [request[r] EXCEPT !.todo = present, !.moved = {},
                                         !.manifest = manifest, !.step = step]
    <2>1. present \in SUBSET Files /\ \A f \in present : tree[f] \in Contents
      BY DEF StoreTypes
    <2>2. manifest \in [present -> Contents]
      BY <2>1
    <2>3. manifest \in Manifest
      BY <2>1, <2>2 DEF Manifest
    <2>4. request[r] \in RequestType
      BY DEF StoreTypes
    <2>5. req \in RequestType /\ req.todo = DOMAIN req.manifest
      <3> HIDE DEF present
      <3>1. present = DOMAIN manifest
        OBVIOUS
      <3> HIDE DEF manifest
      <3>2. QED
        BY <2>1, <2>3, <2>4, <3>1 DEF RequestType
    <2>6. request' = [request EXCEPT ![r] = req]
      BY <1>1 DEF Capture
    <2>7. UNCHANGED <<blobs, put, blobRows, decayed, tree, rows>>
      BY <1>1 DEF Capture, InDaemon, NoBlob, blobVars
    <2> HIDE DEF req
    <2>8. QED
      BY <2>5, <2>6, <2>7 DEF StoreTypes
  <1>2. CASE CreateSession(r)
    <2>1. Becomes(r, "files") /\ UNCHANGED <<blobs, put, blobRows, decayed, tree>>
      BY <1>2 DEF CreateSession, InDaemon, NoBlob, blobVars
    <2>2. rows' \in [Runs -> Row]
      <3> DEFINE row == [rows[r] EXCEPT !.state = "active"]
      <3>1. rows[r] \in Row /\ rows' = [rows EXCEPT ![r] = row]
        BY <1>2 DEF CreateSession, StoreTypes
      <3>2. "active" \in {"none", "active", "complete"}
        OBVIOUS
      <3>3. row \in Row
        BY ONLY <3>1, <3>2, RowFields
      <3> HIDE DEF row
      <3>4. QED
        BY <3>1, <3>3, RowUpdate DEF StoreTypes
    <2>3. QED
      BY <2>1, <2>2, StepTyped DEF StoreTypes
  <1>3. CASE SaveSnapshot(r)
    <2>1. Becomes(r, "git") /\ UNCHANGED <<blobs, put, blobRows, decayed, tree>>
      BY <1>3 DEF SaveSnapshot, InDaemon, NoBlob, blobVars
    <2>2. rows' \in [Runs -> Row]
      <3> DEFINE more == rows[r].snapshots \cup {Phase(r)}
                 row == [rows[r] EXCEPT !.snapshots = more]
      <3>1. rows[r] \in Row /\ rows' = [rows EXCEPT ![r] = row]
        BY <1>3 DEF SaveSnapshot, StoreTypes
      <3>2. more \in SUBSET {"pre", "post"}
        BY <3>1 DEF Row, Phase
      <3> HIDE DEF more
      <3>3. row \in Row
        BY <3>1, <3>2, RowFields
      <3> HIDE DEF row
      <3>4. QED
        BY <3>1, <3>3, RowUpdate DEF StoreTypes
    <2>3. QED
      BY <2>1, <2>2, StepTyped DEF StoreTypes
  <1>4. CASE Open(r)
    <2>1. Becomes(r, "start") /\ UNCHANGED <<blobs, put, blobRows, decayed, tree>>
      BY <1>4 DEF Open, InDaemon, NoBlob, blobVars
    <2>2. rows' \in [Runs -> Row]
      BY <1>4 DEF Open, StoreTypes
    <2>3. QED
      BY <2>1, <2>2, StepTyped DEF StoreTypes
  <1>5. CASE StoreStart(r)
    <2>1. Becomes(r, "ok") /\ UNCHANGED <<blobs, put, blobRows, decayed, tree>>
      BY <1>5 DEF StoreStart, InDaemon, NoBlob, blobVars
    <2>2. rows' \in [Runs -> Row]
      <3> DEFINE more == rows[r].events \cup {"start"}
                 row == [rows[r] EXCEPT !.events = more]
      <3>1. rows[r] \in Row /\ rows' = [rows EXCEPT ![r] = row]
        BY <1>5 DEF StoreStart, StoreTypes
      <3>2. more \in SUBSET {"start", "end"}
        BY <3>1 DEF Row, Phase
      <3> HIDE DEF more
      <3>3. row \in Row
        BY <3>1, <3>2, RowFields
      <3> HIDE DEF row
      <3>4. QED
        BY <3>1, <3>3, RowUpdate DEF StoreTypes
    <2>3. QED
      BY <2>1, <2>2, StepTyped DEF StoreTypes
  <1>6. CASE StoreEndEvent(r)
    <2>1. Becomes(r, "capture") /\ UNCHANGED <<blobs, put, blobRows, decayed, tree>>
      BY <1>6 DEF StoreEndEvent, InDaemon, NoBlob, blobVars
    <2>2. rows' \in [Runs -> Row]
      <3> DEFINE more == rows[r].events \cup {"end"}
                 row == [rows[r] EXCEPT !.events = more]
      <3>1. rows[r] \in Row /\ rows' = [rows EXCEPT ![r] = row]
        BY <1>6 DEF StoreEndEvent, StoreTypes
      <3>2. more \in SUBSET {"start", "end"}
        BY <3>1 DEF Row, Phase
      <3> HIDE DEF more
      <3>3. row \in Row
        BY <3>1, <3>2, RowFields
      <3> HIDE DEF row
      <3>4. QED
        BY <3>1, <3>3, RowUpdate DEF StoreTypes
    <2>3. QED
      BY <2>1, <2>2, StepTyped DEF StoreTypes
  <1>7. CASE Finalize(r)
    <2>1. Becomes(r, "close") /\ UNCHANGED <<blobs, put, blobRows, decayed, tree>>
      BY <1>7 DEF Finalize, InDaemon, NoBlob, blobVars
    <2>2. rows' \in [Runs -> Row]
      <3> DEFINE row == [rows[r] EXCEPT !.closed = r \notin Imported]
      <3>1. rows[r] \in Row /\ rows' = [rows EXCEPT ![r] = row]
        BY <1>7 DEF Finalize, StoreTypes
      <3>2. row \in Row
        BY <3>1, RowFields DEF Row, Phase
      <3> HIDE DEF row
      <3>3. QED
        BY <3>1, <3>2, RowUpdate DEF StoreTypes
    <2>3. QED
      BY <2>1, <2>2, StepTyped DEF StoreTypes
  <1>8. CASE CloseSession(r)
    <2>1. Becomes(r, "ok") /\ UNCHANGED <<blobs, put, blobRows, decayed, tree>>
      BY <1>8 DEF CloseSession, InDaemon, NoBlob, blobVars
    <2>2. rows' \in [Runs -> Row]
      <3> DEFINE outcome == IF result[r] \in Exits THEN result[r] ELSE "cancelled"
                 row == [rows[r] EXCEPT !.state = "complete", !.outcome = outcome]
      <3>1. rows[r] \in Row /\ rows' = [rows EXCEPT ![r] = row]
        BY <1>8 DEF CloseSession, StoreTypes
      <3>2. outcome \in Exits
        BY DEF Exits
      <3> HIDE DEF outcome
      <3>3. row \in Row
        BY <3>1, <3>2, RowFields
      <3> HIDE DEF row
      <3>4. QED
        BY <3>1, <3>3, RowUpdate DEF StoreTypes
    <2>3. QED
      BY <2>1, <2>2, StepTyped DEF StoreTypes
  <1>9. CASE PutGit(r)
    <2>1. Putting(GitState, "sealed") \in Put
      BY PuttingTyped, RunsAssumption
    <2>2. QED
      BY <1>9, <2>1 DEF PutGit, InDaemon, StoreTypes
  <1>10. CASE SaveGit(r)
    <2>1. PICK step \in {"join", "finalize"} : Becomes(r, step)
      BY <1>10 DEF SaveGit
    <2>2. rows' \in [Runs -> Row]
      <3> DEFINE more == rows[r].git \cup {Phase(r)}
                 row == [rows[r] EXCEPT !.git = more]
      <3>1. rows[r] \in Row /\ rows' = [rows EXCEPT ![r] = row]
        BY <1>10 DEF SaveGit, StoreTypes
      <3>2. more \in SUBSET {"pre", "post"}
        BY <3>1 DEF Row, Phase
      <3> HIDE DEF more
      <3>3. row \in Row
        BY <3>1, <3>2, RowFields
      <3> HIDE DEF row
      <3>4. QED
        BY <3>1, <3>3, RowUpdate DEF StoreTypes
    <2>3. put' \in [Writers -> Put] /\ UNCHANGED <<blobs, blobRows, decayed, tree>>
      BY <1>10, NoPutTyped DEF SaveGit, InDaemon, StoreTypes
    <2>4. QED
      BY <2>1, <2>2, <2>3, StepTyped DEF StoreTypes
  <1>11. ASSUME NEW f \in Files, ReadFile(r, f)
         PROVE  StoreTypes'
    <2>1. tree[f] \in Contents
      BY <1>11 DEF ReadFile, Captured, StoreTypes
    <2>2. Putting(tree[f], "sealed") \in Put
      BY <2>1, PuttingTyped
    <2>3. QED
      BY <1>11, <2>2 DEF ReadFile, InDaemon, StoreTypes
  <1>12. ASSUME NEW f \in Files, StoreFile(r, f)
         PROVE  StoreTypes'
    <2>1. PICK blob \in Contents \cup {Missing} : StoreVersion(r, f, blob)
      BY <1>12, PutCases DEF StoreFile, StoreTypes
    <2>2. request[r] \in RequestType /\ f \in request[r].todo
      BY <2>1 DEF StoreVersion, InTurn, StoreTypes
    <2>3. request[r].manifest[f] \in Contents
      BY <2>2 DEF StoreTypes, RequestType, Manifest
    <2>4. rows' \in [Runs -> Row]
      <3> DEFINE version == [phase |-> Phase(r), file |-> f, hash |-> request[r].manifest[f],
                             blob |-> blob, moved |-> f \in request[r].moved]
                 more == rows[r].versions \cup {version}
                 row == [rows[r] EXCEPT !.versions = more]
      <3>1. rows[r] \in Row /\ rows' = [rows EXCEPT ![r] = row]
        BY <2>1 DEF StoreVersion, StoreTypes
      <3>2. version \in Version
        BY <2>3 DEF Version, Phase
      <3> HIDE DEF version
      <3>3. more \in SUBSET Version
        BY <3>1, <3>2 DEF Row
      <3> HIDE DEF more
      <3>4. row \in Row
        BY <3>1, <3>3, RowFields
      <3> HIDE DEF row
      <3>5. QED
        BY <3>1, <3>4, RowUpdate DEF StoreTypes
    <2>5. request' \in [Runs -> RequestType]
          /\ \A q \in Runs : request'[q].todo \subseteq request[q].todo
                             /\ request'[q].manifest = request[q].manifest
      BY <2>1, <2>2 DEF StoreVersion, StoreTypes, RequestType
    <2>6. put' \in [Writers -> Put] /\ UNCHANGED <<blobs, blobRows, decayed, tree>>
      BY <2>1, NoPutTyped DEF StoreVersion, InDaemon, StoreTypes
    <2>7. QED
      BY <2>4, <2>5, <2>6 DEF StoreTypes
  <1>13. CASE LeaveSession(r)
    <2>1. PICK step \in {"end", "error"} : Becomes(r, step)
      BY <1>13 DEF LeaveSession
    <2>2. UNCHANGED <<blobs, put, blobRows, decayed, tree, rows>>
      BY <1>13 DEF LeaveSession, NoBlob, blobVars
    <2>3. QED
      BY <2>1, <2>2, StepTyped DEF StoreTypes
  <1>14. CASE Refuse(r)
    <2>1. put' \in [Writers -> Put] /\ UNCHANGED <<blobs, blobRows, decayed, tree, rows>>
      BY <1>14, NoPutTyped DEF Refuse, InDaemon, StoreTypes
    <2>2. Becomes(r, "error")
      BY <1>14 DEF Refuse
    <2>3. QED
      BY <2>1, <2>2, StepTyped DEF StoreTypes
  <1>15. QED
    BY <1>1, <1>2, <1>3, <1>4, <1>5, <1>6, <1>7, <1>8, <1>9, <1>10, <1>11, <1>12, <1>13, <1>14
       DEF Handler


LEMMA BlobStoreTyped ==
    ASSUME RunTypes, NEW w \in Writers, Look(w) \/ Persist(w) \/ Record(w) \/ CannotWrite(w),
           UNCHANGED ownVars
    PROVE  StoreTypes'
  <1> USE DEF RunTypes
  <1>1. UNCHANGED <<tree, request, rows>>
    BY DEF ownVars
  <1>2. put[w] \in Put /\ put[w].stage # "none" /\ put[w].content \in Contents
    BY PutCases DEF StoreTypes, Look, Persist, Record, CannotWrite
  <1>3. \E stage \in {"sealed", "writing", "stored", "recorded", "refused"} : Turns(w, stage)
    <2>1. blobs[put[w].content] \in FileState
      BY <1>2 DEF StoreTypes
    <2>2. QED
      BY <2>1 DEF Look, Persist, Record, CannotWrite, FileState
  <1>4. put' \in [Writers -> Put]
    BY <1>2, <1>3, PuttingTyped DEF Turns, StoreTypes
  <1>5. blobs' \in [Contents -> FileState] /\ blobRows' \in SUBSET Contents /\ decayed' = decayed
    BY <1>2 DEF Look, Persist, Record, CannotWrite, StoreTypes, FileState
  <1>6. QED
    BY <1>1, <1>4, <1>5 DEF StoreTypes

LEMMA TranscriptStoreTyped ==
    ASSUME RunTypes, NEW r \in Runs, Transcript(r)
    PROVE  StoreTypes'
  <1> USE DEF RunTypes
  <1> ChunkOf(r) \in Writers
    BY OwnWriters
  <1>1. UNCHANGED <<tree, request, rows, blobs, blobRows, decayed>>
    BY DEF Transcript, Admit, StoreChunk, RefuseChunk, InTranscript
  <1>2. put' \in [Writers -> Put]
    <2>1. CASE Admit(r)
      <3>1. posted[r] = "sent" /\ taken[r] \in Nat /\ taken[r] > 0
            /\ taken[r] <= forwarded[r] /\ forwarded[r] <= written[r]
            /\ written[r] <= Len(Output[r]) /\ forwarded[r] \in Nat /\ written[r] \in Nat
        BY <2>1 DEF Admit, TapeTypes
      <3>2. Output[r] \in Seq(Contents)
        BY RunsAssumption
      <3>3. Output[r][taken[r]] \in Contents
        BY <3>1, <3>2
      <3>4. Putting(Output[r][taken[r]], "sealed") \in Put
        BY <3>3, PuttingTyped
      <3>5. QED
        BY <2>1, <3>4 DEF Admit, StoreTypes
    <2>2. CASE StoreChunk(r) \/ RefuseChunk(r)
      BY <2>2, NoPutTyped DEF StoreChunk, RefuseChunk, StoreTypes
    <2>3. QED
      BY <2>1, <2>2 DEF Transcript
  <1>3. QED
    BY <1>1, <1>2 DEF StoreTypes

LEMMA EnvironmentStoreTyped ==
    ASSUME RunTypes,
           \/ StopDaemon
           \/ \E f \in Files, c \in Contents \cup {Missing} : Edit(f, c)
           \/ \E c \in Contents : Decay(c) /\ UNCHANGED ownVars
    PROVE  StoreTypes'
  <1> USE DEF RunTypes
  <1>1. CASE StopDaemon
    <2>1. UNCHANGED <<tree, rows, blobs, blobRows, decayed>>
      BY <1>1 DEF StopDaemon
    <2>2. put' \in [Writers -> Put]
      BY <1>1, NoPutTyped DEF StopDaemon
    <2>3. ASSUME NEW r \in Runs
          PROVE  /\ request'[r] \in RequestType
                 /\ request'[r].todo = request[r].todo
                 /\ request'[r].manifest = request[r].manifest
      <3>1. request[r] \in RequestType
        BY DEF StoreTypes
      <3>2. request'[r] \in {request[r], [request[r] EXCEPT !.step = "error"]}
        BY <1>1 DEF StopDaemon
      <3>3. QED
        BY <3>1, <3>2 DEF RequestType
    <2>4. request' \in [Runs -> RequestType]
      BY <1>1, <2>3 DEF StopDaemon
    <2>5. QED
      BY <2>1, <2>2, <2>3, <2>4 DEF StoreTypes
  <1>2. ASSUME NEW f \in Files, NEW c \in Contents \cup {Missing}, Edit(f, c)
        PROVE  StoreTypes'
    <2>1. UNCHANGED <<rows, blobs, put, blobRows, decayed>>
      BY <1>2 DEF Edit, blobVars
    <2>2. tree' \in [Files -> Contents \cup {Missing}]
      BY <1>2 DEF Edit, StoreTypes
    <2>3. ASSUME NEW r \in Runs
          PROVE  /\ request'[r] \in RequestType
                 /\ request'[r].todo = request[r].todo
                 /\ request'[r].manifest = request[r].manifest
      <3>1. request[r] \in RequestType
        BY DEF StoreTypes
      <3>2. request'[r] = [request[r] EXCEPT !.moved = @ \cup {f}]
        BY <1>2 DEF Edit
      <3>3. QED
        BY <3>1, <3>2 DEF RequestType
    <2>4. request' \in [Runs -> RequestType]
      BY <1>2, <2>3 DEF Edit
    <2>5. QED
      BY <2>1, <2>2, <2>3, <2>4 DEF StoreTypes
  <1>3. ASSUME NEW c \in Contents, Decay(c), UNCHANGED ownVars
        PROVE  StoreTypes'
    <2>1. UNCHANGED <<tree, request, rows>>
      BY <1>3 DEF ownVars
    <2>2. QED
      BY <1>3, <2>1 DEF Decay, StoreTypes, FileState
  <1>4. QED
    BY <1>1, <1>2, <1>3

LEMMA CommandStoreTyped ==
    ASSUME RunTypes, NEW r \in Runs,
           \/ Tasks(r) \/ Cli(r) \/ Forward(r) \/ Environment(r)
           \/ \E status \in Exits : Exit(r, status)
    PROVE  StoreTypes'
  <1> USE DEF RunTypes
  <1>1. CASE UNCHANGED <<tree, rows, request, blobs, put, blobRows, decayed>>
    BY <1>1 DEF StoreTypes
  <1>2. CASE /\ UNCHANGED <<tree, rows, blobs, put, blobRows, decayed>>
             /\ request' \in [Runs -> RequestType]
             /\ \A q \in Runs : request'[q] = request[q] \/ request'[q].todo = {}
    BY <1>2 DEF StoreTypes
  <1>3. CASE Drop(r)
    <2>1. put' \in [Writers -> Put] /\ UNCHANGED <<blobs, blobRows, decayed, tree, rows>>
      BY <1>3, NoPutTyped, OwnWriters DEF Drop, InDaemon, StoreTypes
    <2>2. Becomes(r, "error")
      BY <1>3 DEF Drop
    <2>3. QED
      BY <2>1, <2>2, StepTyped DEF StoreTypes
  <1>4. ASSUME NEW op \in {"prepare", "complete"}, NEW step \in {"capture", "leave"},
               Asks(r, op, step)
        PROVE  /\ request' \in [Runs -> RequestType]
               /\ \A q \in Runs : request'[q] = request[q] \/ request'[q].todo = {}
    <2> DEFINE asked == [NoRequest EXCEPT !.op = op, !.step = step]
    <2>1. asked \in RequestType /\ asked.todo = {}
      BY NoRequestTyped DEF RequestType, NoRequest
    <2>2. request' = [request EXCEPT ![r] = asked]
      BY <1>4 DEF Asks
    <2> HIDE DEF asked
    <2>3. QED
      BY <2>1, <2>2 DEF StoreTypes
  <1>5. ASSUME request' = [request EXCEPT ![r] = NoRequest]
        PROVE  /\ request' \in [Runs -> RequestType]
               /\ \A q \in Runs : request'[q] = request[q] \/ request'[q].todo = {}
    <2>1. NoRequest.todo = {}
      BY DEF NoRequest
    <2>2. QED
      BY <1>5, <2>1, NoRequestTyped DEF StoreTypes
  <1>6. CASE Tasks(r)
    BY <1>1, <1>6 DEF Tasks, ReportRoot, SendChunk, ChunkAnswered, EndTape, InTask, blobVars
  <1>7. CASE Forward(r) \/ Write(r) \/ \E status \in Exits : Exit(r, status)
    BY <1>1, <1>7 DEF Forward, Write, Exit, InTerminal, blobVars
  <1>8. CASE Prepared(r) \/ Completed(r)
    BY <1>2, <1>5, <1>8 DEF Prepared, Completed, InCommand, blobVars
  <1>9. CASE Spawn(r) \/ SeeExit(r) \/ CannotSpawn(r) \/ TerminalFails(r) \/ GiveUp(r)
    BY <1>1, <1>9 DEF Spawn, SeeExit, CannotSpawn, TerminalFails, GiveUp, InCommand, blobVars
  <1>10. CASE ChunkGivenUp(r)
    BY <1>1, <1>10 DEF ChunkGivenUp, InTask, blobVars
  <1>11. CASE AskComplete(r)
    <2>1. UNCHANGED <<tree, rows, blobs, put, blobRows, decayed>>
      BY <1>11 DEF AskComplete, InCommand, blobVars
    <2>2. Asks(r, "complete", "leave") \/ UNCHANGED request
      BY <1>11 DEF AskComplete
    <2>3. QED
      BY <1>1, <1>2, <1>4, <2>1, <2>2
  <1>12. CASE StartRun(r)
    <2>1. UNCHANGED <<tree, rows, blobs, put, blobRows, decayed>>
      BY <1>12 DEF StartRun, InCommand, blobVars
    <2>2. Asks(r, "prepare", "capture") \/ UNCHANGED request
      BY <1>12 DEF StartRun
    <2>3. QED
      BY <1>1, <1>2, <1>4, <2>1, <2>2
  <1>13. QED
    BY <1>3, <1>6, <1>7, <1>8, <1>9, <1>10, <1>11, <1>12 DEF Cli, Environment

\* The other variables change in few places.
LEMMA HandlerLeaves ==
    ASSUME NEW r \in Runs, Handler(r) \/ Drop(r)
    PROVE  /\ UNCHANGED <<given, daemon, posted, tree, cli, agent, written, forwarded, result,
                          tape, root, taken, cut>>
           /\ rooted' \in SUBSET rooted /\ active' \in SUBSET (active \cup {r})
  <1>1. CASE LeaveSession(r)
    BY <1>1 DEF LeaveSession, agentVars
  <1>2. CASE Open(r)
    BY <1>2 DEF Open, InDaemon, agentVars, taskVars
  <1>3. ASSUME UNCHANGED active, InDaemon
        PROVE  /\ UNCHANGED <<given, daemon, posted, tree, cli, agent, written, forwarded,
                              result, tape, root, taken, cut>>
               /\ rooted' \in SUBSET rooted /\ active' \in SUBSET (active \cup {r})
    BY <1>3 DEF InDaemon, agentVars, taskVars
  <1>4. CASE Capture(r) \/ CreateSession(r) \/ SaveSnapshot(r) \/ PutGit(r) \/ SaveGit(r)
    BY <1>3, <1>4 DEF Capture, CreateSession, SaveSnapshot, PutGit, SaveGit
  <1>5. CASE StoreStart(r) \/ StoreEndEvent(r) \/ Finalize(r) \/ CloseSession(r)
    BY <1>3, <1>5 DEF StoreStart, StoreEndEvent, Finalize, CloseSession
  <1>6. CASE Refuse(r) \/ Drop(r)
    BY <1>3, <1>6 DEF Refuse, Drop
  <1>7. ASSUME NEW f \in Files, ReadFile(r, f) \/ StoreFile(r, f)
        PROVE  UNCHANGED active /\ InDaemon
    BY <1>7 DEF ReadFile, StoreFile, StoreVersion
  <1>8. QED
    BY <1>1, <1>2, <1>3, <1>4, <1>5, <1>6, <1>7 DEF Handler

LEMMA TranscriptLeaves ==
    ASSUME NEW r \in Runs, Transcript(r)
    PROVE  /\ UNCHANGED <<given, daemon, active, request, tree, cli, agent, written, forwarded,
                          result, tape, root, rooted, taken, rows, blobs, blobRows, decayed>>
           /\ cut' \in SUBSET (cut \cup {r}) /\ cut \subseteq cut'
  BY DEF Transcript, Admit, StoreChunk, RefuseChunk, InTranscript, agentVars

LEMMA CommandTyped ==
    ASSUME RunTypes, [RunNext]_runVars
    PROVE  CommandTypes'
  <1> USE DEF RunTypes
  <1>1. ASSUME NEW r \in Runs, Handler(r) \/ Drop(r) PROVE CommandTypes'
    BY <1>1, HandlerLeaves DEF CommandTypes
  <1>2. ASSUME NEW r \in Runs, Transcript(r) PROVE CommandTypes'
    BY <1>2, TranscriptLeaves DEF CommandTypes
  <1>3. ASSUME NEW r \in Runs, Tasks(r) PROVE CommandTypes'
    BY <1>3 DEF Tasks, ReportRoot, SendChunk, ChunkAnswered, EndTape, InTask, agentVars,
                CommandTypes
  <1>4. ASSUME NEW r \in Runs, Cli(r) PROVE CommandTypes'
    <2>1. CASE Prepared(r) \/ Completed(r) \/ AskComplete(r)
      BY <2>1 DEF Prepared, Completed, AskComplete, Command, InCommand, agentVars, taskVars,
                  CommandTypes
    <2>2. CASE Spawn(r)
      BY <2>2 DEF Spawn, Command, InCommand, CommandTypes
    <2>3. CASE SeeExit(r)
      BY <2>3 DEF SeeExit, Command, InCommand, agentVars, taskVars, CommandTypes
    <2>4. QED
      BY <1>4, <2>1, <2>2, <2>3 DEF Cli
  <1>5. ASSUME NEW r \in Runs, Environment(r) PROVE CommandTypes'
    <2>1. CASE StartRun(r) \/ GiveUp(r)
      BY <2>1 DEF StartRun, GiveUp, Command, InCommand, agentVars, taskVars, CommandTypes
    <2>2. CASE Write(r)
      BY <2>2 DEF Write, InTerminal, taskVars, CommandTypes
    <2>3. CASE ChunkGivenUp(r)
      BY <2>3 DEF ChunkGivenUp, InTask, agentVars, CommandTypes
    <2>4. CASE CannotSpawn(r) \/ TerminalFails(r)
      BY <2>4 DEF CannotSpawn, TerminalFails, Command, InCommand, agentVars, taskVars,
                  CommandTypes
    <2>5. QED
      BY <1>1, <1>5, <2>1, <2>2, <2>3, <2>4 DEF Environment
  <1>6. ASSUME NEW r \in Runs, Forward(r) \/ \E status \in Exits : Exit(r, status)
        PROVE  CommandTypes'
    BY <1>6 DEF Forward, Exit, InTerminal, taskVars, CommandTypes
  <1>7. CASE StopDaemon
    BY <1>7 DEF StopDaemon, agentVars, CommandTypes
  <1>8. ASSUME NEW f \in Files, NEW c \in Contents \cup {Missing}, Edit(f, c)
        PROVE  CommandTypes'
    BY <1>8 DEF Edit, agentVars, taskVars, CommandTypes
  <1>9. CASE UNCHANGED ownVars
    BY <1>9 DEF ownVars, CommandTypes
  <1>10. given.ends \subseteq Exits
    BY DEF CommandTypes, Circumstance
  <1>11. QED
    BY <1>1, <1>2, <1>3, <1>4, <1>5, <1>6, <1>7, <1>8, <1>9, <1>10
       DEF RunNext, Scheduled, Blob, runVars

LEMMA TapeTyped ==
    ASSUME RunTypes, [RunNext]_runVars
    PROVE  TapeTypes'
  <1> USE DEF RunTypes
  <1>1. CASE UNCHANGED <<posted, tape, written, forwarded, taken>>
    BY <1>1 DEF TapeTypes
  <1>2. ASSUME NEW r \in Runs, Handler(r) \/ Drop(r) PROVE TapeTypes'
    BY <1>1, <1>2, HandlerLeaves
  <1>3. ASSUME NEW r \in Runs, Transcript(r) PROVE TapeTypes'
    <2>1. UNCHANGED <<tape, written, forwarded, taken>>
      BY <1>3, TranscriptLeaves
    <2>2. posted[r] \in {"sent", "storing"}
          /\ \E answer \in {"storing", "ok", "error"} :
                posted' = [posted EXCEPT ![r] = answer]
      BY <1>3 DEF Transcript, Admit, StoreChunk, RefuseChunk
    <2>3. QED
      BY <2>1, <2>2 DEF TapeTypes
  <1>4. ASSUME NEW r \in Runs, Tasks(r) PROVE TapeTypes'
    <2>1. CASE ReportRoot(r)
      BY <1>1, <2>1 DEF ReportRoot, InTask, agentVars
    <2>2. CASE SendChunk(r)
      <3>1. /\ UNCHANGED <<written, forwarded>> /\ taken' = [taken EXCEPT ![r] = taken[r] + 1]
            /\ taken[r] < forwarded[r]
            /\ \E next \in {"posting", "ended"} : tape' = [tape EXCEPT ![r] = next]
            /\ posted' = [posted EXCEPT ![r] = "sent"] \/ UNCHANGED posted
        BY <2>2 DEF SendChunk, Tape, InTask, agentVars
      <3>2. /\ tape' \in [Runs -> {"waiting", "posting", "ended"}]
            /\ posted' \in [Runs -> {"none", "sent", "storing", "ok", "error"}]
            /\ \A q \in Runs : q # r => posted'[q] = posted[q]
        BY <3>1 DEF TapeTypes
      <3>3. /\ taken' \in [Runs -> Nat] /\ taken'[r] > 0 /\ taken'[r] <= forwarded[r]
            /\ \A q \in Runs : q # r => taken'[q] = taken[q]
        BY <3>1 DEF TapeTypes
      <3>4. QED
        BY <3>1, <3>2, <3>3 DEF TapeTypes
    <2>3. CASE ChunkAnswered(r) \/ EndTape(r)
      <3>1. UNCHANGED <<written, forwarded, taken>>
        BY <2>3 DEF ChunkAnswered, EndTape, InTask, agentVars
      <3>2. posted' \in [Runs -> {"none", "sent", "storing", "ok", "error"}]
            /\ tape' \in [Runs -> {"waiting", "posting", "ended"}]
            /\ \A q \in Runs : posted'[q] # "none" => posted[q] # "none"
        BY <2>3 DEF ChunkAnswered, EndTape, Tape, TapeTypes
      <3>3. QED
        BY <3>1, <3>2 DEF TapeTypes
    <2>4. QED
      BY <1>4, <2>1, <2>2, <2>3 DEF Tasks
  <1>5. ASSUME NEW r \in Runs, Cli(r) PROVE TapeTypes'
    BY <1>1, <1>5 DEF Cli, Prepared, Completed, AskComplete, Spawn, SeeExit, InCommand, agentVars,
                taskVars
  <1>6. ASSUME NEW r \in Runs, Environment(r) PROVE TapeTypes'
    <2>1. CASE StartRun(r) \/ GiveUp(r) \/ CannotSpawn(r) \/ TerminalFails(r)
      BY <1>1, <2>1 DEF StartRun, GiveUp, CannotSpawn, TerminalFails, InCommand, agentVars,
                        taskVars
    <2>2. CASE Write(r)
      <3>1. Len(Output[r]) \in Nat
        BY RunsAssumption
      <3>2. UNCHANGED <<posted, tape, forwarded, taken>> /\ written[r] < Len(Output[r])
            /\ written' = [written EXCEPT ![r] = written[r] + 1]
        BY <2>2 DEF Write, InTerminal, taskVars
      <3>3. QED
        BY <3>1, <3>2 DEF TapeTypes
    <2>3. CASE ChunkGivenUp(r)
      BY <2>3 DEF ChunkGivenUp, Tape, InTask, agentVars, TapeTypes
    <2>4. QED
      BY <1>2, <1>6, <2>1, <2>2, <2>3 DEF Environment
  <1>7. ASSUME NEW r \in Runs, Forward(r) PROVE TapeTypes'
    <2>1. UNCHANGED <<posted, tape, written, taken>> /\ forwarded[r] < written[r]
          /\ forwarded' = [forwarded EXCEPT ![r] = forwarded[r] + 1]
      BY <1>7 DEF Forward, InTerminal, taskVars
    <2>2. QED
      BY <2>1 DEF TapeTypes
  <1>8. ASSUME NEW r \in Runs, NEW status \in Exits, Exit(r, status) PROVE TapeTypes'
    BY <1>1, <1>8 DEF Exit, InTerminal, taskVars
  <1>9. CASE StopDaemon
    <2>1. UNCHANGED <<tape, written, forwarded, taken>>
      BY <1>9 DEF StopDaemon, agentVars
    <2>2. /\ posted' \in [Runs -> {"none", "sent", "storing", "ok", "error"}]
          /\ \A q \in Runs : posted'[q] # "none" => posted[q] # "none"
      BY <1>9 DEF StopDaemon, TapeTypes
    <2>3. QED
      BY <2>1, <2>2 DEF TapeTypes
  <1>10. ASSUME NEW f \in Files, NEW c \in Contents \cup {Missing}, Edit(f, c)
        PROVE  TapeTypes'
    BY <1>1, <1>10 DEF Edit, agentVars, taskVars
  <1>11. CASE UNCHANGED ownVars
    BY <1>1, <1>11 DEF ownVars
  <1>12. given.ends \subseteq Exits
    BY DEF CommandTypes, Circumstance
  <1>13. QED
    BY <1>2, <1>3, <1>4, <1>5, <1>6, <1>7, <1>8, <1>9, <1>10, <1>11, <1>12
       DEF RunNext, Scheduled, Blob, runVars

\* Every step keeps every variable within its type.
LEMMA StepKeepsTypes ==
    ASSUME RunTypes, [RunNext]_runVars
    PROVE  RunTypes'
  <1>1. given.ends \subseteq Exits
    BY DEF RunTypes, CommandTypes, Circumstance
  <1>2. StoreTypes'
    <2>1. ASSUME NEW w \in Writers, Blob(w) PROVE StoreTypes'
      BY <2>1, BlobStoreTyped DEF Blob
    <2>2. ASSUME NEW r \in Runs, NEW status \in given.ends, Exit(r, status) PROVE StoreTypes'
      BY <1>1, <2>2, CommandStoreTyped
    <2>3. CASE Scheduled
      BY <2>1, <2>2, <2>3, HandlerStoreTyped, TranscriptStoreTyped, CommandStoreTyped
         DEF Scheduled
    <2>4. CASE UNCHANGED runVars
      BY <2>4 DEF runVars, ownVars, blobVars, RunTypes, StoreTypes
    <2>5. QED
      BY <2>3, <2>4, EnvironmentStoreTyped, CommandStoreTyped DEF RunNext
  <1>3. QED
    BY <1>2, CommandTyped, TapeTyped DEF RunTypes
-----------------------------------------------------------------------------
(* The blob store keeps what it holds, and what the requests store is in it. *)

\* A handler touches the request, the row and the put of its own run.
LEMMA HandlerOwn ==
    ASSUME NEW r \in Runs, Handler(r) \/ Drop(r), RunTypes
    PROVE  /\ UNCHANGED <<blobs, blobRows, decayed>>
           /\ \/ UNCHANGED put
              \/ \E p \in {NoPut} \cup {Putting(c, "sealed") : c \in Contents} :
                    put' = [put EXCEPT ![MainOf(r)] = p]
           /\ \A q \in Runs \ {r} : request'[q] = request[q] /\ rows'[q] = rows[q]
  <1> USE DEF RunTypes, StoreTypes
  <1>1. ASSUME NEW step, Becomes(r, step)
        PROVE  \A q \in Runs \ {r} : request'[q] = request[q]
    BY <1>1 DEF Becomes
  <1>2. CASE Capture(r) \/ CreateSession(r) \/ SaveSnapshot(r) \/ Open(r) \/ StoreStart(r)
    <2>1. UNCHANGED <<blobs, put, blobRows, decayed>>
      BY <1>2 DEF Capture, CreateSession, SaveSnapshot, Open, StoreStart, NoBlob, blobVars
    <2>2. \A q \in Runs \ {r} : request'[q] = request[q]
      BY <1>1, <1>2 DEF Capture, CreateSession, SaveSnapshot, Open, StoreStart
    <2>3. \A q \in Runs \ {r} : rows'[q] = rows[q]
      BY <1>2 DEF Capture, CreateSession, SaveSnapshot, Open, StoreStart
    <2>4. QED
      BY <2>1, <2>2, <2>3
  <1>3. CASE LeaveSession(r) \/ StoreEndEvent(r) \/ Finalize(r) \/ CloseSession(r)
    <2>1. UNCHANGED <<blobs, put, blobRows, decayed>>
      BY <1>3 DEF LeaveSession, StoreEndEvent, Finalize, CloseSession, NoBlob, blobVars
    <2>2. \A q \in Runs \ {r} : request'[q] = request[q]
      BY <1>1, <1>3 DEF LeaveSession, StoreEndEvent, Finalize, CloseSession
    <2>3. \A q \in Runs \ {r} : rows'[q] = rows[q]
      BY <1>3 DEF LeaveSession, StoreEndEvent, Finalize, CloseSession
    <2>4. QED
      BY <2>1, <2>2, <2>3
  <1>4. CASE SaveGit(r) \/ Refuse(r) \/ Drop(r)
    <2>1. UNCHANGED <<blobs, blobRows, decayed>> /\ put' = [put EXCEPT ![MainOf(r)] = NoPut]
      BY <1>4 DEF SaveGit, Refuse, Drop
    <2>2. \A q \in Runs \ {r} : request'[q] = request[q]
      BY <1>1, <1>4 DEF SaveGit, Refuse, Drop
    <2>3. \A q \in Runs \ {r} : rows'[q] = rows[q]
      BY <1>4 DEF SaveGit, Refuse, Drop
    <2>4. QED
      BY <2>1, <2>2, <2>3
  <1>5. CASE PutGit(r)
    BY <1>5, RunsAssumption DEF PutGit
  <1>6. ASSUME NEW f \in Files, ReadFile(r, f)
        PROVE  /\ UNCHANGED <<blobs, blobRows, decayed, request, rows>>
               /\ \E c \in Contents : put' = [put EXCEPT ![MainOf(r)] = Putting(c, "sealed")]
    BY <1>6 DEF ReadFile, Captured
  <1>7. ASSUME NEW f \in Files, StoreFile(r, f)
        PROVE  /\ UNCHANGED <<blobs, blobRows, decayed>>
               /\ put' = [put EXCEPT ![MainOf(r)] = NoPut]
               /\ \A q \in Runs \ {r} : request'[q] = request[q] /\ rows'[q] = rows[q]
    BY <1>7 DEF StoreFile, StoreVersion
  <1>8. QED
    BY <1>2, <1>3, <1>4, <1>5, <1>6, <1>7 DEF Handler

\* What happens to a put: it goes on with its content, starts anew or is over.
Carried(w) ==
    \/ put'[w].stage \in {"none", "sealed"}
    \/ put[w].stage # "none" /\ put'[w].content = put[w].content

\* Nothing but the disk takes anything from the store.
StoreGrows ==
    /\ blobRows \subseteq blobRows'
    /\ \A c \in Contents : Kept(c) => Kept(c)'

LEMMA BlobStep ==
    ASSUME RunTypes, BlobsKept, NEW w \in Writers,
           Look(w) \/ Persist(w) \/ Record(w) \/ CannotWrite(w)
    PROVE  /\ StoreGrows /\ BlobsKept'
           /\ \A x \in Writers \ {w} : put'[x] = put[x]
           /\ put[w].stage # "none" /\ put'[w].stage # "none"
           /\ put'[w].content = put[w].content
  <1> USE DEF RunTypes
  <1>1. put[w] \in Put /\ put[w].stage # "none" /\ put[w].content \in Contents
    BY PutCases DEF StoreTypes, Look, Persist, Record, CannotWrite
  <1>2. PICK c \in Contents : c = put[w].content
    BY <1>1
  <1>3. decayed' = decayed /\ blobRows \subseteq blobRows' /\ blobRows' \subseteq blobRows \cup {c}
    BY <1>2 DEF Look, Persist, Record, CannotWrite
  <1>4. StoreGrows
    <2>1. \A d \in Contents : blobs[d] = "whole" => blobs'[d] = "whole"
      BY <1>1 DEF Look, Persist, Record, CannotWrite, StoreTypes
    <2>2. QED
      BY <1>3, <2>1 DEF StoreGrows, Kept
  <1>5. PICK stage \in {"sealed", "writing", "stored", "recorded", "refused"} :
          /\ Turns(w, stage)
          /\ stage \in {"stored", "recorded"} => Kept(c)'
          /\ stage = "recorded" => c \in blobRows'
          /\ c \in blobRows' => c \in blobRows \/ put[w].stage = "stored"
    <2>1. CASE Look(w)
      <3>1. blobs[c] \in FileState
        BY DEF StoreTypes
      <3>2. UNCHANGED <<blobs, decayed, blobRows>>
        BY <2>1 DEF Look
      <3>3. CASE blobs[c] = "absent"
        BY <1>2, <2>1, <3>2, <3>3 DEF Look
      <3>4. CASE blobs[c] = "whole"
        BY <1>2, <2>1, <3>2, <3>4 DEF Look, Kept
      <3>5. CASE blobs[c] = "damaged"
        BY <1>2, <2>1, <3>2, <3>5 DEF Look
      <3>6. QED
        BY <3>1, <3>3, <3>4, <3>5 DEF FileState
    <2>2. CASE Persist(w)
      <3>1. blobs'[c] = "whole" /\ Turns(w, "stored") /\ UNCHANGED blobRows
        BY <1>2, <2>2 DEF Persist, StoreTypes
      <3>2. QED
        BY <3>1 DEF Kept
    <2>3. CASE Record(w)
      <3>1. Kept(c) /\ put[w].stage = "stored"
        BY <1>2, <2>3 DEF Record, BlobsKept
      <3>2. Kept(c)' /\ Turns(w, "recorded") /\ c \in blobRows'
        BY <1>2, <2>3, <3>1 DEF Record, Kept
      <3>3. QED
        BY <3>1, <3>2
    <2>4. CASE CannotWrite(w)
      BY <2>4 DEF CannotWrite
    <2>5. QED
      BY <2>1, <2>2, <2>3, <2>4
  <1>6. put' = [put EXCEPT ![w] = Putting(c, stage)]
    BY <1>2, <1>5 DEF Turns
  <1>7. /\ \A x \in Writers \ {w} : put'[x] = put[x]
        /\ put'[w].stage = stage /\ put'[w].content = c
    BY <1>6, PuttingTyped DEF StoreTypes
  <1>8. \A d \in Contents : Kept(d) => Kept(d)'
    BY <1>4 DEF StoreGrows
  <1>9. BlobsKept'
    <2>1. ASSUME NEW d \in blobRows' PROVE Kept(d)'
      <3>1. CASE d \in blobRows
        BY <1>8, <3>1 DEF BlobsKept, StoreTypes
      <3>2. CASE d \notin blobRows
        <4>1. d = c /\ put[w].stage = "stored"
          BY <1>3, <1>5, <2>1, <3>2
        <4>2. Kept(c)
          BY <1>2, <4>1 DEF BlobsKept
        <4>3. QED
          BY <1>8, <4>1, <4>2
      <3>3. QED
        BY <3>1, <3>2
    <2>2. ASSUME NEW x \in Writers, put'[x].stage \in {"stored", "recorded"}
          PROVE  \E d \in Contents : d = put'[x].content /\ Kept(d)'
      <3>1. CASE x = w
        BY <1>5, <1>7, <2>2, <3>1
      <3>2. CASE x # w
        <4>1. PICK d \in Contents : d = put[x].content /\ Kept(d)
          BY <1>7, <2>2, <3>2, PutCases DEF BlobsKept, StoreTypes
        <4>2. QED
          BY <1>7, <1>8, <3>2, <4>1
      <3>3. QED
        BY <3>1, <3>2
    <2>3. \A x \in Writers : put'[x].stage = "recorded" => put'[x].content \in blobRows'
      BY <1>3, <1>5, <1>7 DEF BlobsKept
    <2>4. QED
      BY <2>1, <2>2, <2>3 DEF BlobsKept, Kept
  <1>10. QED
    BY <1>1, <1>2, <1>4, <1>5, <1>7, <1>9

LEMMA StepKeepsBlobs ==
    ASSUME RunTypes, BlobsKept, [RunNext]_runVars
    PROVE  /\ BlobsKept' /\ StoreGrows
           /\ \A w \in Writers : Carried(w)
  <1> USE DEF RunTypes
  <1>1. ASSUME UNCHANGED <<blobs, blobRows, decayed>>,
               \A w \in Writers : put'[w] = put[w] \/ put'[w].stage \in {"none", "sealed"}
        PROVE  /\ BlobsKept' /\ StoreGrows
               /\ \A w \in Writers : Carried(w)
    <2>1. StoreGrows
      BY <1>1 DEF StoreGrows, Kept
    <2>2. \A w \in Writers : Carried(w)
      BY <1>1, PutCases DEF Carried, StoreTypes
    <2>3. BlobsKept'
      BY <1>1 DEF BlobsKept, Kept
    <2>4. QED
      BY <2>1, <2>2, <2>3
  <1>2. CASE UNCHANGED <<blobs, put, blobRows, decayed>>
    BY <1>1, <1>2
  <1>3. ASSUME NEW r \in Runs, Handler(r) \/ Drop(r)
        PROVE  /\ BlobsKept' /\ StoreGrows
               /\ \A w \in Writers : Carried(w)
    <2>1. \A c \in Contents : Putting(c, "sealed").stage = "sealed"
      BY PuttingTyped
    <2>2. \A w \in Writers : put'[w] = put[w] \/ put'[w].stage \in {"none", "sealed"}
      BY <1>3, <2>1, HandlerOwn, OwnWriters, NoPutTyped DEF StoreTypes
    <2>3. QED
      BY <1>1, <1>3, <2>2, HandlerOwn
  <1>4. ASSUME NEW r \in Runs, Transcript(r)
        PROVE  /\ BlobsKept' /\ StoreGrows
               /\ \A w \in Writers : Carried(w)
    <2>1. \A c : Putting(c, "sealed").stage = "sealed"
      BY DEF Putting
    <2>2. \A w \in Writers : put'[w] = put[w] \/ put'[w].stage \in {"none", "sealed"}
      BY <1>4, <2>1, OwnWriters, NoPutTyped
         DEF Transcript, Admit, StoreChunk, RefuseChunk, StoreTypes
    <2>3. QED
      BY <1>1, <1>4, <2>2, TranscriptLeaves
  <1>5. ASSUME NEW r \in Runs,
               Tasks(r) \/ Cli(r) \/ Forward(r) \/ \E status \in given.ends : Exit(r, status)
        PROVE  UNCHANGED <<blobs, put, blobRows, decayed>>
    <2>1. CASE Tasks(r)
      BY <2>1 DEF Tasks, ReportRoot, SendChunk, ChunkAnswered, EndTape, InTask, blobVars
    <2>2. CASE Cli(r)
      BY <2>2 DEF Cli, Prepared, Completed, AskComplete, Spawn, SeeExit, InCommand, blobVars
    <2>3. CASE Forward(r) \/ \E status \in given.ends : Exit(r, status)
      BY <2>3 DEF Forward, Exit, InTerminal, blobVars
    <2>4. QED
      BY <1>5, <2>1, <2>2, <2>3
  <1>6. ASSUME NEW r \in Runs, Environment(r), ~Drop(r)
        PROVE  UNCHANGED <<blobs, put, blobRows, decayed>>
    <2>1. CASE Write(r) \/ ChunkGivenUp(r)
      BY <2>1 DEF Write, ChunkGivenUp, InTerminal, InTask, blobVars
    <2>2. CASE StartRun(r) \/ GiveUp(r) \/ CannotSpawn(r) \/ TerminalFails(r)
      BY <2>2 DEF StartRun, GiveUp, CannotSpawn, TerminalFails, InCommand, blobVars
    <2>3. QED
      BY <1>6, <2>1, <2>2 DEF Environment
  <1>7. ASSUME NEW w \in Writers, Blob(w)
        PROVE  /\ BlobsKept' /\ StoreGrows
               /\ \A x \in Writers : Carried(x)
    <2>1. Look(w) \/ Persist(w) \/ Record(w) \/ CannotWrite(w)
      BY <1>7 DEF Blob
    <2>2. QED
      BY <2>1, BlobStep, PutCases DEF Carried, StoreTypes
  <1>8. CASE StopDaemon
    BY <1>1, <1>8, NoPutTyped DEF StopDaemon
  <1>9. ASSUME NEW f \in Files, NEW c \in Contents \cup {Missing}, Edit(f, c)
        PROVE  UNCHANGED <<blobs, put, blobRows, decayed>>
    BY <1>9 DEF Edit, blobVars
  <1>10. ASSUME NEW c \in Contents, Decay(c)
        PROVE  /\ BlobsKept' /\ StoreGrows
               /\ \A w \in Writers : Carried(w)
    <2>1. StoreGrows
      BY <1>10 DEF Decay, StoreGrows, Kept, StoreTypes
    <2>2. UNCHANGED <<put, blobRows>>
      BY <1>10 DEF Decay
    <2>3. \A w \in Writers : Carried(w)
      BY <2>2, PutCases DEF Carried, StoreTypes
    <2>4. /\ \A d \in blobRows : d \in Contents
          /\ \A w \in Writers : put[w].stage \in {"stored", "recorded"} =>
               put[w].content \in Contents
      BY PutCases DEF StoreTypes
    <2>5. BlobsKept'
      BY <2>1, <2>2, <2>4 DEF BlobsKept, StoreGrows
    <2>6. QED
      BY <2>1, <2>3, <2>5
  <1>11. CASE UNCHANGED runVars
    BY <1>2, <1>11 DEF runVars, blobVars
  <1>12. CASE Scheduled
    BY <1>2, <1>3, <1>4, <1>5, <1>7, <1>12 DEF Scheduled
  <1>13. ASSUME NEW r \in Runs, Environment(r)
        PROVE  /\ BlobsKept' /\ StoreGrows
               /\ \A w \in Writers : Carried(w)
    BY <1>2, <1>3, <1>6, <1>13
  <1>14. QED
    BY <1>2, <1>8, <1>9, <1>10, <1>11, <1>12, <1>13 DEF RunNext

LEMMA FollowsQuiet ==
    ASSUME NEW r \in Runs, Follows(r), request'[r] = request[r], tree' = tree,
           \/ put'[MainOf(r)].stage = "none"
           \/ put[MainOf(r)].stage # "none"
                /\ put'[MainOf(r)].content = put[MainOf(r)].content
    PROVE  Follows(r)'
  BY DEF Follows, At, InTurn

LEMMA FollowsCleared ==
    ASSUME NEW r \in Runs, Follows(r), tree' = tree, put'[MainOf(r)].stage = "none",
           request'[r].todo \subseteq request[r].todo,
           request'[r].manifest = request[r].manifest, request'[r].moved = request[r].moved
    PROVE  Follows(r)'
  BY DEF Follows

LEMMA HandlerFollows ==
    ASSUME RunTypes, NEW r \in Runs, Handler(r) \/ Drop(r), Follows(r)
    PROVE  Follows(r)'
  <1> USE DEF RunTypes
  <1> DEFINE w == MainOf(r)
  <1>1. w \in Writers /\ tree' = tree
    BY OwnWriters, HandlerLeaves
  <1> HIDE DEF w
  <1>2. CASE Capture(r)
    <2>1. put'[w].stage = "none"
      BY <1>2 DEF w, Capture, NoBlob, blobVars, Follows, At
    <2>2. \A f \in request'[r].todo : request'[r].manifest[f] = tree[f]
      <3> DEFINE present == IF request[r].op = "prepare" /\ r \in Unbased THEN {}
                            ELSE {f \in Files : tree[f] # Missing}
                 manifest == [f \in present |-> tree[f]]
      <3>1. request[r] \in RequestType
        BY DEF StoreTypes
      <3>2. request'[r].todo = present /\ request'[r].manifest = manifest
        BY <1>2, <3>1 DEF Capture, StoreTypes, RequestType
      <3>3. \A f \in present : manifest[f] = tree[f]
        OBVIOUS
      <3> HIDE DEF present, manifest
      <3>4. QED
        BY <3>2, <3>3
    <2>3. QED
      BY <1>1, <2>1, <2>2 DEF Follows, w
  <1>3. ASSUME NEW step \in {"files", "git", "start", "ok", "end", "error", "capture", "close"},
               Becomes(r, step), put' = put,
               ~At(r, "git"), At(r, "files") => request[r].todo = {}
        PROVE  Follows(r)'
    <2>1. put'[w].stage = "none"
      BY <1>3 DEF w, Follows
    <2>2. QED
      BY <1>1, <1>3, <2>1, RequestMoves, FollowsCleared DEF w, StoreTypes
  <1>4. CASE CreateSession(r) \/ SaveSnapshot(r) \/ Open(r) \/ StoreStart(r)
    <2>1. put' = put /\ ~At(r, "git") /\ (At(r, "files") => request[r].todo = {})
      BY <1>4 DEF CreateSession, SaveSnapshot, Open, StoreStart, NoBlob, blobVars, At
    <2>2. QED
      BY <1>3, <1>4, <2>1 DEF CreateSession, SaveSnapshot, Open, StoreStart
  <1>5. CASE LeaveSession(r) \/ StoreEndEvent(r) \/ Finalize(r) \/ CloseSession(r)
    <2>1. put' = put /\ ~At(r, "git") /\ ~At(r, "files")
      BY <1>5 DEF LeaveSession, StoreEndEvent, Finalize, CloseSession, NoBlob, blobVars, At
    <2>2. QED
      BY <1>3, <1>5, <2>1 DEF LeaveSession, StoreEndEvent, Finalize, CloseSession
  <1>6. CASE PutGit(r)
    <2>1. request' = request /\ At(r, "git")
          /\ put' = [put EXCEPT ![w] = Putting(GitState, "sealed")]
      BY <1>6 DEF PutGit, w
    <2>2. put'[w].content = GitState
      BY <1>1, <2>1, PuttingTyped, RunsAssumption DEF StoreTypes
    <2>3. QED
      BY <1>1, <2>1, <2>2 DEF w, Follows, At, InTurn
  <1>7. CASE SaveGit(r) \/ Refuse(r) \/ Drop(r)
    <2>1. put'[w].stage = "none"
      BY <1>1, <1>7, NoPutTyped DEF w, SaveGit, Refuse, Drop, StoreTypes
    <2>2. PICK step \in {"join", "finalize", "error"} : Becomes(r, step)
      BY <1>7 DEF SaveGit, Refuse, Drop
    <2>3. QED
      BY <1>1, <2>1, <2>2, RequestMoves, FollowsCleared DEF w, StoreTypes
  <1>8. ASSUME NEW f \in Files, ReadFile(r, f)
        PROVE  Follows(r)'
    <2>1. /\ request' = request /\ InTurn(r, f) /\ tree[f] \in Contents
          /\ put' = [put EXCEPT ![w] = Putting(tree[f], "sealed")]
      BY <1>8 DEF ReadFile, Captured, StoreTypes, w
    <2>2. put'[w].content = tree[f]
      BY <1>1, <2>1, PuttingTyped DEF StoreTypes
    <2>3. \A g \in Files : InTurn(r, g) => g = f
      BY <2>1, RunsAssumption DEF InTurn
    <2>4. tree[f] = request[r].manifest[f] \/ f \in request[r].moved
      BY <2>1 DEF InTurn, Follows
    <2>5. At(r, "files") /\ request[r].todo # {}
      BY <2>1 DEF InTurn
    <2>6. QED
      BY <1>1, <2>1, <2>2, <2>3, <2>4, <2>5 DEF w, Follows, At, InTurn
  <1>9. ASSUME NEW f \in Files, StoreFile(r, f)
        PROVE  Follows(r)'
    <2>1. PICK blob : StoreVersion(r, f, blob)
      BY <1>9 DEF StoreFile
    <2>2. put'[w].stage = "none"
      BY <1>1, <2>1, NoPutTyped DEF w, StoreVersion, StoreTypes
    <2>3. request[r] \in RequestType
      BY DEF StoreTypes
    <2>4. /\ request'[r].todo \subseteq request[r].todo
          /\ request'[r].manifest = request[r].manifest
          /\ request'[r].moved = request[r].moved
      BY <2>1, <2>3 DEF StoreVersion, StoreTypes, RequestType
    <2>5. QED
      BY <1>1, <2>2, <2>4, FollowsCleared DEF w
  <1>10. QED
    BY <1>2, <1>4, <1>5, <1>6, <1>7, <1>8, <1>9 DEF Handler

LEMMA StepFollows ==
    ASSUME RunTypes, BlobsKept, [RunNext]_runVars, NEW r \in Runs, Follows(r), Requested(r)
    PROVE  Follows(r)'
  <1> USE DEF RunTypes
  <1> DEFINE w == MainOf(r)
  <1>1. w \in Writers /\ put[w] \in Put
    BY OwnWriters DEF StoreTypes
  <1>2. put[w].stage = "none" \/ put[w].stage # "none"
    OBVIOUS
  <1>3. ASSUME UNCHANGED <<request, tree, put>> PROVE Follows(r)'
    BY <1>3, FollowsQuiet
  <1>4. ASSUME NEW q \in Runs, Handler(q) \/ Drop(q) PROVE Follows(r)'
    <2>1. CASE q # r
      <3>1. request'[r] = request[r] /\ tree' = tree
        BY <1>4, <2>1, HandlerOwn, HandlerLeaves
      <3>2. put'[w] = put[w]
        BY <1>1, <1>4, <2>1, HandlerOwn, OwnWriters DEF StoreTypes
      <3>3. QED
        BY <3>1, <3>2, FollowsQuiet
    <2>2. QED
      BY <1>4, <2>1, HandlerFollows
  <1>5. ASSUME NEW q \in Runs, Transcript(q) PROVE Follows(r)'
    <2>1. request' = request /\ tree' = tree
      BY <1>5, TranscriptLeaves
    <2>2. put'[w] = put[w]
      BY <1>1, <1>5, OwnWriters DEF Transcript, Admit, StoreChunk, RefuseChunk, StoreTypes
    <2>3. QED
      BY <2>1, <2>2, FollowsQuiet
  <1>6. ASSUME NEW x \in Writers, Blob(x) PROVE Follows(r)'
    <2>1. request' = request /\ tree' = tree
      BY <1>6 DEF Blob, ownVars
    <2>2. Look(x) \/ Persist(x) \/ Record(x) \/ CannotWrite(x)
      BY <1>6 DEF Blob
    <2>3. \/ put'[w] = put[w]
          \/ put[w].stage # "none" /\ put'[w].content = put[w].content
      BY <1>1, <2>2, BlobStep
    <2>4. QED
      BY <2>1, <2>3, FollowsQuiet
  <1>7. ASSUME NEW q \in Runs, cli[q] \in {"idle", "returned"}, UNCHANGED <<tree, put>>,
               request' = request \/ \E op, step : Asks(q, op, step)
        PROVE  Follows(r)'
    <2>1. CASE request'[r] = request[r]
      BY <1>7, <2>1, FollowsQuiet
    <2>2. CASE request'[r] # request[r]
      <3>1. q = r /\ request'[r].todo = {}
        BY <1>7, <2>2 DEF Asks, StoreTypes, NoRequest
      <3>2. request[r].op \in {"none", "prepare", "complete"}
        BY DEF StoreTypes, RequestType
      <3>3. At(r, "none")
        BY <1>7, <3>1, <3>2 DEF Requested
      <3>4. QED
        BY <1>7, <3>1, <3>3 DEF Follows, At
    <2>3. QED
      BY <2>1, <2>2
  <1>8. ASSUME NEW q \in Runs,
               Tasks(q) \/ Cli(q) \/ Forward(q) \/ \E status \in given.ends : Exit(q, status)
        PROVE  Follows(r)'
    <2>1. CASE Tasks(q)
      BY <1>3, <2>1 DEF Tasks, ReportRoot, SendChunk, ChunkAnswered, EndTape, InTask, blobVars
    <2>2. CASE Spawn(q) \/ SeeExit(q)
      BY <1>3, <2>2 DEF Spawn, SeeExit, InCommand, blobVars
    <2>3. CASE Forward(q) \/ \E status \in given.ends : Exit(q, status)
      BY <1>3, <2>3 DEF Forward, Exit, InTerminal, blobVars
    <2>4. CASE Prepared(q) \/ Completed(q)
      <3>1. UNCHANGED <<tree, put>>
        BY <2>4 DEF Prepared, Completed, InCommand, blobVars
      <3>2. \/ request'[r] = request[r]
            \/ request'[r].todo = {} /\ ~At(r, "files") /\ ~At(r, "git")
        BY <2>4 DEF Prepared, Completed, At, StoreTypes, NoRequest
      <3>3. QED
        BY <3>1, <3>2, FollowsQuiet DEF Follows
    <2>5. CASE AskComplete(q)
      BY <1>7, <2>5 DEF AskComplete, Command, InCommand, blobVars
    <2>6. QED
      BY <1>8, <2>1, <2>2, <2>3, <2>4, <2>5 DEF Cli
  <1>9. ASSUME NEW q \in Runs, Environment(q) PROVE Follows(r)'
    <2>1. CASE Write(q) \/ ChunkGivenUp(q)
      BY <1>3, <2>1 DEF Write, ChunkGivenUp, InTerminal, InTask, blobVars
    <2>2. CASE GiveUp(q) \/ CannotSpawn(q) \/ TerminalFails(q)
      BY <1>3, <2>2 DEF GiveUp, CannotSpawn, TerminalFails, InCommand, blobVars
    <2>3. CASE StartRun(q)
      BY <1>7, <2>3 DEF StartRun, Command, InCommand, blobVars
    <2>4. QED
      BY <1>4, <1>9, <2>1, <2>2, <2>3 DEF Environment
  <1>10. CASE StopDaemon
    <2>1. put'[w].stage = "none" /\ tree' = tree
      BY <1>1, <1>10, NoPutTyped DEF StopDaemon
    <2>2. request[r] \in RequestType
      BY DEF StoreTypes
    <2>3. /\ request'[r].todo = request[r].todo
          /\ request'[r].manifest = request[r].manifest
          /\ request'[r].moved = request[r].moved
      BY <1>10, <2>2 DEF StopDaemon, RequestType
    <2>4. QED
      BY <2>1, <2>3, FollowsCleared
  <1>11. ASSUME NEW f \in Files, NEW c \in Contents \cup {Missing}, Edit(f, c)
         PROVE  Follows(r)'
    <2>1. request[r] \in RequestType
      BY DEF StoreTypes
    <2>2. /\ request'[r].step = request[r].step /\ request'[r].todo = request[r].todo
          /\ request'[r].manifest = request[r].manifest
          /\ request'[r].moved = request[r].moved \cup {f}
      BY <1>11, <2>1 DEF Edit, RequestType
    <2>3. put' = put /\ \A g \in Files : g # f => tree'[g] = tree[g]
      BY <1>11 DEF Edit, StoreTypes, blobVars
    <2>4. request[r].todo \subseteq Files
      BY <2>1 DEF RequestType
    <2>5. QED
      BY <2>2, <2>3, <2>4 DEF Follows, At, InTurn
  <1>12. CASE UNCHANGED <<request, tree, blobs, put>>
    BY <1>3, <1>12
  <1>13. ASSUME NEW c \in Contents, Decay(c), UNCHANGED ownVars PROVE Follows(r)'
    BY <1>3, <1>13 DEF Decay, ownVars
  <1>14. CASE UNCHANGED runVars
    BY <1>3, <1>14 DEF runVars, ownVars, blobVars
  <1>15. CASE Scheduled
    BY <1>4, <1>5, <1>6, <1>8, <1>15 DEF Scheduled
  <1>16. QED
    BY <1>9, <1>10, <1>11, <1>13, <1>14, <1>15 DEF RunNext

LEMMA BackedQuiet ==
    ASSUME RunTypes, StoreGrows, NEW r \in Runs, Backed(r),
           rows'[r].versions = rows[r].versions, rows'[r].git = rows[r].git
    PROVE  Backed(r)'
  <1>1. \A v \in rows[r].versions : v.blob \in Contents \cup {Missing}
    BY DEF RunTypes, StoreTypes, Row, Version
  <1>2. QED
    BY <1>1, RunsAssumption DEF Backed, StoreGrows

\* What a request stores is backed: the content that was put, or none.
LEMMA HandlerBacked ==
    ASSUME RunTypes, BlobsKept, StoreGrows, NEW r \in Runs, Handler(r) \/ Drop(r),
           Follows(r), Backed(r)
    PROVE  Backed(r)'
  <1> USE DEF RunTypes
  <1> DEFINE w == MainOf(r)
  <1>1. w \in Writers /\ rows[r] \in Row
    BY OwnWriters DEF StoreTypes
  <1>2. CASE SaveGit(r)
    <2>1. put[w].stage = "recorded" /\ At(r, "git")
      BY <1>2 DEF SaveGit
    <2>2. put[w].content = GitState
      BY <2>1 DEF Follows, At
    <2>3. GitState \in blobRows'
      BY <1>1, <2>1, <2>2 DEF BlobsKept, StoreGrows
    <2>4. rows'[r].versions = rows[r].versions
      BY <1>1, <1>2 DEF SaveGit, StoreTypes, Row
    <2>5. \A v \in rows[r].versions : v.blob \in Contents \cup {Missing}
      BY <1>1 DEF Row, Version
    <2>6. QED
      BY <2>3, <2>4, <2>5 DEF Backed, StoreGrows
  <1>3. ASSUME NEW f \in Files, StoreFile(r, f)
        PROVE  Backed(r)'
    <2>1. PICK blob \in Contents \cup {Missing} :
            /\ StoreVersion(r, f, blob)
            /\ blob # Missing => put[w].stage \in {"stored", "recorded"} /\ blob = put[w].content
      BY <1>1, <1>3, PutCases DEF StoreFile, StoreTypes
    <2>2. PICK v : v = [phase |-> Phase(r), file |-> f, hash |-> request[r].manifest[f],
                        blob |-> blob, moved |-> f \in request[r].moved]
      OBVIOUS
    <2>3. v.blob = blob /\ v.hash = request[r].manifest[f] /\ v.moved = (f \in request[r].moved)
      BY <2>2
    <2>4. InTurn(r, f)
      BY <2>1 DEF StoreVersion
    <2>5. blob # Missing => /\ Kept(blob)
                            /\ blob = request[r].manifest[f] \/ f \in request[r].moved
      BY <1>1, <2>1, <2>4 DEF Follows, BlobsKept
    <2>6. blob # Missing => Kept(blob)'
      BY <2>1, <2>5 DEF StoreGrows
    <2>7. /\ rows'[r].versions = rows[r].versions \cup {v}
          /\ rows'[r].git = rows[r].git
      BY <1>1, <2>1, <2>2 DEF StoreVersion, StoreTypes, Row
    <2>8. \A u \in rows[r].versions : u.blob \in Contents \cup {Missing}
      BY <1>1 DEF Row, Version
    <2>9. blobRows \subseteq blobRows' /\ \A u \in rows[r].versions :
            u.blob # Missing => Kept(u.blob)'
      BY <2>8 DEF Backed, StoreGrows
    <2>10. QED
      BY <2>3, <2>5, <2>6, <2>7, <2>9 DEF Backed, Kept
  <1>4. CASE CreateSession(r) \/ SaveSnapshot(r) \/ StoreStart(r) \/ StoreEndEvent(r)
    BY <1>1, <1>4, BackedQuiet
       DEF CreateSession, SaveSnapshot, StoreStart, StoreEndEvent, StoreTypes, Row
  <1>5. CASE Finalize(r) \/ CloseSession(r)
    BY <1>1, <1>5, BackedQuiet DEF Finalize, CloseSession, StoreTypes, Row
  <1>6. CASE Capture(r) \/ PutGit(r) \/ Open(r) \/ LeaveSession(r) \/ Refuse(r) \/ Drop(r)
    BY <1>6, BackedQuiet DEF Capture, PutGit, Open, LeaveSession, Refuse, Drop
  <1>7. ASSUME NEW f \in Files, ReadFile(r, f) PROVE Backed(r)'
    BY <1>7, BackedQuiet DEF ReadFile
  <1>8. QED
    BY <1>2, <1>3, <1>4, <1>5, <1>6, <1>7 DEF Handler

\* Only handlers write rows.
LEMMA OthersKeepRows ==
    ASSUME RunTypes, [RunNext]_runVars
    PROVE  rows' = rows \/ \E r \in Runs : Handler(r)
  <1>1. ASSUME NEW r \in Runs, Tasks(r) \/ Cli(r) \/ Transcript(r) \/ Forward(r)
        PROVE  rows' = rows
    <2>1. CASE Tasks(r)
      BY <2>1 DEF Tasks, ReportRoot, SendChunk, ChunkAnswered, EndTape, InTask
    <2>2. CASE Cli(r)
      BY <2>2 DEF Cli, Prepared, Spawn, SeeExit, AskComplete, Completed, InCommand
    <2>3. CASE Transcript(r)
      BY <2>3, TranscriptLeaves
    <2>4. QED
      BY <1>1, <2>1, <2>2, <2>3 DEF Forward, InTerminal
  <1>2. ASSUME NEW r \in Runs, Environment(r) PROVE rows' = rows
    <2>1. CASE Write(r) \/ ChunkGivenUp(r) \/ Drop(r)
      BY <2>1 DEF Write, ChunkGivenUp, Drop, InTerminal, InTask
    <2>2. CASE StartRun(r) \/ GiveUp(r) \/ CannotSpawn(r) \/ TerminalFails(r)
      BY <2>2 DEF StartRun, GiveUp, CannotSpawn, TerminalFails, InCommand
    <2>3. QED
      BY <1>2, <2>1, <2>2 DEF Environment
  <1>3. CASE Scheduled
    BY <1>1, <1>3 DEF Scheduled, Blob, ownVars, Exit, InTerminal
  <1>4. QED
    BY <1>2, <1>3 DEF RunNext, StopDaemon, Edit, ownVars, runVars

\* What the requests rely on of the store, and what the rows name, holds in every step.
LEMMA StepKeepsStore ==
    ASSUME RunTypes, StoreInv, \A r \in Runs : Requested(r), [RunNext]_runVars
    PROVE  StoreInv'
  <1> USE DEF StoreInv
  <1>1. BlobsKept' /\ StoreGrows
    BY StepKeepsBlobs
  <1>2. ASSUME NEW r \in Runs PROVE Follows(r)'
    BY <1>2, StepFollows
  <1>3. ASSUME NEW r \in Runs PROVE Backed(r)'
    <2>1. CASE rows'[r] = rows[r]
      BY <1>1, <2>1, BackedQuiet
    <2>2. CASE Handler(r)
      BY <1>1, <2>2, HandlerBacked
    <2>3. ASSUME NEW q \in Runs, Handler(q), q # r PROVE rows'[r] = rows[r]
      BY <2>3, HandlerOwn
    <2>4. QED
      BY <2>1, <2>2, <2>3, OthersKeepRows
  <1>4. QED
    BY <1>1, <1>2, <1>3
-----------------------------------------------------------------------------
(* The command, its requests and the rows they fill go together. *)

LEMMA CommandQuiet ==
    ASSUME NEW r \in Runs, Ordered(r), daemon' = daemon,
           request'[r].op = request[r].op, request'[r].step = request[r].step,
           cli'[r] = cli[r], agent'[r] = agent[r], result'[r] = result[r], root'[r] = root[r],
           rows'[r] = rows[r], r \in active' <=> r \in active, r \in rooted' <=> r \in rooted,
           r \in cut => r \in cut'
    PROVE  Ordered(r)'
  BY DEF Ordered, Requested, Launched, Prepares, Completes, Opened, Begun, Ended, At

\* Sessions are opened and left by their own handlers.
LEMMA HandlerMembers ==
    ASSUME NEW r \in Runs, Handler(r) \/ Drop(r), NEW q \in Runs, q # r
    PROVE  (q \in active' <=> q \in active) /\ (q \in rooted' <=> q \in rooted)
  <1>1. CASE LeaveSession(r)
    BY <1>1 DEF LeaveSession
  <1>2. CASE Open(r)
    BY <1>2 DEF Open, InDaemon, taskVars
  <1>3. CASE Capture(r) \/ CreateSession(r) \/ SaveSnapshot(r) \/ PutGit(r) \/ SaveGit(r)
    BY <1>3 DEF Capture, CreateSession, SaveSnapshot, PutGit, SaveGit, InDaemon, taskVars
  <1>4. CASE StoreStart(r) \/ StoreEndEvent(r) \/ Finalize(r) \/ CloseSession(r)
    BY <1>4 DEF StoreStart, StoreEndEvent, Finalize, CloseSession, InDaemon, taskVars
  <1>5. CASE Refuse(r) \/ Drop(r)
    BY <1>5 DEF Refuse, Drop, InDaemon, taskVars
  <1>6. ASSUME NEW f \in Files, ReadFile(r, f) \/ StoreFile(r, f)
        PROVE  active' = active /\ rooted' = rooted
    BY <1>6 DEF ReadFile, StoreFile, StoreVersion, InDaemon, taskVars
  <1>7. QED
    BY <1>1, <1>2, <1>3, <1>4, <1>5, <1>6 DEF Handler

\* Each write of a handler finds what the ones before it have stored.
LEMMA HandlerOrdered ==
    ASSUME RunTypes, NEW r \in Runs, Handler(r) \/ Drop(r), Ordered(r)
    PROVE  Ordered(r)'
  <1> USE DEF RunTypes
  <1>1. /\ daemon' = daemon /\ cut' = cut /\ cli'[r] = cli[r] /\ agent'[r] = agent[r]
        /\ result'[r] = result[r] /\ root'[r] = root[r]
    BY HandlerLeaves
  <1>2. /\ rows[r] \in Row /\ request[r] \in RequestType
        /\ request[r].op \in {"none", "prepare", "complete"}
    BY DEF StoreTypes, RequestType
  <1>3. ASSUME NEW step \in {"files", "git", "join", "start", "ok", "end", "error", "capture",
                             "finalize", "close"},
               Becomes(r, step)
        PROVE  request'[r].op = request[r].op /\ request'[r].step = step
    BY <1>3, RequestMoves DEF StoreTypes
  <1>4. CASE CreateSession(r)
    <2>1. request[r].step = "row" /\ request'[r].step = "files"
      BY <1>3, <1>4 DEF CreateSession, At
    <2>2. request'[r].op = request[r].op /\ active' = active /\ rooted' = rooted
      BY <1>3, <1>4 DEF CreateSession, InDaemon, taskVars
    <2>3. /\ rows'[r].state = "active"
          /\ rows'[r].outcome = rows[r].outcome
          /\ rows'[r].events = rows[r].events
          /\ rows'[r].snapshots = rows[r].snapshots
          /\ rows'[r].git = rows[r].git
          /\ rows'[r].closed = rows[r].closed
      BY <1>2, <1>4 DEF CreateSession, StoreTypes, Row
    <2>4. QED
      BY <1>1, <1>2, <2>1, <2>2, <2>3
         DEF Ordered, Requested, Launched, Prepares, Completes, Opened, Begun, Ended, At
  <1>5. CASE SaveSnapshot(r)
    <2>1. request[r].step = "files" /\ request'[r].step = "git"
      BY <1>3, <1>5 DEF SaveSnapshot, At
    <2>2. request'[r].op = request[r].op /\ active' = active /\ rooted' = rooted
      BY <1>3, <1>5 DEF SaveSnapshot, InDaemon, taskVars
    <2>3. /\ rows'[r].snapshots = rows[r].snapshots \cup {Phase(r)}
          /\ rows'[r].state = rows[r].state
          /\ rows'[r].outcome = rows[r].outcome
          /\ rows'[r].events = rows[r].events
          /\ rows'[r].git = rows[r].git
          /\ rows'[r].closed = rows[r].closed
      BY <1>2, <1>5 DEF SaveSnapshot, StoreTypes, Row
    <2>4. QED
      BY <1>1, <1>2, <2>1, <2>2, <2>3
         DEF Ordered, Requested, Launched, Prepares, Completes, Opened, Begun, Ended, At, Phase
  <1>6. CASE SaveGit(r)
    <2>1. /\ request[r].step = "git"
          /\ request'[r].step = IF request[r].op = "prepare" THEN "join" ELSE "finalize"
      BY <1>3, <1>6 DEF SaveGit, At
    <2>2. request'[r].op = request[r].op /\ active' = active /\ rooted' = rooted
      BY <1>3, <1>6 DEF SaveGit, InDaemon, taskVars
    <2>3. /\ rows'[r].git = rows[r].git \cup {Phase(r)}
          /\ rows'[r].state = rows[r].state
          /\ rows'[r].outcome = rows[r].outcome
          /\ rows'[r].events = rows[r].events
          /\ rows'[r].snapshots = rows[r].snapshots
          /\ rows'[r].closed = rows[r].closed
      BY <1>2, <1>6 DEF SaveGit, StoreTypes, Row
    <2>4. QED
      BY <1>1, <1>2, <2>1, <2>2, <2>3
         DEF Ordered, Requested, Launched, Prepares, Completes, Opened, Begun, Ended, At, Phase
  <1>7. CASE StoreStart(r)
    <2>1. request[r].step = "start" /\ request'[r].step = "ok"
      BY <1>3, <1>7 DEF StoreStart, At
    <2>2. request'[r].op = request[r].op /\ active' = active /\ rooted' = rooted
      BY <1>3, <1>7 DEF StoreStart, InDaemon, taskVars
    <2>3. /\ rows'[r].events = rows[r].events \cup {"start"}
          /\ rows'[r].state = rows[r].state
          /\ rows'[r].outcome = rows[r].outcome
          /\ rows'[r].snapshots = rows[r].snapshots
          /\ rows'[r].git = rows[r].git
          /\ rows'[r].closed = rows[r].closed
      BY <1>2, <1>7 DEF StoreStart, StoreTypes, Row
    <2>4. QED
      BY <1>1, <1>2, <2>1, <2>2, <2>3
         DEF Ordered, Requested, Launched, Prepares, Completes, Opened, Begun, Ended, At
  <1>8. CASE StoreEndEvent(r)
    <2>1. request[r].step = "end" /\ request'[r].step = "capture"
      BY <1>3, <1>8 DEF StoreEndEvent, At
    <2>2. request'[r].op = request[r].op /\ active' = active /\ rooted' = rooted
      BY <1>3, <1>8 DEF StoreEndEvent, InDaemon, taskVars
    <2>3. /\ rows'[r].events = rows[r].events \cup {"end"}
          /\ rows'[r].state = rows[r].state
          /\ rows'[r].outcome = rows[r].outcome
          /\ rows'[r].snapshots = rows[r].snapshots
          /\ rows'[r].git = rows[r].git
          /\ rows'[r].closed = rows[r].closed
      BY <1>2, <1>8 DEF StoreEndEvent, StoreTypes, Row
    <2>4. QED
      BY <1>1, <1>2, <2>1, <2>2, <2>3
         DEF Ordered, Requested, Launched, Prepares, Completes, Opened, Begun, Ended, At
  <1>9. CASE Finalize(r)
    <2>1. request[r].step = "finalize" /\ request'[r].step = "close"
      BY <1>3, <1>9 DEF Finalize, At
    <2>2. request'[r].op = request[r].op /\ active' = active /\ rooted' = rooted
      BY <1>3, <1>9 DEF Finalize, InDaemon, taskVars
    <2>3. /\ rows'[r].closed = (r \notin Imported)
          /\ rows'[r].state = rows[r].state
          /\ rows'[r].outcome = rows[r].outcome
          /\ rows'[r].events = rows[r].events
          /\ rows'[r].snapshots = rows[r].snapshots
          /\ rows'[r].git = rows[r].git
      BY <1>2, <1>9 DEF Finalize, StoreTypes, Row
    <2>4. QED
      BY <1>1, <1>2, <2>1, <2>2, <2>3
         DEF Ordered, Requested, Launched, Prepares, Completes, Opened, Begun, Ended, At
  <1>10. CASE CloseSession(r)
    <2>1. request[r].step = "close" /\ request'[r].step = "ok"
      BY <1>3, <1>10 DEF CloseSession, At
    <2>2. request'[r].op = request[r].op /\ active' = active /\ rooted' = rooted
      BY <1>3, <1>10 DEF CloseSession, InDaemon, taskVars
    <2>3. /\ rows'[r].state = "complete"
          /\ result[r] \in Exits => rows'[r].outcome = result[r]
          /\ rows'[r].events = rows[r].events
          /\ rows'[r].snapshots = rows[r].snapshots
          /\ rows'[r].git = rows[r].git
          /\ rows'[r].closed = rows[r].closed
      BY <1>2, <1>10 DEF CloseSession, StoreTypes, Row
    <2>4. QED
      BY <1>1, <1>2, <2>1, <2>2, <2>3
         DEF Ordered, Requested, Launched, Prepares, Completes, Opened, Begun, Ended, At
  <1>11. CASE Capture(r)
    <2>1. /\ request[r].step = "capture" /\ request'[r].op = request[r].op
          /\ request'[r].step = IF request[r].op = "prepare" THEN "row" ELSE "files"
      BY <1>2, <1>11 DEF Capture, At, StoreTypes, RequestType
    <2>2. rows' = rows /\ active' = active /\ rooted' = rooted
      BY <1>11 DEF Capture, InDaemon, taskVars
    <2>3. QED
      BY <1>1, <1>2, <2>1, <2>2
         DEF Ordered, Requested, Launched, Prepares, Completes, Opened, Begun, Ended, At
  <1>12. CASE Open(r)
    <2>1. /\ request[r].step = "join" /\ request'[r].step = "start"
          /\ request'[r].op = request[r].op
      BY <1>3, <1>12 DEF Open, At
    <2>2. rows' = rows /\ active' = active \cup {r} /\ rooted' = rooted
      BY <1>12 DEF Open, InDaemon, taskVars
    <2>3. QED
      BY <1>1, <1>2, <2>1, <2>2
         DEF Ordered, Requested, Launched, Prepares, Completes, Opened, Begun, Ended, At
  <1>13. CASE LeaveSession(r)
    <2>1. /\ request[r].step = "leave" /\ request'[r].step \in {"end", "error"}
          /\ request'[r].op = request[r].op
      BY <1>3, <1>13 DEF LeaveSession, At
    <2>2. rows' = rows /\ r \notin active' /\ r \notin rooted'
      BY <1>13 DEF LeaveSession
    <2>3. QED
      BY <1>1, <1>2, <2>1, <2>2
         DEF Ordered, Requested, Launched, Prepares, Completes, Opened, Begun, Ended, At
  <1>14. CASE Refuse(r) \/ Drop(r)
    <2>1. /\ request[r].step \notin {"none", "ok", "error"} /\ request'[r].step = "error"
          /\ request'[r].op = request[r].op
      BY <1>3, <1>14 DEF Refuse, Drop, InProgress
    <2>2. rows' = rows /\ active' = active /\ rooted' = rooted
      BY <1>14 DEF Refuse, Drop, InDaemon, taskVars
    <2>3. QED
      BY <1>1, <1>2, <2>1, <2>2
         DEF Ordered, Requested, Launched, Prepares, Completes, Opened, Begun, Ended, At
  <1>15. CASE PutGit(r)
    BY <1>1, <1>15, CommandQuiet DEF PutGit, InDaemon, taskVars
  <1>16. ASSUME NEW f \in Files, ReadFile(r, f) PROVE Ordered(r)'
    BY <1>1, <1>16, CommandQuiet DEF ReadFile, InDaemon, taskVars
  <1>17. ASSUME NEW f \in Files, StoreFile(r, f) PROVE Ordered(r)'
    <2>1. PICK blob : StoreVersion(r, f, blob)
      BY <1>17 DEF StoreFile
    <2>2. /\ request[r].step = "files" /\ request'[r].step = "files"
          /\ request'[r].op = request[r].op
      BY <1>2, <2>1 DEF StoreVersion, InTurn, At, StoreTypes, RequestType
    <2>3. active' = active /\ rooted' = rooted
      BY <2>1 DEF StoreVersion, InDaemon, taskVars
    <2>4. /\ rows'[r].state = rows[r].state /\ rows'[r].outcome = rows[r].outcome
          /\ rows'[r].events = rows[r].events /\ rows'[r].snapshots = rows[r].snapshots
          /\ rows'[r].git = rows[r].git /\ rows'[r].closed = rows[r].closed
      BY <1>2, <2>1 DEF StoreVersion, StoreTypes, Row
    <2>5. QED
      BY <1>1, <1>2, <2>2, <2>3, <2>4
         DEF Ordered, Requested, Launched, Prepares, Completes, Opened, Begun, Ended, At
  <1>18. QED
    BY <1>4, <1>5, <1>6, <1>7, <1>8, <1>9, <1>10,
       <1>11, <1>12, <1>13, <1>14, <1>15, <1>16, <1>17 DEF Handler

LEMMA AsksEffect ==
    ASSUME RunTypes, NEW r \in Runs, NEW op, NEW step, Asks(r, op, step)
    PROVE  /\ request'[r].op = op /\ request'[r].step = step /\ request'[r].todo = {}
           /\ \A q \in Runs \ {r} : request'[q] = request[q]
  BY DEF Asks, NoRequest, RunTypes, StoreTypes

\* Between its two requests the command launches its agent and waits for it.
LEMMA CliOrdered ==
    ASSUME RunTypes, NEW r \in Runs, Cli(r), Ordered(r)
    PROVE  Ordered(r)'
  <1> USE DEF RunTypes
  <1>1. /\ daemon' = daemon /\ rows' = rows /\ active' = active /\ rooted' = rooted /\ cut' = cut
    BY DEF Cli, Prepared, Spawn, SeeExit, AskComplete, Completed, InCommand, taskVars
  <1>2. /\ request[r].op \in {"none", "prepare", "complete"}
        /\ NoRequest.op = "none" /\ NoRequest.step = "none"
    BY DEF StoreTypes, RequestType, NoRequest
  <1>3. CASE Prepared(r)
    <2>1. /\ request'[r].op = "none" /\ request'[r].step = "none"
          /\ cli[r] = "preparing" /\ request[r].step \in {"ok", "error"}
          /\ cli'[r] = IF request[r].step = "ok" THEN "launching" ELSE "failed"
      BY <1>2, <1>3 DEF Prepared, Command, At, StoreTypes, CommandTypes
    <2>2. agent' = agent /\ result' = result /\ root' = root
      BY <1>3 DEF Prepared, agentVars, taskVars
    <2>3. QED
      BY <1>1, <1>2, <2>1, <2>2
         DEF Ordered, Requested, Launched, Prepares, Completes, Opened, Begun, Ended, At
  <1>4. CASE Spawn(r)
    <2>1. /\ request' = request /\ result' = result /\ agent'[r] = "running"
          /\ root'[r] = "posting" /\ cli[r] = "launching" /\ cli'[r] = "running"
      BY <1>4 DEF Spawn, Command, CommandTypes
    <2>2. "none" \notin Exits
      BY DEF Exits
    <2>3. QED
      BY <1>1, <1>2, <2>1, <2>2
         DEF Ordered, Requested, Launched, Prepares, Completes, Opened, Begun, Ended, At
  <1>5. CASE SeeExit(r)
    <2>1. /\ request' = request /\ result'[r] = agent[r] /\ agent' = agent
          /\ root' = root /\ cli[r] = "running" /\ cli'[r] = "returned"
      BY <1>5 DEF SeeExit, Command, CommandTypes, agentVars, taskVars
    <2>2. QED
      BY <1>1, <1>2, <2>1
         DEF Ordered, Requested, Launched, Prepares, Completes, Opened, Begun, Ended, At
  <1>6. CASE AskComplete(r)
    <2>1. agent' = agent /\ result' = result /\ root' = root
      BY <1>6 DEF AskComplete, agentVars, taskVars
    <2>2. cli[r] = "returned"
      BY <1>6 DEF AskComplete, Command
    <2>3. \/ /\ cli'[r] = "completing" /\ request'[r].op = "complete"
             /\ request'[r].step = "leave"
          \/ cli'[r] = "failed" /\ request' = request
      <3>1. CASE Command(r, "returned", "completing") /\ Asks(r, "complete", "leave")
        BY <3>1, AsksEffect DEF Command, CommandTypes
      <3>2. CASE Command(r, "returned", "failed") /\ UNCHANGED request
        BY <3>2 DEF Command, CommandTypes
      <3>3. QED
        BY <1>6, <3>1, <3>2 DEF AskComplete
    <2>4. QED
      BY <1>1, <1>2, <2>1, <2>2, <2>3
         DEF Ordered, Requested, Launched, Prepares, Completes, Opened, Begun, Ended, At
  <1>7. CASE Completed(r)
    <2>1. /\ request'[r].op = "none" /\ request'[r].step = "none"
          /\ cli[r] = "completing" /\ cli'[r] \in {"done", "failed"}
      BY <1>2, <1>7 DEF Completed, Command, StoreTypes, CommandTypes
    <2>2. agent' = agent /\ result' = result /\ root' = root
      BY <1>7 DEF Completed, agentVars, taskVars
    <2>3. QED
      BY <1>1, <1>2, <2>1, <2>2
         DEF Ordered, Requested, Launched, Prepares, Completes, Opened, Begun, Ended, At
  <1>8. QED
    BY <1>3, <1>4, <1>5, <1>6, <1>7 DEF Cli

LEMMA EnvironmentOrdered ==
    ASSUME RunTypes, NEW r \in Runs, Environment(r), Ordered(r)
    PROVE  Ordered(r)'
  <1> USE DEF RunTypes
  <1>1. CASE Drop(r)
    BY <1>1, HandlerOrdered
  <1>2. CASE Write(r)
    BY <1>2, CommandQuiet DEF Write, InTerminal, taskVars
  <1>3. CASE ChunkGivenUp(r)
    BY <1>3, CommandQuiet DEF ChunkGivenUp, InTask, agentVars
  <1>4. request[r].op \in {"none", "prepare", "complete"}
    BY DEF StoreTypes, RequestType
  <1>5. ASSUME InCommand
        PROVE  daemon' = daemon /\ rows' = rows /\ active' = active
    BY <1>5 DEF InCommand
  <1>6. CASE StartRun(r)
    <2>1. /\ agent' = agent /\ result' = result /\ root' = root
          /\ rooted' = rooted /\ cut' = cut /\ cli[r] = "idle"
      BY <1>6 DEF StartRun, Command, agentVars, taskVars
    <2>2. InCommand
      BY <1>6 DEF StartRun
    <2>3. \/ /\ cli'[r] = "preparing" /\ request'[r].op = "prepare"
             /\ request'[r].step = "capture"
          \/ cli'[r] = "failed" /\ request' = request
      <3>1. CASE Command(r, "idle", "preparing") /\ Asks(r, "prepare", "capture")
        BY <3>1, AsksEffect DEF Command, CommandTypes
      <3>2. CASE Command(r, "idle", "failed") /\ UNCHANGED request
        BY <3>2 DEF Command, CommandTypes
      <3>3. QED
        BY <1>6, <3>1, <3>2 DEF StartRun
    <2>4. QED
      BY <1>4, <1>5, <2>1, <2>2, <2>3
         DEF Ordered, Requested, Launched, Prepares, Completes, Opened, Begun, Ended, At
  <1>7. CASE GiveUp(r)
    <2>1. /\ request' = request /\ agent' = agent /\ result' = result /\ root' = root
          /\ rooted' = rooted /\ cut' = cut
          /\ cli[r] \in {"preparing", "completing"} /\ cli'[r] = "failed"
      BY <1>7 DEF GiveUp, Command, CommandTypes, agentVars, taskVars
    <2>2. InCommand
      BY <1>7 DEF GiveUp
    <2>3. QED
      BY <1>4, <1>5, <2>1, <2>2
         DEF Ordered, Requested, Launched, Prepares, Completes, Opened, Begun, Ended, At
  <1>8. CASE CannotSpawn(r) \/ TerminalFails(r)
    <2>1. /\ request' = request /\ agent' = agent /\ result'[r] = "unlaunched"
          /\ rooted' = rooted /\ cut' = cut /\ cli'[r] = "returned"
          /\ \/ cli[r] = "launching"
             \/ cli[r] = "running" /\ root' = root
      BY <1>8 DEF CannotSpawn, TerminalFails, Command, CommandTypes, agentVars, taskVars
    <2>2. InCommand
      BY <1>8 DEF CannotSpawn, TerminalFails
    <2>3. "unlaunched" \notin Exits
      BY DEF Exits
    <2>4. QED
      BY <1>4, <1>5, <2>1, <2>2, <2>3
         DEF Ordered, Requested, Launched, Prepares, Completes, Opened, Begun, Ended, At
  <1>9. QED
    BY <1>1, <1>2, <1>3, <1>6, <1>7, <1>8 DEF Environment

LEMMA TaskOrdered ==
    ASSUME RunTypes, NEW r \in Runs, Tasks(r), Ordered(r)
    PROVE  Ordered(r)'
  <1>1. CASE ReportRoot(r)
    <2>1. /\ daemon' = daemon /\ rows' = rows /\ active' = active /\ request' = request
          /\ cli' = cli /\ agent' = agent /\ result' = result /\ cut \subseteq cut'
          /\ \/ r \in rooted' /\ r \in active
             \/ rooted' = rooted /\ (r \notin active \/ r \in cut')
      BY <1>1 DEF ReportRoot, InTask, agentVars
    <2>2. QED
      BY <2>1 DEF Ordered, Requested, Launched, Prepares, Completes, Opened, Begun, Ended, At
  <1>2. CASE SendChunk(r) \/ ChunkAnswered(r) \/ EndTape(r)
    <2>1. /\ daemon' = daemon /\ rows' = rows /\ active' = active /\ request' = request
          /\ cli' = cli /\ agent' = agent /\ result' = result /\ cut \subseteq cut'
          /\ root' = root /\ rooted' = rooted
      BY <1>2 DEF SendChunk, ChunkAnswered, EndTape, InTask, agentVars
    <2>2. QED
      BY <2>1, CommandQuiet
  <1>3. QED
    BY <1>1, <1>2 DEF Tasks

\* What a run does leaves the others as they are.
LEMMA OthersOrdered ==
    ASSUME RunTypes, NEW r \in Runs, NEW q \in Runs, q # r, Ordered(r),
           \/ Handler(q) \/ Tasks(q) \/ Cli(q) \/ Environment(q)
           \/ \E status \in Exits : Exit(q, status)
    PROVE  Ordered(r)'
  <1> USE DEF RunTypes
  <1>1. CASE Handler(q) \/ Drop(q)
    <2>1. request'[r] = request[r] /\ rows'[r] = rows[r]
      BY <1>1, HandlerOwn
    <2>2. (r \in active' <=> r \in active) /\ (r \in rooted' <=> r \in rooted)
      BY <1>1, HandlerMembers
    <2>3. /\ daemon' = daemon /\ cut' = cut /\ cli' = cli /\ agent' = agent
          /\ result' = result /\ root' = root
      BY <1>1, HandlerLeaves
    <2>4. QED
      BY <2>1, <2>2, <2>3, CommandQuiet
  <1>2. CASE Tasks(q)
    <2>1. CASE ReportRoot(q)
      BY <2>1, CommandQuiet DEF ReportRoot, InTask, agentVars, CommandTypes
    <2>2. CASE SendChunk(q) \/ ChunkAnswered(q) \/ EndTape(q)
      BY <2>2, CommandQuiet DEF SendChunk, ChunkAnswered, EndTape, InTask, agentVars
    <2>3. QED
      BY <1>2, <2>1, <2>2 DEF Tasks
  <1>3. ASSUME InCommand, rooted' = rooted, cut' = cut,
               request'[r] = request[r], cli'[r] = cli[r], agent'[r] = agent[r],
               result'[r] = result[r], root'[r] = root[r]
        PROVE  Ordered(r)'
    BY <1>3, CommandQuiet DEF InCommand
  <1>4. CASE AskComplete(q) \/ StartRun(q)
    <2>1. request'[r] = request[r]
      BY <1>4, AsksEffect DEF AskComplete, StartRun
    <2>2. cli'[r] = cli[r]
      BY <1>4 DEF AskComplete, StartRun, Command, CommandTypes
    <2>3. QED
      BY <1>3, <1>4, <2>1, <2>2 DEF AskComplete, StartRun, agentVars, taskVars
  <1>5. CASE Prepared(q) \/ Completed(q)
    BY <1>3, <1>5 DEF Prepared, Completed, Command, agentVars, taskVars, CommandTypes, StoreTypes
  <1>6. CASE GiveUp(q) \/ Spawn(q) \/ SeeExit(q) \/ CannotSpawn(q) \/ TerminalFails(q)
    BY <1>3, <1>6 DEF GiveUp, Spawn, SeeExit, CannotSpawn, TerminalFails, Command, agentVars,
                      taskVars, CommandTypes
  <1>7. CASE Write(q)
    BY <1>7, CommandQuiet DEF Write, InTerminal, taskVars
  <1>8. ASSUME NEW status \in Exits, Exit(q, status) PROVE Ordered(r)'
    BY <1>8, CommandQuiet DEF Exit, InTerminal, taskVars, CommandTypes
  <1>9. CASE ChunkGivenUp(q)
    BY <1>9, CommandQuiet DEF ChunkGivenUp, InTask, agentVars
  <1>10. QED
    BY <1>1, <1>2, <1>4, <1>5, <1>6, <1>9, <1>7, <1>8 DEF Cli, Environment

LEMMA StepKeepsOrder ==
    ASSUME RunTypes, CommandInv, [RunNext]_runVars
    PROVE  CommandInv'
  <1> USE DEF RunTypes
  <1> SUFFICES ASSUME NEW r \in Runs PROVE Ordered(r)'
    BY DEF CommandInv
  <1>1. Ordered(r)
    BY DEF CommandInv
  <1>2. ASSUME NEW q \in Runs, Handler(q) PROVE Ordered(r)'
    BY <1>1, <1>2, HandlerOrdered, OthersOrdered
  <1>3. ASSUME NEW q \in Runs, Tasks(q) PROVE Ordered(r)'
    BY <1>1, <1>3, TaskOrdered, OthersOrdered
  <1>4. ASSUME NEW q \in Runs, Cli(q) PROVE Ordered(r)'
    BY <1>1, <1>4, CliOrdered, OthersOrdered
  <1>5. ASSUME NEW q \in Runs, Environment(q) PROVE Ordered(r)'
    BY <1>1, <1>5, EnvironmentOrdered, OthersOrdered
  <1>6. ASSUME NEW q \in Runs, NEW status \in given.ends, Exit(q, status) PROVE Ordered(r)'
    <2>1. status \in Exits
      BY DEF CommandTypes, Circumstance
    <2>2. CASE q = r
      <3>1. /\ daemon' = daemon /\ rows' = rows /\ active' = active /\ request' = request
            /\ cli' = cli /\ result' = result /\ root' = root /\ rooted' = rooted /\ cut' = cut
            /\ agent[r] = "running" /\ agent'[r] = status
        BY <1>6, <2>2 DEF Exit, InTerminal, taskVars, CommandTypes
      <3>2. "running" \notin Exits /\ status # "none"
        BY <2>1 DEF Exits
      <3>3. QED
        BY <1>1, <3>1, <3>2
           DEF Ordered, Requested, Launched, Prepares, Completes, Opened, Begun, Ended, At
    <2>3. QED
      BY <1>1, <1>6, <2>1, <2>2, OthersOrdered
  <1>7. ASSUME NEW q \in Runs, Transcript(q) PROVE Ordered(r)'
    BY <1>1, <1>7, TranscriptLeaves, CommandQuiet
  <1>8. ASSUME NEW q \in Runs, Forward(q) PROVE Ordered(r)'
    BY <1>1, <1>8, CommandQuiet DEF Forward, InTerminal, taskVars
  <1>9. CASE UNCHANGED ownVars
    BY <1>1, <1>9, CommandQuiet DEF ownVars
  <1>10. CASE Scheduled
    BY <1>2, <1>3, <1>4, <1>6, <1>7, <1>8, <1>9, <1>10 DEF Scheduled, Blob
  <1>11. request[r] \in RequestType
    BY DEF StoreTypes
  <1>12. CASE StopDaemon
    <2>1. /\ daemon' = "down" /\ active' = {} /\ rooted' = {} /\ rows' = rows /\ cli' = cli
          /\ result' = result /\ root' = root /\ agent' = agent
      BY <1>12 DEF StopDaemon, agentVars
    <2>2. /\ request'[r].op = request[r].op
          /\ request'[r].step = IF request[r].step \in {"none", "ok", "error"}
                                THEN request[r].step ELSE "error"
      BY <1>11, <1>12 DEF StopDaemon, InProgress, RequestType
    <2>3. QED
      BY <1>1, <2>1, <2>2
         DEF Ordered, Requested, Launched, Prepares, Completes, Opened, Begun, Ended, At
  <1>13. ASSUME NEW f \in Files, NEW c \in Contents \cup {Missing}, Edit(f, c)
         PROVE  Ordered(r)'
    <2>1. request'[r].op = request[r].op /\ request'[r].step = request[r].step
      BY <1>11, <1>13 DEF Edit, RequestType
    <2>2. QED
      BY <1>1, <1>13, <2>1, CommandQuiet DEF Edit, agentVars, taskVars
  <1>14. CASE UNCHANGED runVars
    BY <1>9, <1>14 DEF runVars
  <1>15. QED
    BY <1>5, <1>9, <1>10, <1>12, <1>13, <1>14 DEF RunNext
-----------------------------------------------------------------------------
(* The transcript is stored chunk by chunk until the agent has ended. *)

LEMMA TapeQuiet ==
    ASSUME NEW r \in Runs, TapeEnds(r), TapeStored(r), given' = given, daemon' = daemon,
           cli'[r] = cli[r], agent'[r] = agent[r], request'[r].op = request[r].op,
           posted'[r] = posted[r], tape'[r] = tape[r], written'[r] = written[r],
           forwarded'[r] = forwarded[r], taken'[r] = taken[r], r \in cut => r \in cut',
           rows'[r].state = "complete" => rows[r].state = "complete" \/ tape[r] = "ended",
           blobRows \subseteq blobRows',
           put[ChunkOf(r)].stage # "none" =>
             put'[ChunkOf(r)].stage # "none"
               /\ put'[ChunkOf(r)].content = put[ChunkOf(r)].content
    PROVE  TapeEnds(r)' /\ TapeStored(r)'
  <1>1. TapeEnds(r)'
    BY DEF TapeEnds
  <1>2. TapeStored(r)'
    BY DEF TapeStored
  <1>3. QED
    BY <1>1, <1>2

\* A handler keeps to its request, and only the last one closes the session.
LEMMA HandlerCompletes ==
    ASSUME RunTypes, NEW r \in Runs, Handler(r) \/ Drop(r), Requested(r)
    PROVE  /\ request'[r].op = request[r].op
           /\ rows'[r].state = "complete" =>
                rows[r].state = "complete" \/ request[r].op = "complete"
  <1> USE DEF RunTypes
  <1>1. /\ rows[r] \in Row /\ request[r] \in RequestType
        /\ request[r].op \in {"none", "prepare", "complete"}
    BY DEF StoreTypes, RequestType
  <1>2. ASSUME NEW step \in {"files", "git", "join", "start", "ok", "end", "error", "capture",
                             "finalize", "close"},
               Becomes(r, step)
        PROVE  request'[r].op = request[r].op
    BY <1>2, RequestMoves DEF StoreTypes
  <1>3. CASE CloseSession(r)
    <2>1. request[r].op = "complete"
      BY <1>1, <1>3 DEF CloseSession, Requested, At
    <2>2. QED
      BY <1>2, <1>3, <2>1 DEF CloseSession
  <1>4. CASE CreateSession(r) \/ SaveSnapshot(r) \/ StoreStart(r) \/ StoreEndEvent(r)
    <2>1. request'[r].op = request[r].op
      BY <1>2, <1>4 DEF CreateSession, SaveSnapshot, StoreStart, StoreEndEvent
    <2>2. rows'[r].state = rows[r].state \/ rows'[r].state = "active"
      BY <1>1, <1>4 DEF CreateSession, SaveSnapshot, StoreStart, StoreEndEvent, StoreTypes, Row
    <2>3. QED
      BY <2>1, <2>2
  <1>5. CASE SaveGit(r) \/ Finalize(r)
    <2>1. request'[r].op = request[r].op
      BY <1>2, <1>5 DEF SaveGit, Finalize
    <2>2. rows'[r].state = rows[r].state
      BY <1>1, <1>5 DEF SaveGit, Finalize, StoreTypes, Row
    <2>3. QED
      BY <2>1, <2>2
  <1>6. CASE Capture(r)
    BY <1>1, <1>6 DEF Capture, StoreTypes, RequestType
  <1>7. CASE Open(r) \/ LeaveSession(r) \/ Refuse(r) \/ Drop(r) \/ PutGit(r)
    <2>1. request'[r].op = request[r].op
      BY <1>2, <1>7 DEF Open, LeaveSession, Refuse, Drop, PutGit
    <2>2. rows' = rows
      BY <1>7 DEF Open, LeaveSession, Refuse, Drop, PutGit
    <2>3. QED
      BY <2>1, <2>2
  <1>8. ASSUME NEW f \in Files, ReadFile(r, f)
        PROVE  request' = request /\ rows' = rows
    BY <1>8 DEF ReadFile
  <1>9. ASSUME NEW f \in Files, StoreFile(r, f)
        PROVE  request'[r].op = request[r].op /\ rows'[r].state = rows[r].state
    <2>1. PICK blob : StoreVersion(r, f, blob)
      BY <1>9 DEF StoreFile
    <2>2. QED
      BY <1>1, <2>1 DEF StoreVersion, StoreTypes, RequestType, Row
  <1>10. QED
    BY <1>3, <1>4, <1>5, <1>6, <1>7, <1>8, <1>9 DEF Handler

LEMMA HandlerTape ==
    ASSUME RunTypes, CommandInv, NEW q \in Runs, Handler(q) \/ Drop(q),
           NEW r \in Runs, TapeEnds(r), TapeStored(r)
    PROVE  TapeEnds(r)' /\ TapeStored(r)'
  <1>1. /\ UNCHANGED <<given, daemon, posted, cli, agent, written, forwarded, tape, taken, cut>>
        /\ blobRows' = blobRows
    BY HandlerLeaves, HandlerOwn
  <1>2. put'[ChunkOf(r)] = put[ChunkOf(r)]
    BY HandlerOwn, OwnWriters DEF RunTypes, StoreTypes
  <1>3. /\ request'[r].op = request[r].op
        /\ rows'[r].state = "complete" =>
             rows[r].state = "complete" \/ request[r].op = "complete"
    <2>1. CASE q = r
      BY <2>1, HandlerCompletes DEF CommandInv, Ordered
    <2>2. CASE q # r
      BY <2>2, HandlerOwn
    <2>3. QED
      BY <2>1, <2>2
  <1>4. request[r].op = "complete" => tape[r] = "ended"
    BY DEF TapeEnds
  <1>5. QED
    BY <1>1, <1>2, <1>3, <1>4, TapeQuiet

\* While the transcript of a run is posted its session is open.
LEMMA PostedIsOpen ==
    ASSUME RunTypes, CommandInv, NEW r \in Runs, TapeEnds(r), TapeStored(r),
           posted[r] = "sent", r \notin cut
    PROVE  r \in active
  <1>1. tape[r] = "posting" /\ daemon = "up"
    BY DEF TapeStored
  <1>2. written[r] > 0
    BY DEF RunTypes, TapeTypes
  <1>3. cli[r] \in {"running", "returned"}
    BY <1>1, <1>2 DEF TapeEnds, CommandInv, Ordered, Launched, RunTypes, CommandTypes
  <1>4. QED
    BY <1>1, <1>3 DEF CommandInv, Ordered, Opened

LEMMA TranscriptTape ==
    ASSUME RunTypes, CommandInv, BlobsKept, NEW r \in Runs, Transcript(r), TapeEnds(r),
           TapeStored(r)
    PROVE  TapeEnds(r)' /\ TapeStored(r)'
  <1> USE DEF RunTypes
  <1>1. /\ UNCHANGED <<given, daemon, active, request, cli, agent, written, forwarded, tape,
                       taken, rows, blobRows>>
        /\ cut \subseteq cut' /\ ChunkOf(r) \in Writers
    BY TranscriptLeaves, OwnWriters
  <1>2. TapeEnds(r)'
    BY <1>1 DEF TapeEnds
  <1>3. taken[r] \in Nat /\ posted[r] \in {"none", "sent", "storing", "ok", "error"}
    BY DEF TapeTypes
  <1>4. CASE Admit(r)
    <2>1. CASE r \in active
      <3>1. posted[r] = "sent" /\ posted'[r] = "storing" /\ cut' = cut
            /\ put' = [put EXCEPT ![ChunkOf(r)] = Putting(Output[r][taken[r]], "sealed")]
        BY <1>4, <2>1 DEF Admit, TapeTypes
      <3>2. put'[ChunkOf(r)].stage = "sealed" /\ put'[ChunkOf(r)].content = Output[r][taken[r]]
        BY <1>1, <3>1 DEF Putting, StoreTypes
      <3>3. QED
        BY <1>1, <1>2, <1>3, <3>1, <3>2 DEF TapeStored
    <2>2. CASE r \notin active
      <3>1. r \in cut
        BY <1>4, <2>2, PostedIsOpen DEF Admit
      <3>2. tape[r] # "waiting"
        BY <1>4 DEF Admit, TapeStored
      <3>3. QED
        BY <1>1, <1>2, <3>1, <3>2 DEF TapeStored
    <2>3. QED
      BY <2>1, <2>2
  <1>5. CASE StoreChunk(r)
    <2>1. posted[r] = "storing" /\ posted'[r] = "ok" /\ cut' = cut
          /\ put[ChunkOf(r)].stage = "recorded"
      BY <1>5 DEF StoreChunk, TapeTypes
    <2>2. put[ChunkOf(r)].content \in blobRows
      BY <1>1, <2>1 DEF BlobsKept
    <2>3. QED
      BY <1>1, <1>2, <1>3, <2>1, <2>2 DEF TapeStored
  <1>6. CASE RefuseChunk(r)
    <2>1. r \in cut' /\ posted[r] = "storing"
      BY <1>6 DEF RefuseChunk
    <2>2. tape[r] # "waiting"
      BY <2>1 DEF TapeStored
    <2>3. QED
      BY <1>1, <1>2, <2>1, <2>2 DEF TapeStored
  <1>7. QED
    BY <1>4, <1>5, <1>6 DEF Transcript

LEMMA TaskTape ==
    ASSUME RunTypes, CommandInv, NEW r \in Runs, Tasks(r), TapeEnds(r), TapeStored(r)
    PROVE  TapeEnds(r)' /\ TapeStored(r)'
  <1> USE DEF RunTypes
  <1>1. UNCHANGED <<given, daemon, request, cli, agent, written, forwarded, rows, put, blobRows>>
    BY DEF Tasks, ReportRoot, SendChunk, ChunkAnswered, EndTape, InTask, agentVars, blobVars
  <1>2. /\ taken[r] \in Nat /\ forwarded[r] \in Nat /\ written[r] \in Nat
        /\ taken[r] <= forwarded[r] /\ forwarded[r] <= written[r]
        /\ posted[r] \in {"none", "sent", "storing", "ok", "error"}
        /\ tape[r] \in {"waiting", "posting", "ended"}
    BY DEF TapeTypes
  <1>3. CASE ReportRoot(r)
    BY <1>1, <1>3, TapeQuiet DEF ReportRoot
  <1>4. CASE SendChunk(r)
    <2>1. /\ tape[r] = "waiting" /\ taken[r] < forwarded[r] /\ taken'[r] = taken[r] + 1
          /\ \/ /\ daemon = "up" /\ tape'[r] = "posting" /\ posted'[r] = "sent" /\ cut' = cut
             \/ tape'[r] = "ended" /\ r \in cut' /\ posted' = posted
      BY <1>4 DEF SendChunk, Tape, TapeTypes
    <2>2. /\ cli[r] \notin {"completing", "done"} /\ request[r].op # "complete"
          /\ rows[r].state # "complete" /\ (cli[r] = "failed" => agent[r] = "none")
      BY <2>1 DEF TapeEnds
    <2>3. cli[r] # "failed"
      BY <1>2, <2>1, <2>2 DEF TapeEnds
    <2>4. TapeEnds(r)'
      BY <1>1, <2>1, <2>2, <2>3 DEF TapeEnds
    <2>5. TapeStored(r)'
      <3>1. CASE r \in cut'
        BY <2>1, <3>1 DEF TapeStored
      <3>2. CASE r \notin cut'
        <4>1. /\ daemon' = "up" /\ tape'[r] = "posting" /\ posted'[r] = "sent" /\ r \notin cut
              /\ posted[r] = "none"
          BY <1>1, <2>1, <3>2 DEF TapeStored
        <4>2. \A i \in 1..taken'[r] : i \in 1..taken[r] \/ i = taken'[r]
          BY <1>2, <2>1
        <4>3. QED
          BY <1>1, <4>1, <4>2 DEF TapeStored
      <3>3. QED
        BY <3>1, <3>2
    <2>6. QED
      BY <2>4, <2>5
  <1>5. CASE ChunkAnswered(r)
    <2>1. /\ tape[r] = "posting" /\ taken' = taken /\ cut' = cut /\ posted'[r] = "none"
          /\ \/ posted[r] = "ok" /\ tape'[r] = "waiting"
             \/ posted[r] = "error" /\ tape'[r] = "ended"
      BY <1>5 DEF ChunkAnswered, Tape, TapeTypes
    <2>2. posted[r] = "error" => r \in cut
      BY DEF TapeStored
    <2>3. TapeEnds(r)'
      BY <1>1, <2>1, <2>2 DEF TapeEnds
    <2>4. TapeStored(r)'
      BY <1>1, <2>1, <2>2 DEF TapeStored
    <2>5. QED
      BY <2>3, <2>4
  <1>6. CASE EndTape(r)
    <2>1. /\ tape[r] = "waiting" /\ tape'[r] = "ended" /\ taken' = taken /\ cut' = cut
          /\ posted' = posted /\ cli[r] = "returned" /\ agent[r] \in {"none"} \cup Exits
          /\ forwarded[r] = written[r] /\ taken[r] = forwarded[r]
      BY <1>6 DEF EndTape, ChannelEnds, Tape, TapeTypes
    <2>2. "running" \notin Exits
      BY DEF Exits
    <2>3. TapeEnds(r)'
      BY <1>1, <2>1, <2>2 DEF TapeEnds
    <2>4. TapeStored(r)'
      BY <1>1, <2>1 DEF TapeStored
    <2>5. QED
      BY <2>3, <2>4
  <1>7. QED
    BY <1>3, <1>4, <1>5, <1>6 DEF Tasks

\* The command asks for nothing more before the transcript has ended.
LEMMA CliTape ==
    ASSUME RunTypes, CommandInv, NEW r \in Runs, Cli(r) \/ Environment(r), ~Drop(r),
           TapeEnds(r), TapeStored(r)
    PROVE  TapeEnds(r)' /\ TapeStored(r)'
  <1> USE DEF RunTypes
  <1>1. Ordered(r)
    BY DEF CommandInv
  <1>2. /\ NoRequest.op = "none"
        /\ request[r].op \in {"none", "prepare", "complete"}
    BY DEF NoRequest, StoreTypes, RequestType
  <1>3. ASSUME InCommand, UNCHANGED <<written, forwarded, tape, taken>>, cut' = cut,
               TapeEnds(r)'
        PROVE  TapeEnds(r)' /\ TapeStored(r)'
    BY <1>3 DEF InCommand, TapeStored, blobVars
  <1>4. CASE Prepared(r) \/ StartRun(r) \/ AskComplete(r) \/ Completed(r) \/ GiveUp(r)
    <2>1. /\ InCommand /\ UNCHANGED <<agent, written, forwarded, tape, taken>> /\ cut' = cut
          /\ given' = given /\ rows' = rows
      BY <1>4 DEF Prepared, StartRun, AskComplete, Completed, GiveUp, InCommand, agentVars,
                  taskVars
    <2>2. CASE Prepared(r)
      <3>1. /\ cli[r] = "preparing" /\ cli'[r] \in {"launching", "failed"}
            /\ request'[r].op = "none"
        BY <1>2, <2>2 DEF Prepared, Command, CommandTypes, StoreTypes
      <3>2. agent[r] = "none"
        BY <1>1, <3>1 DEF Ordered, Launched
      <3>3. TapeEnds(r)'
        BY <2>1, <3>1, <3>2 DEF TapeEnds
      <3>4. QED
        BY <1>3, <2>1, <3>3
    <2>3. CASE StartRun(r)
      <3>1. cli[r] = "idle" /\ cli'[r] \in {"preparing", "failed"}
        BY <2>3 DEF StartRun, Command, CommandTypes
      <3>2. request'[r].op \in {"prepare", request[r].op}
        BY <2>3, AsksEffect DEF StartRun
      <3>3. agent[r] = "none" /\ request[r].op # "complete"
        BY <1>1, <3>1 DEF Ordered, Launched, Requested
      <3>4. TapeEnds(r)'
        BY <2>1, <3>1, <3>2, <3>3 DEF TapeEnds
      <3>5. QED
        BY <1>3, <2>1, <3>4
    <2>4. CASE AskComplete(r)
      <3>1. tape[r] = "ended" /\ cli[r] = "returned" /\ cli'[r] \in {"completing", "failed"}
        BY <2>4 DEF AskComplete, Command, CommandTypes
      <3>2. TapeEnds(r)'
        BY <2>1, <3>1 DEF TapeEnds
      <3>3. QED
        BY <1>3, <2>1, <3>2
    <2>5. CASE Completed(r)
      <3>1. /\ cli[r] = "completing" /\ cli'[r] \in {"done", "failed"}
            /\ request'[r].op = "none"
        BY <1>2, <2>5 DEF Completed, Command, CommandTypes, StoreTypes
      <3>2. TapeEnds(r)'
        BY <2>1, <3>1 DEF TapeEnds
      <3>3. QED
        BY <1>3, <2>1, <3>2
    <2>6. CASE GiveUp(r)
      <3>1. /\ cli[r] \in {"preparing", "completing"} /\ cli'[r] = "failed"
            /\ request' = request
        BY <2>6 DEF GiveUp, Command, CommandTypes
      <3>2. cli[r] = "preparing" => agent[r] = "none"
        BY <1>1 DEF Ordered, Launched
      <3>3. TapeEnds(r)'
        BY <2>1, <3>1, <3>2 DEF TapeEnds
      <3>4. QED
        BY <1>3, <2>1, <3>3
    <2>7. QED
      BY <1>4, <2>2, <2>3, <2>4, <2>5, <2>6
  <1>5. CASE Spawn(r) \/ SeeExit(r) \/ CannotSpawn(r) \/ TerminalFails(r)
    <2>1. /\ InCommand /\ UNCHANGED <<written, forwarded, tape, taken, request>> /\ cut' = cut
          /\ given' = given /\ rows' = rows
          /\ \/ cli[r] = "launching" /\ cli'[r] = "running" /\ agent'[r] = "running"
             \/ cli[r] \in {"launching", "running"} /\ cli'[r] = "returned" /\ agent' = agent
      BY <1>5 DEF Spawn, SeeExit, CannotSpawn, TerminalFails, Command, InCommand, agentVars,
                  taskVars, CommandTypes
    <2>2. TapeEnds(r)'
      BY <2>1 DEF TapeEnds
    <2>3. QED
      BY <1>3, <2>1, <2>2
  <1>6. CASE Write(r)
    <2>1. /\ UNCHANGED <<given, daemon, request, posted, cli, agent, forwarded, tape, taken, cut,
                         rows, put, blobRows>>
          /\ agent[r] = "running" /\ written'[r] = written[r] + 1 /\ r \in given.taped
          /\ written[r] \in Nat
      BY <1>6 DEF Write, InTerminal, taskVars, blobVars, TapeTypes
    <2>2. TapeEnds(r)'
      BY <2>1 DEF TapeEnds
    <2>3. TapeStored(r)'
      BY <2>1 DEF TapeStored
    <2>4. QED
      BY <2>2, <2>3
  <1>7. CASE ChunkGivenUp(r)
    <2>1. /\ UNCHANGED <<given, request, cli, agent, written, forwarded, rows>>
          /\ tape[r] = "posting" /\ tape'[r] = "ended" /\ r \in cut'
      BY <1>7 DEF ChunkGivenUp, Tape, InTask, agentVars, TapeTypes
    <2>2. QED
      BY <2>1 DEF TapeEnds, TapeStored
  <1>8. QED
    BY <1>4, <1>5, <1>6, <1>7 DEF Cli, Environment

\* What a run does leaves the transcripts of the others as they are.
RunStep(q) ==
    \/ Tasks(q) \/ Transcript(q) \/ Cli(q) \/ Forward(q)
    \/ Environment(q) /\ ~Drop(q)
    \/ \E status \in Exits : Exit(q, status)

LEMMA OthersTape ==
    ASSUME RunTypes, NEW r \in Runs, NEW q \in Runs, q # r, TapeEnds(r), TapeStored(r),
           RunStep(q)
    PROVE  TapeEnds(r)' /\ TapeStored(r)'
  <1> USE DEF RunTypes
  <1>1. CASE Transcript(q)
    <2>1. /\ UNCHANGED <<given, daemon, request, cli, agent, written, forwarded, tape, taken,
                         rows, blobRows>>
          /\ cut \subseteq cut'
      BY <1>1, TranscriptLeaves
    <2>2. posted'[r] = posted[r] /\ put'[ChunkOf(r)] = put[ChunkOf(r)]
      BY <1>1, OwnWriters
         DEF Transcript, Admit, StoreChunk, RefuseChunk, StoreTypes, TapeTypes
    <2>3. QED
      BY <2>1, <2>2, TapeQuiet
  <1>2. CASE Tasks(q) \/ ChunkGivenUp(q)
    <2>1. /\ UNCHANGED <<given, daemon, request, cli, agent, written, forwarded, rows, put,
                         blobRows>>
          /\ cut \subseteq cut'
      BY <1>2 DEF Tasks, ReportRoot, SendChunk, ChunkAnswered, EndTape, ChunkGivenUp, InTask,
                  agentVars, blobVars
    <2>2. posted'[r] = posted[r] /\ tape'[r] = tape[r] /\ taken'[r] = taken[r]
      BY <1>2 DEF Tasks, ReportRoot, SendChunk, ChunkAnswered, EndTape, ChunkGivenUp, Tape,
                  TapeTypes
    <2>3. QED
      BY <2>1, <2>2, TapeQuiet
  <1>3. ASSUME InCommand, UNCHANGED <<written, forwarded, tape, taken, cut>>,
               request'[r].op = request[r].op, cli'[r] = cli[r], agent'[r] = agent[r]
        PROVE  TapeEnds(r)' /\ TapeStored(r)'
    <2>1. UNCHANGED <<given, daemon, posted, rows, put, blobRows>>
      BY <1>3 DEF InCommand, blobVars
    <2>2. QED
      BY <1>3, <2>1, TapeQuiet
  <1>4. CASE AskComplete(q) \/ StartRun(q)
    <2>1. request'[r] = request[r]
      BY <1>4, AsksEffect DEF AskComplete, StartRun
    <2>2. cli'[r] = cli[r]
      BY <1>4 DEF AskComplete, StartRun, Command, CommandTypes
    <2>3. QED
      BY <1>3, <1>4, <2>1, <2>2 DEF AskComplete, StartRun, agentVars, taskVars
  <1>5. CASE Prepared(q) \/ Completed(q)
    BY <1>3, <1>5 DEF Prepared, Completed, Command, agentVars, taskVars, CommandTypes, StoreTypes
  <1>6. CASE GiveUp(q) \/ Spawn(q) \/ SeeExit(q) \/ CannotSpawn(q) \/ TerminalFails(q)
    BY <1>3, <1>6 DEF GiveUp, Spawn, SeeExit, CannotSpawn, TerminalFails, Command, agentVars,
                      taskVars, CommandTypes
  <1>7. CASE Write(q) \/ Forward(q) \/ \E status \in Exits : Exit(q, status)
    <2>1. UNCHANGED <<given, daemon, request, posted, cli, tape, taken, cut, rows, put, blobRows>>
      BY <1>7 DEF Write, Forward, Exit, InTerminal, taskVars, blobVars
    <2>2. /\ agent'[r] = agent[r] /\ written'[r] = written[r] /\ forwarded'[r] = forwarded[r]
      BY <1>7 DEF Write, Forward, Exit, CommandTypes, TapeTypes
    <2>3. QED
      BY <2>1, <2>2, TapeQuiet
  <1>8. QED
    BY <1>1, <1>2, <1>4, <1>5, <1>6, <1>7 DEF RunStep, Cli, Environment

LEMMA StepKeepsTape ==
    ASSUME RunTypes, BlobsKept, CommandInv, TapeInv, [RunNext]_runVars
    PROVE  TapeInv'
  <1> USE DEF RunTypes
  <1> SUFFICES ASSUME NEW r \in Runs PROVE TapeEnds(r)' /\ TapeStored(r)'
    BY DEF TapeInv
  <1>1. TapeEnds(r) /\ TapeStored(r)
    BY DEF TapeInv
  <1>2. ASSUME NEW q \in Runs, Handler(q) \/ Drop(q) PROVE TapeEnds(r)' /\ TapeStored(r)'
    BY <1>1, <1>2, HandlerTape
  <1>3. ASSUME NEW q \in Runs, Transcript(q) PROVE TapeEnds(r)' /\ TapeStored(r)'
    <2>1. CASE q = r
      BY <1>1, <1>3, <2>1, TranscriptTape
    <2>2. CASE q # r
      BY <1>1, <1>3, <2>2, OthersTape DEF RunStep
    <2>3. QED
      BY <2>1, <2>2
  <1>4. ASSUME NEW q \in Runs, Tasks(q) PROVE TapeEnds(r)' /\ TapeStored(r)'
    <2>1. CASE q = r
      BY <1>1, <1>4, <2>1, TaskTape
    <2>2. CASE q # r
      BY <1>1, <1>4, <2>2, OthersTape DEF RunStep
    <2>3. QED
      BY <2>1, <2>2
  <1>5. ASSUME NEW q \in Runs, Cli(q) \/ Environment(q) PROVE TapeEnds(r)' /\ TapeStored(r)'
    BY <1>1, <1>2, <1>5, CliTape, OthersTape DEF RunStep
  <1>6. ASSUME NEW q \in Runs, Forward(q) PROVE TapeEnds(r)' /\ TapeStored(r)'
    <2>1. CASE q = r
      <3>1. /\ UNCHANGED <<given, daemon, request, posted, cli, agent, written, tape, taken, cut,
                           rows, put, blobRows>>
            /\ forwarded[r] < written[r] /\ written[r] \in Nat /\ forwarded[r] \in Nat
        BY <1>6, <2>1 DEF Forward, InTerminal, taskVars, blobVars, TapeTypes
      <3>2. TapeEnds(r)'
        BY <1>1, <3>1 DEF TapeEnds
      <3>3. TapeStored(r)'
        BY <1>1, <3>1 DEF TapeStored
      <3>4. QED
        BY <3>2, <3>3
    <2>2. QED
      BY <1>1, <1>6, <2>1, OthersTape DEF RunStep
  <1>7. ASSUME NEW q \in Runs, NEW status \in given.ends, Exit(q, status)
        PROVE  TapeEnds(r)' /\ TapeStored(r)'
    <2>1. status \in Exits
      BY DEF CommandTypes, Circumstance
    <2>2. CASE q = r
      <3>1. /\ UNCHANGED <<given, daemon, request, posted, cli, written, forwarded, tape, taken,
                           cut, rows, put, blobRows>>
            /\ agent[r] = "running" /\ agent'[r] = status
        BY <1>7, <2>2 DEF Exit, InTerminal, taskVars, blobVars, CommandTypes
      <3>2. status \notin {"none", "running"}
        BY <2>1 DEF Exits
      <3>3. TapeEnds(r)'
        BY <1>1, <3>1, <3>2 DEF TapeEnds
      <3>4. TapeStored(r)'
        BY <1>1, <3>1 DEF TapeStored
      <3>5. QED
        BY <3>3, <3>4
    <2>3. QED
      BY <1>1, <1>7, <2>1, <2>2, OthersTape DEF RunStep
  <1>8. ASSUME NEW w \in Writers, Blob(w) PROVE TapeEnds(r)' /\ TapeStored(r)'
    <2>1. UNCHANGED <<given, daemon, request, posted, cli, agent, written, forwarded, tape,
                      taken, cut, rows>>
      BY <1>8 DEF Blob, ownVars
    <2>2. Look(w) \/ Persist(w) \/ Record(w) \/ CannotWrite(w)
      BY <1>8 DEF Blob
    <2>3. /\ blobRows \subseteq blobRows'
          /\ \A x \in Writers \ {w} : put'[x] = put[x]
          /\ put'[w].stage # "none" /\ put'[w].content = put[w].content
      BY <2>2, BlobStep DEF StoreGrows
    <2>4. QED
      BY <1>1, <2>1, <2>3, OwnWriters, TapeQuiet
  <1>9. CASE StopDaemon
    <2>1. /\ UNCHANGED <<given, cli, agent, written, forwarded, tape, taken, rows, blobRows>>
          /\ cut \subseteq cut'
          /\ posted[r] \in {"sent", "storing"} => r \in cut'
          /\ posted[r] \notin {"sent", "storing"} => posted'[r] = posted[r]
          /\ posted[r] \in {"sent", "storing"} => posted'[r] = "error"
      BY <1>9 DEF StopDaemon, agentVars
    <2>2. request'[r].op = request[r].op
      <3>1. request[r] \in RequestType
        BY DEF StoreTypes
      <3>2. QED
        BY <1>9, <3>1 DEF StopDaemon, RequestType
    <2>3. TapeEnds(r)'
      BY <1>1, <2>1, <2>2 DEF TapeEnds
    <2>4. TapeStored(r)'
      BY <1>1, <2>1 DEF TapeStored
    <2>5. QED
      BY <2>3, <2>4
  <1>10. ASSUME NEW f \in Files, NEW c \in Contents \cup {Missing}, Edit(f, c)
         PROVE  TapeEnds(r)' /\ TapeStored(r)'
    <2>1. request[r] \in RequestType
      BY DEF StoreTypes
    <2>2. request'[r].op = request[r].op
      BY <1>10, <2>1 DEF Edit, RequestType
    <2>3. UNCHANGED <<given, daemon, posted, cli, agent, written, forwarded, tape, taken, cut,
                      rows, put, blobRows>>
      BY <1>10 DEF Edit, agentVars, taskVars, blobVars
    <2>4. QED
      BY <1>1, <2>2, <2>3, TapeQuiet
  <1>11. CASE UNCHANGED <<ownVars, put, blobRows>>
    BY <1>1, <1>11, TapeQuiet DEF ownVars
  <1>12. ASSUME NEW c \in Contents, Decay(c), UNCHANGED ownVars
         PROVE  TapeEnds(r)' /\ TapeStored(r)'
    BY <1>11, <1>12 DEF Decay
  <1>13. CASE UNCHANGED runVars
    BY <1>11, <1>13 DEF runVars, blobVars
  <1>14. CASE Scheduled
    BY <1>2, <1>3, <1>4, <1>5, <1>6, <1>7, <1>8, <1>14 DEF Scheduled
  <1>15. QED
    BY <1>5, <1>9, <1>10, <1>12, <1>13, <1>14 DEF RunNext

-----------------------------------------------------------------------------
(* The invariant, and what follows from it *)

LEMMA RunInitInv == RunInit => RunInv
  <1> SUFFICES ASSUME RunInit PROVE RunInv
    OBVIOUS
  <1>1. RunTypes
    BY InitTyped
  <1>2. \A r \in Runs :
          /\ request[r].op = "none" /\ request[r].step = "none" /\ request[r].todo = {}
          /\ rows[r].git = {} /\ rows[r].versions = {} /\ rows[r].state = "none"
          /\ cli[r] = "idle" /\ agent[r] = "none" /\ result[r] = "none"
          /\ root[r] = "waiting" /\ r \notin rooted
    BY DEF RunInit, NoRequest, NoRow
  <1>3. \A w \in Writers : put[w].stage = "none"
    BY DEF RunInit, BlobInit, NoPut
  <1>4. blobRows = {}
    BY DEF RunInit, BlobInit
  <1>5. BlobsKept
    BY <1>3, <1>4 DEF BlobsKept
  <1>6. \A r \in Runs : Follows(r) /\ Backed(r)
    BY <1>2, <1>3, OwnWriters DEF Follows, Backed
  <1>7. "none" \notin Exits
    BY DEF Exits
  <1>8. CommandInv
    BY <1>2, <1>7 DEF CommandInv, Ordered, Requested, Launched, Prepares, Completes, Opened, At
  <1>9. \A r \in Runs :
          /\ posted[r] = "none" /\ written[r] = 0 /\ forwarded[r] = 0 /\ taken[r] = 0
          /\ r \in given.taped => tape[r] = "waiting"
          /\ tape[r] # "posting"
    BY DEF RunInit
  <1>10. TapeInv
    BY <1>2, <1>9 DEF TapeInv, TapeEnds, TapeStored
  <1>11. QED
    BY <1>1, <1>5, <1>6, <1>8, <1>10 DEF RunInv, StoreInv

LEMMA StepKeepsRunInv == RunInv /\ [RunNext]_runVars => RunInv'
  <1> SUFFICES ASSUME RunInv, [RunNext]_runVars PROVE RunInv'
    OBVIOUS
  <1>1. RunTypes /\ StoreInv /\ CommandInv /\ TapeInv /\ BlobsKept
    BY DEF RunInv, StoreInv
  <1>2. \A r \in Runs : Requested(r)
    BY <1>1 DEF CommandInv, Ordered
  <1>3. RunTypes' /\ CommandInv' /\ TapeInv'
    BY <1>1, StepKeepsTypes, StepKeepsOrder, StepKeepsTape
  <1>4. StoreInv'
    BY <1>1, <1>2, StepKeepsStore
  <1>5. QED
    BY <1>3, <1>4 DEF RunInv

LEMMA RunInvHolds == RunSpec => []RunInv
  BY RunInitInv, StepKeepsRunInv, PTL DEF RunSpec

\* Every variable of a run keeps to its values, for any number of runs, files, contents
\* and chunks: in particular a put never holds anything but a content, a version names a
\* content or none, and nothing is taken of a transcript that was not written.
THEOREM RunsAreTyped == RunSpec => []RunTypes
  <1>1. RunInv => RunTypes
    BY DEF RunInv
  <1>2. QED
    BY <1>1, RunInvHolds, PTL

\* Every id the database has of a session has its file, whole unless the disk damaged it,
\* whoever put the same content at the same time and whatever failed, was dropped or
\* stopped on the way; and what is stored for a file is what was hashed, unless the file
\* was changed between the two readings.
THEOREM RecordsAreBacked == RunSpec => []RecordsBacked
  <1>1. RunInv => RecordsBacked
    BY DEF RunInv, StoreInv, BlobsKept, Backed, RecordsBacked, Kept
  <1>2. QED
    BY <1>1, RunInvHolds, PTL

\* No agent is launched before all that prepare stores is stored, a complete session has
\* all of both its ends and the outcome of its agent, and the process id of an agent is
\* known exactly as long as its session is open, unless its report failed.
THEOREM RecordsAreComplete == RunSpec => []RecordsComplete
  <1>1. RunInv => RecordsComplete
    <2> SUFFICES ASSUME RunInv, NEW r \in Runs
                 PROVE  /\ agent[r] # "none" => Begun(r)
                        /\ rows[r].state = "complete" =>
                             /\ rows[r].events = {"start", "end"}
                             /\ rows[r].snapshots = {"pre", "post"}
                             /\ rows[r].git = {"pre", "post"}
                             /\ rows[r].closed \/ r \in Imported
                             /\ result[r] \in Exits => rows[r].outcome = agent[r]
                        /\ agent[r] # "none" /\ root[r] = "done" /\ r \in active \ cut =>
                             r \in rooted
                        /\ r \in rooted => r \in active
      BY DEF RecordsComplete, Begun
    <2>1. Ordered(r)
      BY DEF RunInv, CommandInv
    <2>2. /\ rows[r].events \subseteq {"start", "end"}
          /\ rows[r].snapshots \subseteq {"pre", "post"} /\ rows[r].git \subseteq {"pre", "post"}
      BY DEF RunInv, RunTypes, StoreTypes, Row
    <2>3. agent[r] # "none" => Begun(r)
      BY <2>1 DEF Ordered, Prepares
    <2>4. rows[r].state = "complete" =>
            /\ Begun(r) /\ Ended(r)
            /\ result[r] \in Exits => rows[r].outcome = agent[r]
      BY <2>1 DEF Ordered, Completes, Launched
    <2>5. QED
      BY <2>1, <2>2, <2>3, <2>4 DEF Begun, Ended, Ordered, Opened
  <1>2. QED
    BY <1>1, RunInvHolds, PTL

\* All that the agent of a taped run wrote to its terminal is stored once its session is
\* complete, unless a request failed: the last chunk overtakes neither the exit of the
\* agent nor the completion.
THEOREM OutputIsStored == RunSpec => []OutputStored
  <1>1. RunInv => OutputStored
    <2> SUFFICES ASSUME RunInv, NEW r \in given.taped, rows[r].state = "complete", r \notin cut,
                        NEW i \in 1..written[r]
                 PROVE  Output[r][i] \in blobRows
      BY DEF OutputStored
    <2>1. r \in Runs
      BY DEF RunInv, RunTypes, CommandTypes, Circumstance
    <2>2. TapeEnds(r) /\ TapeStored(r)
      BY <2>1 DEF RunInv, TapeInv
    <2>3. tape[r] = "ended" /\ taken[r] = written[r]
      BY <2>2 DEF TapeEnds
    <2>4. posted[r] = "none"
      BY <2>2, <2>3 DEF TapeStored
    <2>5. QED
      BY <2>2, <2>3, <2>4 DEF TapeStored
  <1>2. QED
    BY <1>1, RunInvHolds, PTL
=============================================================================
