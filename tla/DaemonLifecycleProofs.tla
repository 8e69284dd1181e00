------------------------ MODULE DaemonLifecycleProofs ------------------------
(* One daemon has the database, and only under the key of its blobs: for any   *)
(* number of daemons and commands, wherever they die.  Where commands come one  *)
(* after the other and wait long enough, nothing committed is lost to a         *)
(* migration or a restore, and no daemon finds the lock taken.                  *)
EXTENDS DaemonLifecycle, TLAPS

\* The key a start would find: the file goes before the Secret Service.
Current == IF keyFile # None THEN keyFile ELSE keyring

Locking == HoldsLock \ {"key"}

\* A daemon beyond "key" has the key that is stored, and so have the blobs: with
\* the lock it follows that no daemon has another one.
KeyInv ==
    /\ \A d \in Daemons : daemon[d].phase \in Locking => daemon[d].key = Current /\ Current # None
    /\ blobs \subseteq {Current}

IInv == TypeOK /\ OneStore /\ KeyInv

\* A daemon's record, for the lemmas.
Process == [phase : Phase, key : Daemons \cup {None}]

LEMMA ProcessEdit ==
    \A r \in Process, p \in Phase :
        LET s == [r EXCEPT !.phase = p] IN s \in Process /\ s.phase = p /\ s.key = r.key
BY SMT DEF Process

\* A step that changes the phase of one daemon leaves its key and the others alone.
LEMMA GoesFacts ==
    ASSUME TypeOK, NEW d \in Daemons, NEW p \in Phase, Goes(d, p)
    PROVE  /\ daemon' \in [Daemons -> Process]
           /\ daemon'[d].phase = p /\ daemon'[d].key = daemon[d].key
           /\ \A e \in Daemons \ {d} : daemon'[e] = daemon[e]
<1>1. daemon \in [Daemons -> Process] /\ daemon[d] \in Process
      BY DEF TypeOK, Process
<1>2. DEFINE s == [daemon[d] EXCEPT !.phase = p]
<1>3. s \in Process /\ s.phase = p /\ s.key = daemon[d].key
      BY <1>1, ProcessEdit
<1>4. daemon' = [daemon EXCEPT ![d] = s]
      BY DEF Goes
<1>5. QED BY <1>1, <1>3, <1>4

\* A step of one daemon that neither publishes nor gains the lock keeps everything.
LEMMA QuietStep ==
    ASSUME DaemonAssumption, IInv, NEW d \in Daemons, NEW p \in Phase \ {"serving"}, Goes(d, p),
           UNCHANGED <<runtime, keyVars>>,
           lock' = lock \/ (lock = d /\ lock' = None),
           p \in HoldsLock => lock' = lock /\ daemon[d].phase \in HoldsLock,
           p \in Locking => daemon[d].phase \in Locking
    PROVE  IInv'
<1>1. /\ daemon' \in [Daemons -> Process]
      /\ daemon'[d].phase = p /\ daemon'[d].key = daemon[d].key
      /\ \A e \in Daemons \ {d} : daemon'[e] = daemon[e]
      BY GoesFacts DEF IInv
<1>2. TypeOK'
      BY <1>1 DEF IInv, TypeOK, Process, keyVars
<1>3. OneStore'
  <2>1. \A e \in Daemons : daemon'[e].phase \in HoldsLock => lock' = e
        BY <1>1 DEF IInv, OneStore
  <2>2. \A e \in Daemons : In(e, "serving")' => runtime' = e
        BY <1>1 DEF IInv, OneStore, In
  <2>3. QED BY <2>1, <2>2 DEF OneStore
<1>4. KeyInv'
      BY <1>1 DEF IInv, KeyInv, Current, keyVars
<1>5. QED BY <1>2, <1>3, <1>4 DEF IInv

\* A daemon that goes gives up the lock, if it has it.
LEMMA GoneStep ==
    ASSUME DaemonAssumption, IInv, NEW d \in Daemons, Gone(d), UNCHANGED <<runtime, keyVars>>
    PROVE  IInv'
<1>1. "exited" \in Phase \ {"serving"} /\ "exited" \notin HoldsLock /\ "exited" \notin Locking
      BY DEF Phase, HoldsLock, Locking, Starting, Stopping
<1>2. Goes(d, "exited") /\ (lock' = lock \/ (lock = d /\ lock' = None))
      BY DEF Gone
<1>3. QED BY <1>1, <1>2, QuietStep

LEMMA AcquireLockStep ==
    ASSUME DaemonAssumption, IInv, NEW d \in Daemons, AcquireLock(d)
    PROVE  IInv'
<1> USE DEF HoldsLock, Locking, Starting, Stopping, Phase
<1>1. CASE Locked(d)
  <2>1. /\ lock = None /\ lock' = d
        /\ UNCHANGED <<runtime, keyVars>>
        BY <1>1 DEF AcquireLock, Locked, TryLock
  <2>2. /\ daemon' \in [Daemons -> Process]
        /\ daemon'[d].phase = "key"
        /\ \A e \in Daemons \ {d} : daemon'[e] = daemon[e]
        BY <1>1, GoesFacts DEF Locked, IInv
  <2>3. \A e \in Daemons : daemon[e].phase \notin HoldsLock
        BY <2>1 DEF IInv, OneStore, DaemonAssumption
  <2>4. TypeOK'
        BY <2>1, <2>2 DEF IInv, TypeOK, Process, keyVars
  <2>5. OneStore'
        BY <2>1, <2>2, <2>3 DEF OneStore, In
  <2>6. KeyInv'
        BY <2>1, <2>2, <2>3 DEF IInv, KeyInv, Current, keyVars
  <2>7. QED BY <2>4, <2>5, <2>6 DEF IInv
<1>2. CASE Goes(d, "exited") /\ UNCHANGED lock
      BY <1>2, QuietStep DEF AcquireLock
<1>3. QED BY <1>1, <1>2 DEF AcquireLock

\* The key that is found, or made, is the one the blobs have.
LEMMA LoadKeyStep ==
    ASSUME DaemonAssumption, IInv, NEW d \in Daemons, LoadKey(d)
    PROVE  IInv'
<1> USE DEF HoldsLock, Locking, Starting, Stopping, Phase
<1>1. /\ daemon[d].phase = "key" /\ lock = d
      /\ UNCHANGED <<runtime, blobs>>
      /\ \A e \in Daemons \ {d} : daemon[e].phase \notin HoldsLock
      BY DEF LoadKey, In, IInv, OneStore
<1>2. CASE Gone(d) /\ UNCHANGED <<keyFile, keyring>>
      BY <1>1, <1>2, GoneStep DEF keyVars
<1>3. ASSUME NEW k \in Daemons, HasKey(d, k), Current' = k, blobs \subseteq {k},
             keyFile' \in Daemons \cup {None}, keyring' \in Daemons \cup {None}
      PROVE  IInv'
  <2>1. /\ daemon' \in [Daemons -> Process]
        /\ daemon'[d] = [phase |-> "open", key |-> k]
        /\ \A e \in Daemons \ {d} : daemon'[e] = daemon[e]
        /\ lock' = lock
        BY <1>3 DEF HasKey, IInv, TypeOK, Process
  <2>2. TypeOK'
        BY <1>1, <1>3, <2>1 DEF IInv, TypeOK, Process
  <2>3. OneStore'
        BY <1>1, <2>1 DEF IInv, OneStore, In
  <2>4. KeyInv'
        BY <1>1, <1>3, <2>1 DEF KeyInv, DaemonAssumption
  <2>5. QED BY <2>2, <2>3, <2>4 DEF IInv
<1>4. CASE keyFile # None /\ HasKey(d, keyFile) /\ UNCHANGED <<keyFile, keyring>>
  <2>1. keyFile \in Daemons /\ Current' = keyFile /\ blobs \subseteq {keyFile}
        BY <1>4 DEF IInv, TypeOK, KeyInv, Current
  <2>2. QED BY <1>3, <1>4, <2>1 DEF IInv, TypeOK
<1>5. CASE keyFile = None /\ keyring # None /\ HasKey(d, keyring) /\ UNCHANGED <<keyFile, keyring>>
  <2>1. keyring \in Daemons /\ Current' = keyring /\ blobs \subseteq {keyring}
        BY <1>5 DEF IInv, TypeOK, KeyInv, Current
  <2>2. QED BY <1>3, <1>5, <2>1 DEF IInv, TypeOK
<1>6. CASE keyFile = None /\ FirstRun /\ keyring' = d /\ HasKey(d, d) /\ UNCHANGED keyFile
  <2>1. Current' = d /\ blobs \subseteq {d}
        BY <1>6 DEF FirstRun, Current
  <2>2. QED BY <1>3, <1>6, <2>1 DEF IInv, TypeOK
<1>7. CASE FirstRun /\ keyFile' = d /\ HasKey(d, d) /\ UNCHANGED keyring
  <2>1. Current' = d /\ blobs \subseteq {d}
        BY <1>7 DEF FirstRun, Current, DaemonAssumption
  <2>2. QED BY <1>3, <1>7, <2>1 DEF IInv, TypeOK
<1>8. QED BY <1>2, <1>4, <1>5, <1>6, <1>7 DEF LoadKey

LEMMA OpenStoreStep ==
    ASSUME DaemonAssumption, IInv, NEW d \in Daemons, OpenStore(d)
    PROVE  IInv'
<1> USE DEF HoldsLock, Locking, Starting, Stopping, Phase
<1>1. daemon[d].phase = "open" /\ UNCHANGED <<runtime, keyVars>>
      BY DEF OpenStore, In
<1>2. CASE Gone(d)
      BY <1>1, <1>2, GoneStep
<1>3. ASSUME NEW p \in {"bind", "migrate", "backup"}, Goes(d, p), UNCHANGED lock
      PROVE  IInv'
      BY <1>1, <1>3, QuietStep
<1>4. QED BY <1>2, <1>3 DEF OpenStore

LEMMA PublishStep ==
    ASSUME DaemonAssumption, IInv, NEW d \in Daemons, Publish(d)
    PROVE  IInv'
<1> USE DEF HoldsLock, Locking, Starting, Stopping, Phase
<1>1. /\ daemon[d].phase = "bind" /\ lock = d /\ runtime' = d
      /\ UNCHANGED <<lock, keyVars>>
      BY DEF Publish, In, IInv, OneStore
<1>2. /\ daemon' \in [Daemons -> Process]
      /\ daemon'[d].phase = "serving" /\ daemon'[d].key = daemon[d].key
      /\ \A e \in Daemons \ {d} : daemon'[e] = daemon[e]
      BY GoesFacts DEF Publish, IInv
<1>3. TypeOK'
      BY <1>1, <1>2 DEF IInv, TypeOK, Process, keyVars
<1>4. OneStore'
      BY <1>1, <1>2 DEF IInv, OneStore, In
<1>5. KeyInv'
      BY <1>1, <1>2 DEF IInv, KeyInv, Current, keyVars
<1>6. QED BY <1>3, <1>4, <1>5 DEF IInv

LEMMA UnpublishStep ==
    ASSUME DaemonAssumption, IInv, NEW d \in Daemons, Unpublish(d)
    PROVE  IInv'
<1> USE DEF HoldsLock, Locking, Starting, Stopping, Phase
<1>1. /\ daemon[d].phase = "unpublish" /\ lock = d /\ runtime' \in {runtime, None}
      /\ UNCHANGED <<lock, keyVars>>
      BY DEF Unpublish, In, IInv, OneStore
<1>2. /\ daemon' \in [Daemons -> Process]
      /\ daemon'[d].phase = "leaving" /\ daemon'[d].key = daemon[d].key
      /\ \A e \in Daemons \ {d} : daemon'[e] = daemon[e]
      BY GoesFacts DEF Unpublish, IInv
<1>3. TypeOK'
      BY <1>1, <1>2 DEF IInv, TypeOK, Process, keyVars
<1>4. OneStore'
      BY <1>1, <1>2 DEF IInv, OneStore, In
<1>5. KeyInv'
      BY <1>1, <1>2 DEF IInv, KeyInv, Current, keyVars
<1>6. QED BY <1>3, <1>4, <1>5 DEF IInv

LEMMA RunStep ==
    ASSUME DaemonAssumption, IInv, NEW d \in Daemons, Run(d)
    PROVE  IInv'
<1> USE DEF HoldsLock, Locking, Starting, Stopping, Phase, In
<1>1. CASE AcquireLock(d) BY <1>1, AcquireLockStep
<1>2. CASE LoadKey(d) BY <1>2, LoadKeyStep
<1>3. CASE OpenStore(d) BY <1>3, OpenStoreStep
<1>4. CASE BackUp(d) BY <1>4, QuietStep DEF BackUp
<1>5. CASE Migrate(d)
  <2>1. ASSUME NEW p \in {"bind", "migrate"}, Goes(d, p), UNCHANGED lock PROVE IInv'
        BY <1>5, <2>1, QuietStep DEF Migrate
  <2>2. CASE Gone(d) BY <1>5, <2>2, GoneStep DEF Migrate
  <2>3. QED BY <1>5, <2>1, <2>2 DEF Migrate
<1>6. CASE Publish(d) BY <1>6, PublishStep
<1>7. CASE Drained(d) BY <1>7, QuietStep DEF Drained
<1>8. CASE CloseStore(d) BY <1>8, QuietStep DEF CloseStore
<1>9. CASE Unpublish(d) BY <1>9, UnpublishStep
<1>10. CASE ReleaseLock(d)
  <2>1. lock = d BY <1>10 DEF ReleaseLock, IInv, OneStore
  <2>2. QED BY <1>10, <2>1, QuietStep DEF ReleaseLock
<1>11. CASE Exit(d) BY <1>11, QuietStep DEF Exit
<1>12. QED BY <1>1, <1>2, <1>3, <1>4, <1>5, <1>6, <1>7, <1>8, <1>9, <1>10, <1>11 DEF Run

\* A commit writes under the key of the one daemon that serves.
LEMMA ServeStep ==
    ASSUME DaemonAssumption, IInv, NEW d \in Daemons, Serve(d)
    PROVE  IInv'
<1>1. /\ daemon[d].key = Current /\ Current \in Daemons /\ blobs' = blobs \cup {daemon[d].key}
      /\ UNCHANGED <<lock, runtime, daemon, keyFile, keyring>>
      BY DEF Serve, In, IInv, TypeOK, KeyInv, Current, Locking, HoldsLock, Starting, Stopping
<1>2. Current' = Current
      BY <1>1 DEF Current
<1>3. TypeOK'
      BY <1>1 DEF IInv, TypeOK
<1>4. OneStore' /\ KeyInv'
      BY <1>1, <1>2 DEF IInv, OneStore, KeyInv, In
<1>5. QED BY <1>3, <1>4 DEF IInv

\* A command changes a process only by spawning or signalling it.
LEMMA CommandStep ==
    ASSUME DaemonAssumption, IInv, NEW c \in Clients, Act(c)
    PROVE  IInv'
<1> USE DEF HoldsLock, Locking, Starting, Stopping, Phase, In
<1>1. UNCHANGED <<runtime, keyVars>>
      BY DEF Act, CheckHealth, Poll, Stop, CheckActive, AwaitGone, Look, Wait, SavePrevious,
             CopyBackup, RemoveLog
<1>2. CASE UNCHANGED <<daemon, lock>>
      BY <1>1, <1>2 DEF IInv, TypeOK, OneStore, KeyInv, Current, keyVars
<1>3. CASE CheckHealth(c)
  <2>1. ASSUME Spawnable # {}, Goes(CHOOSE d \in Spawnable : TRUE, "lock") PROVE IInv'
    <3>1. PICK d \in Daemons : Goes(d, "lock")
          BY <2>1 DEF Spawnable
    <3>2. QED BY <1>1, <1>3, <3>1, QuietStep DEF CheckHealth
  <2>2. QED BY <1>2, <1>3, <2>1 DEF CheckHealth
<1>4. CASE Stop(c)
  <2>1. ASSUME runtime # None, Terminated(runtime) PROVE IInv'
    <3>1. runtime \in Daemons
          BY <2>1 DEF IInv, TypeOK
    <3>2. CASE Gone(runtime)
          BY <1>1, <3>1, <3>2, GoneStep
    <3>3. CASE daemon[runtime].phase = "serving" /\ Goes(runtime, "draining") /\ UNCHANGED lock
          BY <1>1, <3>1, <3>3, QuietStep
    <3>4. QED BY <1>2, <2>1, <3>2, <3>3 DEF Terminated
  <2>2. QED BY <1>2, <1>4, <2>1 DEF Stop
<1>5. QED BY <1>2, <1>3, <1>4 DEF Act, Poll, CheckActive, AwaitGone, Look, Wait, SavePrevious,
                                 CopyBackup, RemoveLog

LEMMA RebootStep ==
    ASSUME DaemonAssumption, IInv, Reboot
    PROVE  IInv'
<1> USE DEF HoldsLock, Locking, Starting, Stopping, Phase, In
<1>1. \A d \in Daemons :
        /\ daemon'[d] \in Process
        /\ daemon'[d].phase \in {"off", "exited"}
  <2>1. TAKE d \in Daemons
  <2>2. daemon[d] \in Process /\ daemon' = [e \in Daemons |->
            IF In(e, "off") THEN daemon[e] ELSE [daemon[e] EXCEPT !.phase = "exited"]]
        BY DEF IInv, TypeOK, Process, Reboot
  <2>3. daemon'[d] = IF In(d, "off") THEN daemon[d] ELSE [daemon[d] EXCEPT !.phase = "exited"]
        BY <2>2
  <2>4. QED BY <2>2, <2>3, ProcessEdit
<1>2. daemon' \in [Daemons -> Process]
      BY <1>1 DEF Reboot
<1>3. TypeOK'
      BY <1>2 DEF Reboot, IInv, TypeOK, Process, keyVars
<1>4. OneStore' /\ KeyInv'
      BY <1>1 DEF Reboot, IInv, OneStore, KeyInv, Current, keyVars
<1>5. QED BY <1>3, <1>4 DEF IInv

LEMMA InitIInv == ASSUME DaemonAssumption, Init PROVE IInv
BY DEF DaemonAssumption, Init, IInv, TypeOK, OneStore, KeyInv, Current, Locking, In, HoldsLock,
       Phase, Starting, Stopping

LEMMA NextIInv == ASSUME DaemonAssumption, IInv, [Next]_vars PROVE IInv'
<1>1. ASSUME UNCHANGED <<lock, runtime, daemon, keyVars>> PROVE IInv'
      BY <1>1 DEF IInv, TypeOK, OneStore, KeyInv, Current, keyVars, In
<1>2. ASSUME NEW d \in Daemons, Run(d) PROVE IInv'
      BY <1>2, RunStep
<1>3. ASSUME NEW d \in Daemons, Crash(d) PROVE IInv'
      BY <1>3, GoneStep DEF Crash
<1>4. ASSUME NEW d \in Daemons, Serve(d) PROVE IInv'
      BY <1>4, ServeStep
<1>5. ASSUME NEW c \in Clients, Command(c) \/ BackUpNow(c) PROVE IInv'
      BY <1>1, <1>5 DEF Command, BackUpNow
<1>6. ASSUME NEW c \in Clients, Act(c) PROVE IInv'
      BY <1>6, CommandStep
<1>7. CASE Reboot BY <1>7, RebootStep
<1>8. CASE UNCHANGED vars BY <1>1, <1>8 DEF vars
<1>9. QED BY <1>2, <1>3, <1>4, <1>5, <1>6, <1>7, <1>8 DEF Next

LEMMA Invariance == Spec => []IInv
<1>1. Init => IInv BY InitIInv, DaemonAssumption
<1>2. IInv /\ [Next]_vars => IInv' BY NextIInv, DaemonAssumption
<1>3. QED BY <1>1, <1>2, PTL DEF Spec

\* At most one daemon is anywhere between the lock and its release, and the one that
\* serves is the one that clients find (daemon lib.rs:61-123).
THEOREM SingleInstance == Spec => []OneStore
<1>1. IInv => OneStore BY DEF IInv
<1>2. QED BY <1>1, Invariance, PTL

\* No daemon encrypts with, or opens blobs with, a key other than theirs
\* (keys.rs:176-231).
THEOREM KeyIsKept == Spec => []KeyOpensBlobs
<1>1. IInv => KeyOpensBlobs
      BY DEF IInv, KeyInv, KeyOpensBlobs, Locking
<1>2. QED BY <1>1, Invariance, PTL
-----------------------------------------------------------------------------
(* Where all is orderly *)

\* The phases of a daemon that has published its metadata and not yet removed them.
Published == {"serving", "draining", "closing", "unpublish"}
Absent == {"off", "exited"}
Op == {"none", "start", "stop", "restart", "restore", "upgrade"}
Stage == {"idle", "check", "poll", "stop", "active", "gone", "look", "wait", "save", "copy", "unlog"}

Database == [version : Nat, main : Nat, wal : Nat]
Backup == [version : Nat, content : Nat]

DataType ==
    /\ client \in [Clients -> [op : Op, phase : Stage, running : BOOLEAN]]
    /\ \A c \in Clients : client[c].phase = "idle" => client[c] = NoCommand
    /\ orderly \in BOOLEAN
    /\ db \in Database \cup {None} /\ backups \subseteq Backup
    /\ \A d \in Daemons : daemon[d].phase \in Opens => db # None
    /\ \A c \in Clients : client[c].phase = "unlog" => db # None

\* Metadata and lock name a daemon that has them, or died with them.
Held ==
    /\ runtime # None => daemon[runtime].phase \in Published \cup {"exited"}
    /\ \A d \in Daemons : daemon[d].phase \in Published => runtime = d
    /\ lock # None => daemon[lock].phase \in HoldsLock

\* One daemon starts, when no other is past its start; one that leaves is alone.
OneAtATime ==
    \A d, e \in Daemons : d # e =>
        /\ daemon[d].phase \in Starting => daemon[e].phase \notin Starting \cup Published
        /\ daemon[d].phase \in {"leaving", "lingers"} => daemon[e].phase \in Absent \cup {"lock"}

\* What a command has waited for.
Fits(r) ==
    /\ \A d \in Daemons :
         /\ r.phase \notin {"idle", "poll"} => daemon[d].phase \notin Starting
         /\ r.phase = "look" => daemon[d].phase \notin Stopping
         /\ r.phase \in {"wait", "gone"} => daemon[d].phase # "serving"
         /\ r.phase = "check" => daemon[d].phase \notin Published \ {"serving"}
         /\ r.phase \in {"save", "copy", "unlog"} => daemon[d].phase \in Absent
    /\ r.phase = "wait" => r.op \in {"restart", "restore"}
    /\ r.phase = "wait" /\ r.op = "restore" => runtime = None \/ daemon[runtime].phase \in Published
    /\ r.phase \in {"save", "copy", "unlog"} => runtime = None
    /\ r.phase \in {"gone", "active"} => r.op # "restore"

\* One command at a time.
Waits ==
    /\ \A c, e \in Clients : client[c].phase # "idle" /\ client[e].phase # "idle" => c = e
    /\ \A c \in Clients : Fits(client[c])

\* The log is empty when nobody runs but where a daemon died with it, which its metadata
\* tell.
LogKept ==
    db # None /\ db.wal > 0 =>
        runtime # None \/ \E d \in Daemons : daemon[d].phase \in {"leaving", "lingers"}

\* A database without a schema is empty, one that is migrated has been backed up.
BackedUp ==
    /\ db # None /\ db.version = 0 => Content = 0
    /\ \A b \in backups : b.version = 0 => b.content = 0
    /\ \A d \in Daemons :
         /\ daemon[d].phase \in {"backup", "bind", "serving"} => db.version > 0
         /\ daemon[d].phase = "migrate" =>
              \/ Content = 0
              \/ \E b \in backups : b.content = Content /\ b.version \in 1..db.version

OrderInv ==
    /\ DataType /\ Held
    /\ orderly => OneAtATime /\ Waits /\ LogKept /\ BackedUp

\* A step that changes the phase of one daemon, and no command.
Moves(d, p) ==
    /\ p \in Phase /\ daemon'[d].phase = p
    /\ \A e \in Daemons \ {d} : daemon'[e] = daemon[e]
    /\ UNCHANGED <<client, orderly>>

\* Every step of run() is one.
LEMMA GoesMoves ==
    ASSUME TypeOK, NEW d \in Daemons, NEW p \in Phase, Goes(d, p), UNCHANGED <<client, orderly>>
    PROVE  Moves(d, p)
  BY GoesFacts DEF Moves

\* What it leaves alone, said of the next state.
LEMMA MovedFacts ==
    ASSUME TypeOK, NEW d \in Daemons, NEW p, Moves(d, p)
    PROVE  /\ daemon'[d].phase = p /\ daemon[d].phase \in Phase
           /\ \A e \in Daemons \ {d} : daemon'[e] = daemon[e]
           /\ \A e \in Daemons : daemon'[e].phase \in Phase
           /\ client' = client /\ orderly' = orderly
  BY DEF Moves, TypeOK

\* No daemon starts, stops or publishes but from the phase before: one at a time does.
LEMMA MovesOneAtATime ==
    ASSUME TypeOK, Held, OneAtATime, NEW d \in Daemons, NEW p, Moves(d, p),
           p \in Starting => daemon[d].phase \in Starting,
           p \in Published => daemon[d].phase \in Starting \cup Published,
           p \in {"leaving", "lingers"} => daemon[d].phase \in {"unpublish", "leaving", "lingers"},
           p \in Absent \cup {"lock"} \/ daemon[d].phase \notin Absent \cup {"lock"}
             \/ \A e \in Daemons : daemon[e].phase \notin {"leaving", "lingers"}
    PROVE  OneAtATime'
<1> USE DEF Published, Absent, Starting
<1>1. /\ daemon'[d].phase = p
      /\ \A e \in Daemons \ {d} : daemon'[e] = daemon[e]
      /\ \A e \in Daemons : daemon[e].phase \in Phase /\ daemon'[e].phase \in Phase
  <2>1. \A e \in Daemons : daemon[e].phase \in Phase
    BY DEF TypeOK
  <2> QED
    BY <2>1, MovedFacts
<1>2. ASSUME NEW e \in Daemons \ {d}, daemon[d].phase = "unpublish"
      PROVE  daemon[e].phase \in Absent \cup {"lock"}
  BY <1>1, <1>2 DEF OneAtATime, Held, Phase, Stopping
<1>3. ASSUME NEW e \in Daemons \ {d}
      PROVE  /\ daemon'[d].phase \in Starting => daemon'[e].phase \notin Starting \cup Published
             /\ daemon'[e].phase \in Starting => daemon'[d].phase \notin Starting \cup Published
             /\ daemon'[d].phase \in {"leaving", "lingers"} => daemon'[e].phase \in Absent \cup {"lock"}
             /\ daemon'[e].phase \in {"leaving", "lingers"} => daemon'[d].phase \in Absent \cup {"lock"}
  BY <1>1, <1>2 DEF OneAtATime
<1>4. ASSUME NEW x \in Daemons, NEW y \in Daemons, x # y
      PROVE  /\ daemon'[x].phase \in Starting => daemon'[y].phase \notin Starting \cup Published
             /\ daemon'[x].phase \in {"leaving", "lingers"} => daemon'[y].phase \in Absent \cup {"lock"}
  <2>1. CASE x # d /\ y # d
    BY <1>1, <1>4, <2>1 DEF OneAtATime
  <2>2. CASE x = d
    BY <1>3, <1>4, <2>2
  <2>3. CASE y = d
    BY <1>3, <1>4, <2>3
  <2> QED
    BY <2>1, <2>2, <2>3
<1> QED
  BY <1>4 DEF OneAtATime

\* A daemon that moves on does not disturb what the command has waited for.
LEMMA MovesWaits ==
    ASSUME TypeOK, Held, OneAtATime, Waits, NEW d \in Daemons, NEW p, Moves(d, p),
           daemon[d].phase \notin Absent,
           p \in Starting => daemon[d].phase \in Starting,
           p \in Stopping => daemon[d].phase \in Stopping,
           p = "serving" => daemon[d].phase \in Starting,
           p \in Published \ {"serving"} => daemon[d].phase \in Published \ {"serving"},
           \/ runtime' = None
           \/ runtime' = runtime /\ (runtime = d => p \in Published)
           \/ daemon[d].phase \in Starting \cup {"serving"}
    PROVE  Waits'
<1> USE DEF Published, Absent, Starting
<1>1. /\ daemon'[d].phase = p
      /\ \A e \in Daemons \ {d} : daemon'[e] = daemon[e]
      /\ client' = client
  BY MovedFacts
<1>2. \A c, e \in Clients : client[c].phase # "idle" /\ client[e].phase # "idle" => c = e
  BY DEF Waits, Fits
<1>3. ASSUME NEW c \in Clients, NEW e \in Daemons
      PROVE  /\ client[c].phase \notin {"idle", "poll"} => daemon'[e].phase \notin Starting
             /\ client[c].phase = "look" => daemon'[e].phase \notin Stopping
             /\ client[c].phase \in {"wait", "gone"} => daemon'[e].phase # "serving"
             /\ client[c].phase = "check" => daemon'[e].phase \notin Published \ {"serving"}
             /\ client[c].phase \in {"save", "copy", "unlog"} => daemon'[e].phase \in Absent
  <2>1. CASE e = d
    BY <1>1, <2>1 DEF Waits, Fits
  <2>2. CASE e # d
    BY <1>1, <2>2 DEF Waits, Fits
  <2> QED
    BY <2>1, <2>2
<1>4. ASSUME NEW c \in Clients
      PROVE  /\ client[c].phase = "wait" /\ client[c].op = "restore" =>
                  runtime' = None \/ daemon'[runtime'].phase \in Published
             /\ client[c].phase \in {"save", "copy", "unlog"} => runtime' = None
             /\ client[c].phase \in {"gone", "active"} => client[c].op # "restore"
             /\ client[c].phase = "wait" => client[c].op \in {"restart", "restore"}
  <2>1. CASE client[c].phase = "wait" /\ client[c].op = "restore"
    <3>1. daemon[d].phase \notin Starting \cup {"serving"}
      BY <2>1 DEF Waits, Fits
    <3>2. runtime = None \/ daemon[runtime].phase \in Published
      BY <2>1 DEF Waits, Fits
    <3>3. runtime' = runtime /\ runtime # None /\ runtime # d => daemon'[runtime'].phase \in Published
      BY <1>1, <3>2 DEF TypeOK
    <3>4. runtime' = runtime /\ runtime = d => daemon'[runtime'].phase = p
      BY <1>1
    <3> QED
      BY <2>1, <3>1, <3>3, <3>4
  <2>2. client[c].phase \notin {"save", "copy", "unlog"}
    BY DEF Waits, Fits
  <2> QED
    BY <2>1, <2>2 DEF Waits, Fits
<1> QED
  BY <1>1, <1>2, <1>3, <1>4 DEF Waits, Fits

\* A database that is there stays there.
LEMMA MovesData ==
    ASSUME TypeOK, DataType, NEW d \in Daemons, NEW p, Moves(d, p),
           db' \in Database \cup {None}, backups' \subseteq Backup, db # None => db' # None,
           p \in Opens => db' # None
    PROVE  DataType'
<1>1. /\ daemon'[d].phase = p
      /\ \A e \in Daemons \ {d} : daemon'[e] = daemon[e]
      /\ client' = client /\ orderly' = orderly
  BY MovedFacts
<1>2. \A e \in Daemons : daemon'[e].phase \in Opens => db' # None
  BY <1>1 DEF DataType
<1> QED
  BY <1>1, <1>2 DEF DataType

\* Metadata and lock go with the daemon that has them.
LEMMA MovesHeld ==
    ASSUME TypeOK, Held, NEW d \in Daemons, NEW p, Moves(d, p),
           \/ runtime' = runtime /\ (runtime = d => p \in Published \cup {"exited"})
           \/ runtime' = d /\ p \in Published
           \/ runtime' = None,
           p \in Published => runtime' = d,
           runtime' # runtime => \A e \in Daemons \ {d} : daemon[e].phase \notin Published,
           \/ lock' = lock /\ (lock = d => p \in HoldsLock)
           \/ lock' = d /\ p \in HoldsLock
           \/ lock' = None
    PROVE  Held'
<1>1. /\ daemon'[d].phase = p
      /\ \A e \in Daemons \ {d} : daemon'[e] = daemon[e]
  BY MovedFacts
<1>2. runtime' # None => daemon'[runtime'].phase \in Published \cup {"exited"}
  BY <1>1 DEF Held, TypeOK
<1>3. ASSUME NEW e \in Daemons, daemon'[e].phase \in Published PROVE runtime' = e
  BY <1>1, <1>3 DEF Held
<1>4. lock' # None => daemon'[lock'].phase \in HoldsLock
  BY <1>1 DEF Held, TypeOK
<1> QED
  BY <1>2, <1>3, <1>4 DEF Held

\* The invariant of a daemon's step, with the log and the backups told apart.
LEMMA MovesOrder ==
    ASSUME IInv, OrderInv, DataType', Held', orderly' = orderly,
           orderly => OneAtATime' /\ Waits' /\ LogKept' /\ BackedUp'
    PROVE  OrderInv'
  BY DEF OrderInv

\* A step that leaves the database alone keeps what is said of it, as far as the
\* phases do not say more.
LEMMA MovesLog ==
    ASSUME TypeOK, Held, LogKept, NEW d \in Daemons, NEW p, Moves(d, p), UNCHANGED fileVars,
           runtime' = None => runtime = None \/ p \in {"leaving", "lingers"},
           daemon[d].phase \in {"leaving", "lingers"} => p \in {"leaving", "lingers"}
    PROVE  LogKept'
<1>1. /\ daemon'[d].phase = p
      /\ \A e \in Daemons \ {d} : daemon'[e] = daemon[e]
  BY MovedFacts
<1> QED
  BY <1>1 DEF LogKept, fileVars

\* A step that neither opens the file nor starts a migration.
LEMMA MovesBackedUp ==
    ASSUME TypeOK, BackedUp, NEW d \in Daemons, NEW p, Moves(d, p), UNCHANGED fileVars,
           p \in {"backup", "migrate"} => FALSE,
           p \in {"bind", "serving"} => daemon[d].phase \in {"bind", "serving"}
    PROVE  BackedUp'
<1>1. /\ daemon'[d].phase = p
      /\ \A e \in Daemons \ {d} : daemon'[e] = daemon[e]
  BY MovedFacts
<1> QED
  BY <1>1 DEF BackedUp, fileVars, Content

\* A daemon that is gone, and was not stopping where all is orderly.
LEMMA GoneOrder ==
    ASSUME DaemonAssumption, IInv, OrderInv, NEW d \in Daemons, Gone(d),
           UNCHANGED <<runtime, client, orderly>>, UNCHANGED fileVars, daemon[d].phase \notin Absent,
           orderly => daemon[d].phase \in Starting \cup {"serving"}
    PROVE  OrderInv'
<1>1. TypeOK /\ Held /\ DataType /\ (orderly => OneAtATime /\ Waits /\ LogKept /\ BackedUp)
  BY DEF IInv, OrderInv
<1> USE DEF Published, Absent, Starting, Stopping, Opens, HoldsLock, fileVars
<1>2. Moves(d, "exited") /\ (lock' = lock \/ lock' = None) /\ (lock = d => lock' = None)
  BY <1>1, GoesMoves DEF Gone, Phase
<1>3. DataType'
  BY <1>1, <1>2, MovesData DEF DataType
<1>4. Held'
  BY <1>1, <1>2, MovesHeld
<1>5. ASSUME orderly PROVE OneAtATime' /\ Waits' /\ LogKept' /\ BackedUp'
  <2>1. OneAtATime'
    BY <1>1, <1>2, <1>5, MovesOneAtATime
  <2>2. Waits'
    BY <1>1, <1>2, <1>5, MovesWaits
  <2>3. LogKept'
    BY <1>1, <1>2, <1>5, MovesLog
  <2>4. BackedUp'
    BY <1>1, <1>2, <1>5, MovesBackedUp
  <2> QED
    BY <2>1, <2>2, <2>3, <2>4
<1> QED
  BY <1>2, <1>3, <1>4, <1>5, MovesOrder DEF Moves

\* A daemon whose step leaves files and metadata alone.
LEMMA QuietOrder ==
    ASSUME DaemonAssumption, IInv, OrderInv, NEW d \in Daemons, NEW p \in Phase, Moves(d, p),
           runtime' = runtime, UNCHANGED fileVars,
           \/ daemon[d].phase = "lock" /\ p = "exited" /\ lock' = lock
           \/ daemon[d].phase = "lock" /\ p = "key" /\ lock' = d
                /\ (orderly => \A e \in Daemons : daemon[e].phase \notin {"leaving", "lingers"})
           \/ daemon[d].phase = "key" /\ p = "open" /\ lock' = lock
           \/ daemon[d].phase = "draining" /\ p = "closing" /\ lock' = lock
           \/ daemon[d].phase = "closing" /\ p = "unpublish" /\ lock' = lock
           \/ daemon[d].phase = "leaving" /\ p = "lingers" /\ lock' = None
    PROVE  OrderInv'
<1>1. TypeOK /\ Held /\ DataType /\ (orderly => OneAtATime /\ Waits /\ LogKept /\ BackedUp) /\ OneStore
  BY DEF IInv, OrderInv
<1>2. Moves(d, p)
  OBVIOUS
<1> USE DEF Published, Absent, Starting, Stopping, Opens, HoldsLock, fileVars
<1>3. DataType'
  BY <1>1, <1>2, MovesData DEF DataType
<1>4. Held'
  <2>1. lock = d => daemon[d].phase # "lock"
    BY <1>1 DEF Held, DaemonAssumption
  <2>2. daemon[d].phase \in Published => runtime = d
    BY <1>1 DEF Held
  <2>3. runtime = d => daemon[d].phase \in Published
                       \/ daemon[d].phase = "exited"
    BY <1>1 DEF Held, DaemonAssumption
  <2> QED
    BY <1>1, <1>2, <2>1, <2>2, <2>3, MovesHeld
<1>5. ASSUME orderly PROVE OneAtATime' /\ Waits' /\ LogKept' /\ BackedUp'
  <2>1. OneAtATime'
    BY <1>1, <1>2, <1>5, MovesOneAtATime
  <2>2. Waits'
    <3>1. runtime = d => p \in Published \/ daemon[d].phase \in Starting
      BY <1>1 DEF Held, DaemonAssumption
    <3> QED
      BY <1>1, <1>2, <1>5, <3>1, MovesWaits
  <2>3. LogKept'
    BY <1>1, <1>2, <1>5, MovesLog
  <2>4. BackedUp'
    BY <1>1, <1>2, <1>5, MovesBackedUp
  <2> QED
    BY <2>1, <2>2, <2>3, <2>4
<1> QED
  BY <1>2, <1>3, <1>4, <1>5, MovesOrder DEF Moves

\* The schema that is found decides: up to date, new, to back up, or refused.
LEMMA OpenStoreOrder ==
    ASSUME DaemonAssumption, IInv, OrderInv, NEW d \in Daemons, OpenStore(d)
    PROVE  OrderInv'
<1>1. /\ TypeOK /\ Held /\ DataType /\ (orderly => OneAtATime /\ Waits /\ LogKept /\ BackedUp)
      /\ daemon[d].phase = "open" /\ UNCHANGED <<runtime, client, orderly, backups>>
  BY DEF IInv, OrderInv, OpenStore, In
<1>2. /\ Opened \in Database /\ db' = Opened /\ Opened.version \in Nat /\ Opened.wal \in Nat
      /\ db # None => Opened = db
      /\ db = None => Opened.main = 0 /\ Opened.wal = 0 /\ Opened.version = 0
  BY <1>1 DEF Opened, OpenStore, DataType, Database
<1>3. SchemaOf(d) \in Nat /\ SchemaOf(d) > 0
  BY DEF SchemaOf, DaemonAssumption
<1> USE DEF Published, Absent, Starting, Stopping, Opens, HoldsLock
<1>4. ASSUME NEW p \in {"bind", "migrate", "backup", "exited"}, Moves(d, p),
             lock' = lock \/ lock' = None, p = "exited" => (lock = d => lock' = None),
             p # "exited" => lock' = lock,
             p = "bind" => Opened.version = SchemaOf(d), p = "migrate" => Opened.version = 0,
             p = "backup" => Opened.version # 0
      PROVE  OrderInv'
  <2>1. DataType'
    <3>1. db' \in Database /\ db' # None
      BY <1>1, <1>2, DaemonAssumption DEF Database, DaemonAssumption
    <3> QED
      BY <1>1, <1>4, <3>1, MovesData DEF DataType
  <2>2. runtime # d
    BY <1>1 DEF Held, DaemonAssumption
  <2>3. Held'
    BY <1>1, <1>4, <2>2, MovesHeld DEF Held
  <2>4. ASSUME orderly PROVE OneAtATime' /\ Waits' /\ LogKept' /\ BackedUp'
    <3>1. OneAtATime'
      BY <1>1, <1>4, <2>4, MovesOneAtATime
    <3>2. Waits'
      BY <1>1, <1>4, <2>2, <2>4, MovesWaits
    <3>3. /\ daemon'[d].phase = p
          /\ \A e \in Daemons \ {d} : daemon'[e] = daemon[e]
      BY <1>1, <1>4, MovedFacts
    <3>4. LogKept'
      BY <1>1, <1>2, <2>4, <3>3 DEF LogKept
    <3>5. \A e \in Daemons \ {d} : daemon[e].phase \notin {"backup", "bind", "serving", "migrate"}
      BY <1>1, <2>4 DEF OneAtATime
    <3>6. Opened.version = 0 => Opened.main = 0 /\ Opened.wal = 0
      BY <1>1, <1>2, <2>4 DEF BackedUp, Content, Database
    <3>7. Opened.version = 0 => Content' = 0
      BY <1>2, <3>6 DEF Content
    <3>8. BackedUp'
      BY <1>1, <1>2, <1>3, <1>4, <2>4, <3>3, <3>5, <3>7 DEF BackedUp
    <3> QED
      BY <3>1, <3>2, <3>4, <3>8
  <2> QED
    BY <1>1, <2>1, <2>3, <2>4, MovesOrder
<1>5. CASE Opened.version > SchemaOf(d)
  <2>1. Gone(d)
    BY <1>5 DEF OpenStore
  <2>2. Moves(d, "exited")
    BY <1>1, <2>1, GoesMoves DEF Gone, Phase
  <2> QED
    BY <1>4, <2>1, <2>2 DEF Gone
<1>6. CASE ~(Opened.version > SchemaOf(d))
  <2>1. PICK p \in {"bind", "migrate", "backup"} :
           /\ Goes(d, p) /\ lock' = lock
           /\ p = "bind" => Opened.version = SchemaOf(d)
           /\ p = "migrate" => Opened.version = 0
           /\ p = "backup" => Opened.version # 0
    BY <1>6 DEF OpenStore
  <2>2. Moves(d, p)
    BY <1>1, <2>1, GoesMoves DEF Phase
  <2> QED
    BY <1>4, <2>1, <2>2
<1> QED
  BY <1>5, <1>6

\* The database's record.
LEMMA DatabaseEdit ==
    \A r \in Database, n \in Nat :
        LET v == [r EXCEPT !.version = n]
            w == [r EXCEPT !.wal = n]
            m == [r EXCEPT !.main = n]
        IN  /\ v \in Database /\ v.version = n /\ v.main = r.main /\ v.wal = r.wal
            /\ w \in Database /\ w.wal = n /\ w.main = r.main /\ w.version = r.version
            /\ m \in Database /\ m.main = n /\ m.wal = r.wal /\ m.version = r.version
  BY SMT DEF Database

\* The numbers of a database that is there.
LEMMA DatabaseFacts ==
    ASSUME DataType, db # None
    PROVE  /\ db \in Database /\ db.version \in Nat /\ db.main \in Nat /\ db.wal \in Nat
           /\ Content \in Nat
  BY DEF DataType, Database, Content

\* Nobody else has the database while one daemon is past the lock, where all is orderly.
LEMMA Alone ==
    ASSUME OneAtATime, NEW d \in Daemons, daemon[d].phase \in {"backup", "migrate", "bind"}
    PROVE  \A e \in Daemons \ {d} : daemon[e].phase \notin Starting \cup Published
  BY DEF OneAtATime, Starting

\* A start that has the database backs it up, or migrates it by a version.
LEMMA MigrationOrder ==
    ASSUME DaemonAssumption, IInv, OrderInv, NEW d \in Daemons, NEW p \in {"migrate", "bind"},
           Moves(d, p), UNCHANGED <<lock, runtime>>,
           \/ /\ daemon[d].phase = "backup" /\ p = "migrate" /\ db' = db
              /\ backups' = WithBackup
           \/ /\ daemon[d].phase = "migrate" /\ db' = [db EXCEPT !.version = @ + 1]
              /\ backups' = backups
    PROVE  OrderInv'
<1>1. /\ TypeOK /\ Held /\ DataType /\ (orderly => OneAtATime /\ Waits /\ LogKept /\ BackedUp)
      /\ Moves(d, p) /\ orderly' = orderly
  BY DEF IInv, OrderInv, Moves
<1> USE DEF Published, Absent, Starting, Stopping, Opens, HoldsLock
<1>2. /\ db # None /\ db \in Database /\ db.version \in Nat /\ db.main \in Nat /\ db.wal \in Nat
      /\ Content \in Nat
  <2>1. db # None
    BY <1>1 DEF DataType
  <2> QED
    BY <1>1, <2>1, DatabaseFacts
<1>3. /\ db' \in Database /\ db' # None
      /\ db'.main = db.main /\ db'.wal = db.wal
      /\ db'.version = db.version \/ db'.version = db.version + 1
      /\ daemon[d].phase = "migrate" => db'.version = db.version + 1
  <2> DEFINE next == [db EXCEPT !.version = db.version + 1]
  <2>1. db.version + 1 \in Nat
    BY <1>2
  <2>2. /\ next \in Database /\ next.version = db.version + 1
        /\ next.main = db.main /\ next.wal = db.wal
    BY <1>2, <2>1, DatabaseEdit
  <2>3. CASE daemon[d].phase = "backup"
    BY <1>2, <2>3
  <2>4. CASE daemon[d].phase = "migrate"
    <3>1. db' = next
      BY <2>4
    <3> QED
      BY <2>2, <2>4, <3>1, DaemonAssumption DEF DaemonAssumption, Database
  <2> QED
    BY <2>3, <2>4
<1>4. Content' = Content
  BY <1>3 DEF Content
<1>5. backups \subseteq Backup /\ backups' \subseteq Backup
  BY <1>1, <1>2 DEF DataType, WithBackup, Backup
<1>6. DataType'
  BY <1>1, <1>3, <1>5, MovesData
<1>7. runtime # d
  BY <1>1 DEF Held, DaemonAssumption
<1>8. Held'
  BY <1>1, <1>7, MovesHeld
<1>9. ASSUME orderly PROVE OneAtATime' /\ Waits' /\ LogKept' /\ BackedUp'
  <2>1. OneAtATime'
    BY <1>1, <1>9, MovesOneAtATime
  <2>2. Waits'
    BY <1>1, <1>7, <1>9, MovesWaits
  <2>3. /\ daemon'[d].phase = p
        /\ \A e \in Daemons \ {d} : daemon'[e] = daemon[e]
    BY <1>1, MovedFacts
  <2>4. LogKept'
    <3>1. db.wal > 0 => runtime # None \/ \E e \in Daemons \ {d} : daemon[e].phase \in {"leaving", "lingers"}
      BY <1>1, <1>2, <1>9 DEF LogKept
    <3> QED
      BY <1>3, <2>3, <3>1 DEF LogKept
  <2>5. \A e \in Daemons \ {d} : daemon'[e].phase \notin Starting \cup Published
    BY <1>1, <1>9, <2>3, Alone
  <2>6. ASSUME daemon[d].phase = "backup" PROVE BackedUp'
    <3>1. db' = db /\ backups' = WithBackup /\ p = "migrate" /\ db.version > 0
      BY <1>1, <1>9, <2>6 DEF BackedUp
    <3>2. \A b \in backups' : b.version = 0 => b.content = 0
      BY <1>1, <1>9, <3>1 DEF BackedUp, WithBackup
    <3>3. \E b \in backups' : b.content = Content /\ b.version \in 1..db.version
      <4> DEFINE b == [version |-> db.version, content |-> Content]
      <4>1. b \in backups' /\ b.content = Content /\ b.version \in 1..db.version
        BY <1>2, <3>1 DEF WithBackup
      <4> QED
        BY <4>1
    <3> QED
      <4>1. \A e \in Daemons : daemon'[e].phase \notin {"bind", "serving", "backup"}
        BY <2>3, <2>5, <3>1
      <4>2. \A e \in Daemons : daemon'[e].phase = "migrate" =>
               \E b \in backups' : b.content = Content' /\ b.version \in 1..db'.version
        BY <1>4, <3>1, <3>3
      <4>3. (db # None /\ db.version = 0 => Content = 0)'
        BY <1>2, <3>1
      <4> QED
        BY <3>2, <4>1, <4>2, <4>3 DEF BackedUp
  <2>7. ASSUME daemon[d].phase = "migrate" PROVE BackedUp'
    <3>1. backups' = backups /\ db'.version = db.version + 1 /\ db'.version > 0
      BY <1>2, <1>3, <2>7
    <3>2. \/ Content = 0
          \/ \E b \in backups : b.content = Content /\ b.version \in 1..db.version
      BY <1>1, <1>9, <2>7 DEF BackedUp
    <3>3. 1..db.version \subseteq 1..(db.version + 1)
      BY <1>2
    <3>4. \/ Content' = 0
          \/ \E b \in backups' : b.content = Content' /\ b.version \in 1..db'.version
      BY <1>4, <3>1, <3>2, <3>3
    <3>5. \A b \in backups' : b.version = 0 => b.content = 0
      BY <1>1, <1>9, <3>1 DEF BackedUp
    <3> QED
      <4>1. db'.version # 0
        BY <1>2, <3>1
      <4>2. \A e \in Daemons : daemon'[e].phase = "migrate" =>
               \/ Content' = 0
               \/ \E b \in backups' : b.content = Content' /\ b.version \in 1..db'.version
        BY <3>4
      <4>3. (db # None /\ db.version = 0 => Content = 0)'
        BY <4>1
      <4>4. \A e \in Daemons : daemon'[e].phase \in {"backup", "bind", "serving"} => db'.version > 0
        BY <3>1
      <4> QED
        BY <3>5, <4>2, <4>3, <4>4 DEF BackedUp
  <2> QED
    BY <2>1, <2>2, <2>4, <2>6, <2>7
<1> QED
  BY <1>1, <1>6, <1>8, <1>9, MovesOrder

\* A daemon is published by the one start there is, and takes back its own metadata.
LEMMA PublishedOrder ==
    ASSUME DaemonAssumption, IInv, OrderInv, NEW d \in Daemons, NEW p \in Phase, Moves(d, p),
           UNCHANGED lock, UNCHANGED fileVars,
           \/ daemon[d].phase = "bind" /\ p = "serving" /\ runtime' = d
           \/ daemon[d].phase = "unpublish" /\ p = "leaving" /\ runtime' = None
    PROVE  OrderInv'
<1>1. /\ TypeOK /\ Held /\ DataType /\ OneStore
      /\ (orderly => OneAtATime /\ Waits /\ LogKept /\ BackedUp)
      /\ Moves(d, p) /\ orderly' = orderly
  BY DEF IInv, OrderInv, Moves
<1> USE DEF Published, Absent, Starting, Stopping, Opens, HoldsLock, fileVars
<1>2. DataType'
  BY <1>1, MovesData DEF DataType
<1>3. \A e \in Daemons \ {d} : daemon[e].phase \notin Published
  BY <1>1 DEF OneStore
<1>4. lock = d
  BY <1>1 DEF OneStore
<1>5. Held'
  BY <1>1, <1>3, <1>4, MovesHeld
<1>6. ASSUME orderly PROVE OneAtATime' /\ Waits' /\ LogKept' /\ BackedUp'
  <2>1. OneAtATime'
    BY <1>1, <1>6, MovesOneAtATime
  <2>2. Waits'
    BY <1>1, <1>6, MovesWaits
  <2>3. LogKept'
    BY <1>1, <1>6, MovesLog DEF DaemonAssumption
  <2>4. BackedUp'
    BY <1>1, <1>6, MovesBackedUp
  <2> QED
    BY <2>1, <2>2, <2>3, <2>4
<1> QED
  BY <1>1, <1>2, <1>5, <1>6, MovesOrder

\* The last connection, closed, leaves no log: in order, nobody else has one.
LEMMA ExitOrder ==
    ASSUME DaemonAssumption, IInv, OrderInv, NEW d \in Daemons, Exit(d)
    PROVE  OrderInv'
<1>1. /\ TypeOK /\ Held /\ DataType /\ (orderly => OneAtATime /\ Waits /\ LogKept /\ BackedUp)
      /\ daemon[d].phase = "lingers" /\ UNCHANGED <<lock, runtime, backups, client, orderly>>
      /\ Goes(d, "exited")
      /\ db' = IF \E e \in Daemons \ {d} : daemon[e].phase \in Opens THEN db ELSE Checkpointed
  BY DEF IInv, OrderInv, Exit, In
<1> USE DEF Published, Absent, Starting, Stopping, Opens, HoldsLock
<1>2. Moves(d, "exited")
  BY <1>1, GoesMoves DEF Phase
<1>3. /\ db # None /\ db \in Database /\ db.version \in Nat /\ db.main \in Nat /\ db.wal \in Nat
  <2>1. db # None
    BY <1>1 DEF DataType
  <2> QED
    BY <1>1, <2>1, DatabaseFacts
<1>4. /\ Checkpointed \in Database /\ Checkpointed.version = db.version
      /\ Checkpointed.main + Checkpointed.wal = db.main + db.wal /\ Checkpointed.wal = 0
  <2> DEFINE m == [db EXCEPT !.main = db.main + db.wal]
  <2>1. m \in Database /\ m.main = db.main + db.wal /\ m.version = db.version
    <3>1. db.main + db.wal \in Nat
      BY <1>3
    <3> QED
      BY <1>3, <3>1, DatabaseEdit
  <2>2. Checkpointed = [m EXCEPT !.wal = 0]
    BY <1>3 DEF Checkpointed, Database
  <2>3. [m EXCEPT !.wal = 0] \in Database /\ [m EXCEPT !.wal = 0].wal = 0
        /\ [m EXCEPT !.wal = 0].main = m.main /\ [m EXCEPT !.wal = 0].version = m.version
    BY <2>1, DatabaseEdit
  <2> QED
    BY <1>3, <2>1, <2>2, <2>3
<1>5. /\ db' \in Database /\ db' # None /\ db'.version = db.version
      /\ Content' = Content
  BY <1>1, <1>3, <1>4, DaemonAssumption DEF Content, DaemonAssumption, Database
<1>6. DataType'
  BY <1>1, <1>2, <1>5, MovesData DEF DataType
<1>7. runtime # d /\ lock # d
  BY <1>1 DEF Held, DaemonAssumption
<1>8. Held'
  BY <1>1, <1>2, <1>7, MovesHeld
<1>9. ASSUME orderly PROVE OneAtATime' /\ Waits' /\ LogKept' /\ BackedUp'
  <2>1. OneAtATime'
    BY <1>1, <1>2, <1>9, MovesOneAtATime
  <2>2. Waits'
    BY <1>1, <1>2, <1>7, <1>9, MovesWaits
  <2>3. \A e \in Daemons \ {d} : daemon[e].phase \notin Opens
    BY <1>1, <1>9 DEF OneAtATime
  <2>4. db'.wal = 0
    BY <1>1, <1>4, <2>3
  <2>5. LogKept'
    BY <2>4 DEF LogKept
  <2>6. /\ daemon'[d].phase = "exited"
        /\ \A e \in Daemons \ {d} : daemon'[e] = daemon[e]
    BY <1>1, <1>2, MovedFacts
  <2>7. BackedUp'
    BY <1>1, <1>3, <1>5, <1>9, <2>6 DEF BackedUp
  <2> QED
    BY <2>1, <2>2, <2>5, <2>7
<1> QED
  BY <1>1, <1>6, <1>8, <1>9, MovesOrder

\* A commit goes to the log of the daemon that is published.
LEMMA ServeOrder ==
    ASSUME DaemonAssumption, IInv, OrderInv, NEW d \in Daemons, Serve(d)
    PROVE  OrderInv'
<1>1. /\ TypeOK /\ Held /\ DataType /\ (orderly => OneAtATime /\ Waits /\ LogKept /\ BackedUp)
      /\ daemon[d].phase = "serving" /\ UNCHANGED <<lock, runtime, daemon, backups, client, orderly>>
      /\ db' = [db EXCEPT !.wal = @ + 1]
  BY DEF IInv, OrderInv, Serve, In
<1> USE DEF Published, Absent, Starting, Stopping, Opens
<1>2. /\ db # None /\ db \in Database /\ db.version \in Nat /\ db.main \in Nat /\ db.wal \in Nat
  <2>1. db # None
    BY <1>1 DEF DataType
  <2> QED
    BY <1>1, <2>1, DatabaseFacts
<1>3. db' \in Database /\ db' # None /\ db'.version = db.version
  <2>1. db.wal + 1 \in Nat /\ db' = [db EXCEPT !.wal = db.wal + 1]
    BY <1>1, <1>2
  <2>2. db' \in Database /\ db'.version = db.version
    BY <1>2, <2>1, DatabaseEdit
  <2> QED
    BY <2>2, DaemonAssumption DEF DaemonAssumption, Database
<1>4. DataType'
  BY <1>1, <1>3 DEF DataType
<1>5. Held'
  BY <1>1 DEF Held
<1>6. ASSUME orderly PROVE OneAtATime' /\ Waits' /\ LogKept' /\ BackedUp'
  <2>1. OneAtATime' /\ Waits'
    BY <1>1, <1>6 DEF OneAtATime, Waits, Fits
  <2>2. LogKept'
    BY <1>1 DEF LogKept, Held, DaemonAssumption
  <2>3. db.version > 0
    BY <1>1, <1>6 DEF BackedUp
  <2>4. \A e \in Daemons : daemon[e].phase # "migrate"
    BY <1>1, <1>6 DEF OneAtATime
  <2>5. BackedUp'
    BY <1>1, <1>2, <1>3, <1>6, <2>3, <2>4 DEF BackedUp
  <2> QED
    BY <2>1, <2>2, <2>5
<1> QED
  BY <1>1, <1>4, <1>5, <1>6 DEF OrderInv

\* Every step of run() keeps the order.
LEMMA RunOrder ==
    ASSUME DaemonAssumption, IInv, OrderInv, NEW d \in Daemons, Run(d)
    PROVE  OrderInv'
<1>1. /\ TypeOK /\ Held /\ DataType /\ (orderly => OneAtATime /\ Waits /\ LogKept /\ BackedUp)
      /\ daemon[d].phase \in Phase
  BY DEF IInv, OrderInv, TypeOK
<1> USE DEF In, Phase, Starting, Stopping
<1>2. CASE AcquireLock(d)
  <2>1. daemon[d].phase = "lock" /\ UNCHANGED <<runtime, fileVars, client, orderly>>
    BY <1>2 DEF AcquireLock, keyVars
  <2>2. CASE Locked(d)
    <3>1. Moves(d, "key") /\ lock' = d
      BY <1>1, <2>1, <2>2, GoesMoves DEF Locked
    <3>2. orderly => \A e \in Daemons : daemon[e].phase \notin {"leaving", "lingers"}
      BY <1>2 DEF AcquireLock, Leaving
    <3> QED
      BY <2>1, <3>1, <3>2, QuietOrder DEF fileVars
  <2>3. CASE Goes(d, "exited") /\ UNCHANGED lock
    <3>1. Moves(d, "exited")
      BY <1>1, <2>1, <2>3, GoesMoves
    <3> QED
      BY <2>1, <2>3, <3>1, QuietOrder DEF fileVars
  <2> QED
    BY <1>2, <2>2, <2>3 DEF AcquireLock
<1>3. CASE LoadKey(d)
  <2>1. daemon[d].phase = "key" /\ UNCHANGED <<runtime, fileVars, client, orderly>>
    BY <1>3 DEF LoadKey
  <2>2. CASE Gone(d)
    BY <2>1, <2>2, GoneOrder DEF Absent, fileVars
  <2>3. ASSUME NEW k, HasKey(d, k) PROVE OrderInv'
    <3>1. Moves(d, "open") /\ lock' = lock
      BY <1>1, <2>1, <2>3 DEF HasKey, Moves, TypeOK
    <3> QED
      BY <2>1, <3>1, QuietOrder DEF fileVars
  <2> QED
    BY <1>3, <2>2, <2>3 DEF LoadKey
<1>4. CASE OpenStore(d)
  BY <1>4, OpenStoreOrder
<1>5. CASE BackUp(d)
  <2>1. /\ daemon[d].phase = "backup" /\ db' = db /\ backups' = WithBackup
        /\ UNCHANGED <<lock, runtime>>
    BY <1>5 DEF BackUp
  <2>2. Moves(d, "migrate")
    BY <1>1, <1>5, GoesMoves DEF BackUp
  <2> QED
    BY <2>1, <2>2, MigrationOrder
<1>6. CASE Migrate(d)
  <2>1. /\ daemon[d].phase = "migrate" /\ backups' = backups
        /\ UNCHANGED <<runtime, client, orderly>>
    BY <1>6 DEF Migrate
  <2>2. CASE Gone(d) /\ UNCHANGED db
    BY <2>1, <2>2, GoneOrder DEF Absent, fileVars
  <2>3. ASSUME NEW p \in {"migrate", "bind"}, Goes(d, p), db' = [db EXCEPT !.version = @ + 1],
               UNCHANGED lock
        PROVE  OrderInv'
    <3>1. Moves(d, p)
      BY <1>1, <2>1, <2>3, GoesMoves
    <3> QED
      BY <2>1, <2>3, <3>1, MigrationOrder
  <2> QED
    BY <1>6, <2>2, <2>3 DEF Migrate
<1>7. CASE Publish(d)
  <2>1. Moves(d, "serving")
    BY <1>1, <1>7, GoesMoves DEF Publish
  <2> QED
    BY <1>7, <2>1, PublishedOrder DEF Publish
<1>8. CASE Drained(d)
  <2>1. Moves(d, "closing")
    BY <1>1, <1>8, GoesMoves DEF Drained
  <2> QED
    BY <1>8, <2>1, QuietOrder DEF Drained
<1>9. CASE CloseStore(d)
  <2>1. Moves(d, "unpublish")
    BY <1>1, <1>9, GoesMoves DEF CloseStore
  <2> QED
    BY <1>9, <2>1, QuietOrder DEF CloseStore
<1>10. CASE Unpublish(d)
  <2>1. Moves(d, "leaving")
    BY <1>1, <1>10, GoesMoves DEF Unpublish
  <2>2. runtime = d
    BY <1>1, <1>10 DEF Unpublish, Held, Published
  <2> QED
    BY <1>10, <2>1, <2>2, PublishedOrder DEF Unpublish
<1>11. CASE ReleaseLock(d)
  <2>1. Moves(d, "lingers")
    BY <1>1, <1>11, GoesMoves DEF ReleaseLock
  <2> QED
    BY <1>11, <2>1, QuietOrder DEF ReleaseLock
<1>12. CASE Exit(d)
  BY <1>12, ExitOrder
<1> QED
  BY <1>2, <1>3, <1>4, <1>5, <1>6, <1>7, <1>8, <1>9, <1>10, <1>11, <1>12 DEF Run

\* A step of one command.
Turns(c) ==
    /\ client' \in [Clients -> [op : Op, phase : Stage, running : BOOLEAN]]
    /\ \A e \in Clients \ {c} : client'[e] = client[e]
    /\ client'[c].phase = "idle" => client'[c] = NoCommand
    /\ orderly' = orderly

\* A command goes on, becomes another, or ends.
LEMMA ContinuesTurns ==
    ASSUME DataType, NEW c \in Clients, NEW p \in Stage \ {"idle"}, Continues(c, p), UNCHANGED orderly
    PROVE  Turns(c) /\ client'[c].phase = p /\ client'[c].op = client[c].op
<1>1. client[c] \in [op : Op, phase : Stage, running : BOOLEAN]
  BY DEF DataType
<1>2. DEFINE r == [client[c] EXCEPT !.phase = p]
<1>3. r \in [op : Op, phase : Stage, running : BOOLEAN] /\ r.phase = p /\ r.op = client[c].op
  BY <1>1
<1>4. client' = [client EXCEPT ![c] = r]
  BY DEF Continues
<1>5. HIDE DEF r
<1> QED
  BY <1>3, <1>4 DEF DataType, Turns

LEMMA BecomesTurns ==
    ASSUME DataType, NEW c \in Clients, NEW r \in [op : Op, phase : Stage, running : BOOLEAN],
           client' = [client EXCEPT ![c] = r], UNCHANGED orderly, r.phase = "idle" => r = NoCommand
    PROVE  Turns(c) /\ client'[c] = r
  BY DEF DataType, Turns

LEMMA EndsTurns ==
    ASSUME DataType, NEW c \in Clients, Ends(c), UNCHANGED orderly
    PROVE  Turns(c) /\ client'[c].phase = "idle"
<1>1. NoCommand \in [op : Op, phase : Stage, running : BOOLEAN] /\ NoCommand.phase = "idle"
  BY DEF NoCommand, Op, Stage
<1> QED
  BY <1>1, BecomesTurns DEF Ends

\* The others are idle: one command fits.
LEMMA TurnsWaits ==
    ASSUME DataType, Waits, NEW c \in Clients, Turns(c), Fits(client[c])',
           client[c].phase # "idle" \/ \A e \in Clients : client[e].phase = "idle"
    PROVE  Waits'
<1>1. \A e \in Clients \ {c} : client[e].phase = "idle"
  BY DEF Waits
<1>2. \A e \in Clients \ {c} : client'[e].phase = "idle"
  BY <1>1 DEF Turns
<1>3. \A e \in Clients \ {c} : Fits(client[e])'
  BY <1>2 DEF Fits
<1> QED
  BY <1>2, <1>3 DEF Waits

\* A command's step that touches neither daemon nor file.
LEMMA TurnsOrder ==
    ASSUME IInv, OrderInv, NEW c \in Clients, Turns(c), UNCHANGED <<lock, runtime, daemon>>,
           UNCHANGED fileVars, client'[c].phase = "unlog" => db # None,
           orderly => /\ Fits(client[c])'
                      /\ client[c].phase # "idle" \/ \A e \in Clients : client[e].phase = "idle"
    PROVE  OrderInv'
<1>1. /\ Held /\ DataType /\ (orderly => OneAtATime /\ Waits /\ LogKept /\ BackedUp)
      /\ orderly' = orderly
  BY DEF OrderInv, Turns
<1>2. DataType'
  BY <1>1 DEF DataType, Turns, fileVars
<1>3. Held'
  BY <1>1 DEF Held
<1>4. ASSUME orderly PROVE OneAtATime' /\ Waits' /\ LogKept' /\ BackedUp'
  <2>1. OneAtATime'
    BY <1>1, <1>4 DEF OneAtATime
  <2>2. Waits'
    BY <1>1, <1>4, TurnsWaits
  <2>3. LogKept' /\ BackedUp'
    BY <1>1, <1>4 DEF LogKept, BackedUp, Content, fileVars
  <2> QED
    BY <2>1, <2>2, <2>3
<1> QED
  BY <1>1, <1>2, <1>3, <1>4 DEF OrderInv

\* An idle command waits for nothing.
LEMMA IdleFits ==
    ASSUME NEW c \in Clients, client'[c].phase = "idle" PROVE Fits(client[c])'
  BY DEF Fits

\* Who is healthy is alone: nobody starts, and nobody stops.
LEMMA HealthyAlone ==
    ASSUME TypeOK, Held, OneAtATime, DaemonAssumption, Healthy
    PROVE  \A d \in Daemons : daemon[d].phase \notin Starting
<1>1. runtime \in Daemons /\ daemon[runtime].phase = "serving"
  BY DEF Healthy, In, TypeOK
<1>2. ASSUME NEW d \in Daemons \ {runtime} PROVE daemon[d].phase \notin Starting
  BY <1>1 DEF OneAtATime, Published
<1> QED
  BY <1>1, <1>2 DEF Starting

\* A healthy daemon is found.
LEMMA FoundOrder ==
    ASSUME DaemonAssumption, IInv, OrderInv, NEW c \in Clients, Healthy, Found(c),
           client[c].phase # "idle", UNCHANGED <<lock, runtime, daemon, orderly>>, UNCHANGED fileVars
    PROVE  OrderInv'
<1>1. TypeOK /\ Held /\ DataType /\ (orderly => OneAtATime)
  BY DEF IInv, OrderInv
<1>2. CASE Ends(c)
  <2>1. Turns(c) /\ client'[c].phase = "idle"
    BY <1>1, <1>2, EndsTurns
  <2> QED
    BY <2>1, IdleFits, TurnsOrder
<1>3. CASE Continues(c, "active") /\ client[c].op = "upgrade"
  <2>1. Turns(c) /\ client'[c].phase = "active" /\ client'[c].op = "upgrade"
    BY <1>1, <1>3, ContinuesTurns DEF Stage
  <2>2. ASSUME orderly PROVE Fits(client[c])'
    <3>1. \A d \in Daemons : daemon'[d].phase \notin Starting
      BY <1>1, <2>2, HealthyAlone
    <3> QED
      BY <2>1, <3>1 DEF Fits
  <2> QED
    BY <2>1, <2>2, TurnsOrder
<1> QED
  BY <1>2, <1>3 DEF Found

\* A command is given when nothing starts or stops.
LEMMA CommandOrder ==
    ASSUME DaemonAssumption, IInv, OrderInv, NEW c \in Clients, Command(c)
    PROVE  OrderInv'
<1>1. /\ DataType /\ UNCHANGED <<lock, runtime, daemon, orderly>> /\ UNCHANGED fileVars
      /\ client[c] = NoCommand
      /\ orderly => Settled /\ \A e \in Clients : client[e] = NoCommand
  BY DEF OrderInv, Command
<1>2. PICK op \in {"start", "stop", "restart", "restore", "upgrade"} :
        client' = [client EXCEPT ![c] = [op |-> op, phase |-> FirstPhase(op), running |-> FALSE]]
  BY DEF Command
<1>3. FirstPhase(op) \in {"check", "look", "stop"}
  BY DEF FirstPhase
<1>4. DEFINE r == [op |-> op, phase |-> FirstPhase(op), running |-> FALSE]
<1>5. r \in [op : Op, phase : Stage, running : BOOLEAN] /\ r.phase = FirstPhase(op)
  BY <1>3 DEF Op, Stage
<1>6. Turns(c) /\ client'[c] = r
  BY <1>1, <1>2, <1>3, <1>5, BecomesTurns
<1>7. ASSUME orderly PROVE Fits(client[c])'
  <2>1. \A d \in Daemons : daemon'[d].phase \notin Starting \cup Stopping
    BY <1>1, <1>7 DEF Settled
  <2>2. client'[c].phase \in {"check", "look", "stop"}
    BY <1>3, <1>5, <1>6
  <2> QED
    BY <2>1, <2>2 DEF Fits, Published, Stopping
<1>8. client'[c].phase # "unlog"
  BY <1>3, <1>5, <1>6
<1>9. orderly => \A e \in Clients : client[e].phase = "idle"
  BY <1>1 DEF NoCommand
<1> QED
  BY <1>1, <1>6, <1>7, <1>8, <1>9, TurnsOrder

\* A daemon is spawned when no other serves or starts.
LEMMA CheckHealthOrder ==
    ASSUME DaemonAssumption, IInv, OrderInv, NEW c \in Clients, CheckHealth(c)
    PROVE  OrderInv'
<1>1. /\ TypeOK /\ Held /\ DataType /\ (orderly => OneAtATime /\ Waits /\ LogKept /\ BackedUp)
      /\ client[c].phase = "check"
      /\ UNCHANGED <<lock, runtime, orderly>> /\ UNCHANGED fileVars
  BY DEF IInv, OrderInv, CheckHealth, At
<1>2. CASE Healthy /\ Found(c) /\ UNCHANGED daemon
  BY <1>1, <1>2, FoundOrder
<1>3. CASE /\ ~Healthy /\ Spawnable # {}
           /\ Goes(CHOOSE d \in Spawnable : TRUE, "lock")
           /\ Continues(c, "poll")
  <2>1. PICK n \in Daemons : daemon[n].phase = "off" /\ Goes(n, "lock")
    <3>1. (CHOOSE d \in Spawnable : TRUE) \in Spawnable
      BY <1>3
    <3> QED
      BY <1>3, <3>1 DEF Spawnable, In
  <2>2. /\ daemon'[n].phase = "lock"
        /\ \A e \in Daemons \ {n} : daemon'[e] = daemon[e]
    BY <1>1, <2>1, GoesFacts DEF Phase, Starting
  <2>3. Turns(c) /\ client'[c].phase = "poll" /\ client'[c].op = client[c].op
    BY <1>1, <1>3, ContinuesTurns DEF Stage
  <2> USE DEF Published, Absent, Starting, Stopping, Opens, HoldsLock, fileVars
  <2>4. runtime # n /\ lock # n
    BY <1>1, <2>1 DEF Held, DaemonAssumption
  <2>5. Held'
    BY <1>1, <2>2, <2>4 DEF Held, TypeOK
  <2>6. DataType'
    <3>1. \A d \in Daemons : daemon'[d].phase \in Opens => db' # None
      BY <1>1, <2>2 DEF DataType
    <3>2. client'[c].phase # "idle" /\ client'[c].phase # "unlog"
      BY <2>3
    <3> QED
      BY <1>1, <2>3, <3>1, <3>2 DEF DataType, Turns
  <2>7. ASSUME orderly PROVE OneAtATime' /\ Waits' /\ LogKept' /\ BackedUp'
    <3>1. Fits(client[c])
      BY <1>1, <2>7 DEF Waits
    <3>2. \A e \in Daemons : daemon[e].phase # "serving"
      BY <1>1, <1>3 DEF Healthy, In, Held, DaemonAssumption
    <3>3. \A e \in Daemons : daemon[e].phase \notin Starting \cup Published
      BY <1>1, <3>1, <3>2 DEF Fits
    <3>4. OneAtATime'
      BY <1>1, <2>2, <2>7, <3>3 DEF OneAtATime
    <3>5. Fits(client[c])'
      BY <2>3 DEF Fits
    <3>6. Waits'
      BY <1>1, <2>3, <2>7, <3>5, TurnsWaits
    <3>7. LogKept'
      BY <1>1, <2>1, <2>2, <2>7 DEF LogKept
    <3>8. BackedUp'
      BY <1>1, <2>2, <2>7 DEF BackedUp, Content
    <3> QED
      BY <3>4, <3>6, <3>7, <3>8
  <2> QED
    BY <1>1, <2>5, <2>6, <2>7 DEF OrderInv
<1> QED
  BY <1>2, <1>3 DEF CheckHealth

\* A stop makes the one that serves drain; who drains already goes on.
LEMMA StopOrder ==
    ASSUME DaemonAssumption, IInv, OrderInv, NEW c \in Clients, Stop(c)
    PROVE  OrderInv'
<1>1. /\ TypeOK /\ Held /\ DataType /\ OneStore
      /\ (orderly => OneAtATime /\ Waits /\ LogKept /\ BackedUp)
      /\ client[c].phase = "stop"
      /\ UNCHANGED <<runtime, orderly>> /\ UNCHANGED fileVars
  BY DEF IInv, OrderInv, Stop, At
<1> USE DEF Published, Absent, Starting, Stopping, fileVars
<1>2. \A d \in Daemons : daemon[d].phase = "serving" => runtime = d
  BY <1>1 DEF Held
<1>3. runtime # None => runtime \in Daemons /\ daemon[runtime].phase \in Published \cup {"exited"}
  BY <1>1 DEF Held, TypeOK
<1>4. PICK s \in BOOLEAN : /\ Stopped(c, s)
                           /\ s <=> ~(runtime # None /\ daemon[runtime].phase = "exited")
  BY DEF Stop, KillSucceeds, In
<1>5. /\ Turns(c) /\ client'[c].phase \in {"idle", "wait", "gone"}
      /\ client'[c].phase = "wait" => client'[c].op \in {"restart", "restore"}
      /\ client'[c].phase = "gone" => client'[c].op # "restore"
      /\ client'[c].phase # "idle" => s \/ client'[c].op # "restore"
  <2>1. CASE Ends(c)
    BY <1>1, <2>1, EndsTurns
  <2>2. CASE Continues(c, "wait") /\ client[c].op \in {"restart", "restore"} /\ (s \/ client[c].op # "restore")
    BY <1>1, <2>2, ContinuesTurns DEF Stage
  <2>3. CASE Continues(c, "gone") /\ client[c].op = "upgrade"
    BY <1>1, <2>3, ContinuesTurns DEF Stage
  <2> QED
    BY <1>4, <2>1, <2>2, <2>3 DEF Stopped, AfterStop
<1>6. CASE /\ UNCHANGED <<daemon, lock>>
           /\ runtime # None => daemon[runtime].phase # "serving"
           /\ runtime # None => daemon[runtime].phase \in Published \/ ~s
  <2>1. \A d \in Daemons : daemon[d].phase # "serving"
    BY <1>2, <1>6, DaemonAssumption DEF DaemonAssumption
  <2>2. ASSUME orderly PROVE Fits(client[c])'
    <3>1. Fits(client[c])
      BY <1>1, <2>2 DEF Waits
    <3> QED
      BY <1>1, <1>3, <1>5, <1>6, <2>1, <3>1 DEF Fits
  <2> QED
    BY <1>1, <1>5, <1>6, <2>2, TurnsOrder
<1>7. CASE /\ runtime # None /\ daemon[runtime].phase = "serving"
           /\ Goes(runtime, "draining") /\ UNCHANGED lock
  <2>1. /\ daemon'[runtime].phase = "draining"
        /\ \A e \in Daemons \ {runtime} : daemon'[e] = daemon[e]
    BY <1>1, <1>3, <1>7, GoesFacts DEF Phase
  <2>2. \A e \in Daemons : daemon'[e].phase # "serving"
    BY <1>2, <2>1
  <2>3. Held'
    BY <1>1, <1>3, <1>7, <2>1 DEF Held, TypeOK, HoldsLock
  <2>4. DataType'
    <3>1. \A d \in Daemons : daemon'[d].phase \in Opens => db' # None
      BY <1>1, <1>3, <1>7, <2>1 DEF DataType, Opens
    <3> QED
      BY <1>1, <1>5, <3>1 DEF DataType, Turns
  <2>5. ASSUME orderly PROVE OneAtATime' /\ Waits' /\ LogKept' /\ BackedUp'
    <3>1. Fits(client[c])
      BY <1>1, <2>5 DEF Waits
    <3>2. OneAtATime'
      BY <1>1, <1>3, <1>7, <2>1, <2>5 DEF OneAtATime
    <3>3. \A e \in Daemons : daemon'[e].phase \notin Starting
      BY <1>1, <2>1, <3>1 DEF Fits
    <3>4. Fits(client[c])'
      BY <1>1, <1>5, <2>1, <2>2, <3>3 DEF Fits
    <3>5. Waits'
      BY <1>1, <1>5, <2>5, <3>4, TurnsWaits
    <3>6. LogKept'
      BY <1>1, <1>7 DEF LogKept
    <3>7. BackedUp'
      BY <1>1, <1>3, <2>1, <2>5 DEF BackedUp, Content
    <3> QED
      BY <3>2, <3>5, <3>6, <3>7
  <2> QED
    BY <1>1, <2>3, <2>4, <2>5 DEF OrderInv
<1> QED
  <2>1. CASE runtime = None /\ UNCHANGED <<daemon, lock>>
    BY <1>6, <2>1
  <2>2. CASE runtime # None /\ KillSucceeds(c) /\ Terminated(runtime)
    <3>1. daemon[runtime].phase \in Published
      BY <1>3, <2>2 DEF KillSucceeds, In
    <3> QED
      BY <1>6, <1>7, <2>2, <3>1 DEF Terminated, In
  <2>3. CASE runtime # None /\ ~KillSucceeds(c) /\ UNCHANGED <<daemon, lock>>
    BY <1>4, <1>6, <2>3 DEF KillSucceeds, In
  <2> QED
    BY <2>1, <2>2, <2>3 DEF Stop

\* An update waits for the metadata of the daemon it has stopped.
LEMMA AwaitGoneOrder ==
    ASSUME DaemonAssumption, IInv, OrderInv, NEW c \in Clients, AwaitGone(c)
    PROVE  OrderInv'
<1>1. /\ Held /\ DataType /\ (orderly => Waits) /\ client[c].phase = "gone"
      /\ UNCHANGED <<lock, runtime, daemon, orderly>> /\ UNCHANGED fileVars
  BY DEF OrderInv, AwaitGone, At
<1>2. DEFINE r == [op |-> "start", phase |-> "check", running |-> FALSE]
<1>3. r \in [op : Op, phase : Stage, running : BOOLEAN] /\ r.phase = "check"
  BY DEF Op, Stage
<1>4. client' = [client EXCEPT ![c] = r]
  BY DEF AwaitGone
<1>5. Turns(c) /\ client'[c] = r
  BY <1>1, <1>3, <1>4, BecomesTurns
<1>6. ASSUME orderly PROVE Fits(client[c])'
  <2>1. Fits(client[c])
    BY <1>1, <1>6 DEF Waits
  <2>2. runtime = None \/ daemon[runtime].phase = "exited"
    BY <1>6 DEF AwaitGone, MetadataGone, In
  <2>3. \A d \in Daemons : daemon[d].phase \notin Published
    BY <1>1, <2>2 DEF Held, Published, DaemonAssumption
  <2> QED
    BY <1>1, <1>3, <1>5, <2>1, <2>3 DEF Fits
<1> QED
  BY <1>1, <1>3, <1>5, <1>6, TurnsOrder

\* A restore looks for metadata, and stops what it finds.
LEMMA LookOrder ==
    ASSUME DaemonAssumption, IInv, OrderInv, NEW c \in Clients, Look(c)
    PROVE  OrderInv'
<1>1. /\ TypeOK /\ Held /\ DataType /\ (orderly => Waits) /\ client[c].phase = "look"
      /\ UNCHANGED <<lock, runtime, daemon, orderly>> /\ UNCHANGED fileVars
  BY DEF IInv, OrderInv, Look, At
<1>2. DEFINE r == [client[c] EXCEPT !.running = (runtime # None),
                                   !.phase = IF runtime = None THEN "save" ELSE "stop"]
<1>3. /\ r \in [op : Op, phase : Stage, running : BOOLEAN]
      /\ r.phase = IF runtime = None THEN "save" ELSE "stop"
  <2>1. client[c] \in [op : Op, phase : Stage, running : BOOLEAN]
    BY <1>1 DEF DataType
  <2> QED
    BY <2>1 DEF Stage
<1>4. client' = [client EXCEPT ![c] = r]
  BY DEF Look
<1>5. Turns(c) /\ client'[c] = r
  <2> HIDE DEF r
  <2>1. r.phase # "idle"
    BY <1>3
  <2> QED
    BY <1>1, <1>3, <1>4, <2>1, BecomesTurns
<1>6. client'[c].phase = IF runtime = None THEN "save" ELSE "stop"
  BY <1>3, <1>5
<1>7. ASSUME orderly PROVE Fits(client[c])'
  <2>1. Fits(client[c])
    BY <1>1, <1>7 DEF Waits
  <2>2. \A d \in Daemons :
          /\ daemon[d].phase \notin Starting \cup Stopping
          /\ daemon[d].phase = "serving" => runtime = d
          /\ daemon[d].phase \in Phase
    BY <1>1, <2>1 DEF Fits, Held, Published, TypeOK
  <2>3. runtime = None => \A d \in Daemons : daemon[d].phase \in Absent
    BY <2>2, DaemonAssumption DEF DaemonAssumption, Absent, Phase
  <2> QED
    BY <1>1, <1>6, <2>2, <2>3 DEF Fits
<1> QED
  BY <1>1, <1>6, <1>5, <1>7, TurnsOrder

\* After the wait of a stop nobody is left but who has not heard of it.
LEMMA WaitOrder ==
    ASSUME DaemonAssumption, IInv, OrderInv, NEW c \in Clients, Wait(c)
    PROVE  OrderInv'
<1>1. /\ TypeOK /\ Held /\ DataType /\ (orderly => Waits) /\ client[c].phase = "wait"
      /\ UNCHANGED <<lock, runtime, daemon, orderly>> /\ UNCHANGED fileVars
  BY DEF IInv, OrderInv, Wait, At
<1>2. PICK p \in {"check", "save"} :
        /\ Continues(c, p)
        /\ p = "check" <=> client[c].op = "restart"
  BY DEF Wait
<1>3. Turns(c) /\ client'[c].phase = p /\ client'[c].op = client[c].op
  BY <1>1, <1>2, ContinuesTurns DEF Stage
<1>4. ASSUME orderly PROVE Fits(client[c])'
  <2>1. Fits(client[c])
    BY <1>1, <1>4 DEF Waits
  <2>2. \A d \in Daemons : daemon[d].phase \in Absent
    BY <1>1, <1>4, <2>1 DEF Wait, Settled, Fits, TypeOK, Phase, Absent
  <2>3. p = "save" => client[c].op = "restore"
    BY <1>1, <1>2, <2>1 DEF Fits
  <2>4. p = "save" => runtime = None
    BY <1>1, <2>1, <2>2, <2>3 DEF Fits, Published, Absent, TypeOK
  <2> QED
    BY <1>1, <1>3, <2>2, <2>4 DEF Fits, Absent, Starting, Published
<1> QED
  BY <1>1, <1>3, <1>4, TurnsOrder

\* A restore has the file to itself, and finds no log.
LEMMA RestoreOrder ==
    ASSUME DaemonAssumption, IInv, OrderInv, NEW c \in Clients,
           SavePrevious(c) \/ CopyBackup(c) \/ RemoveLog(c)
    PROVE  OrderInv'
<1>1. /\ Held /\ DataType /\ (orderly => OneAtATime /\ Waits /\ LogKept /\ BackedUp)
      /\ client[c].phase \in {"save", "copy", "unlog"}
      /\ UNCHANGED <<lock, runtime, daemon, orderly>>
  BY DEF OrderInv, SavePrevious, CopyBackup, RemoveLog, At
<1>2. PICK p \in {"copy", "unlog", "check", "idle"} :
        /\ Turns(c) /\ client'[c].phase = p
        /\ SavePrevious(c) => p = "copy"
        /\ CopyBackup(c) => p = "unlog"
        /\ RemoveLog(c) => p \in {"check", "idle"}
  <2>1. CASE Ends(c) /\ RemoveLog(c)
    <3>1. client[c].phase = "unlog"
      BY <2>1 DEF RemoveLog, At
    <3>2. ~SavePrevious(c) /\ ~CopyBackup(c)
      BY <3>1 DEF SavePrevious, CopyBackup, At
    <3> QED
      BY <1>1, <2>1, <3>2, EndsTurns
  <2>2. ASSUME NEW q \in {"copy", "unlog", "check"}, Continues(c, q)
        PROVE  Turns(c) /\ client'[c].phase = q
    BY <1>1, <2>2, ContinuesTurns DEF Stage
  <2>3. CASE SavePrevious(c)
    <3>1. Continues(c, "copy") /\ ~CopyBackup(c) /\ ~RemoveLog(c)
      BY <2>3 DEF SavePrevious, CopyBackup, RemoveLog, At
    <3> QED
      BY <2>2, <3>1
  <2>4. CASE CopyBackup(c)
    <3>1. Continues(c, "unlog") /\ ~SavePrevious(c) /\ ~RemoveLog(c)
      BY <2>4 DEF SavePrevious, CopyBackup, RemoveLog, At
    <3> QED
      BY <2>2, <3>1
  <2>5. CASE RemoveLog(c) /\ Continues(c, "check")
    <3>1. ~SavePrevious(c) /\ ~CopyBackup(c)
      BY <2>5 DEF SavePrevious, CopyBackup, RemoveLog, At
    <3> QED
      BY <2>2, <2>5, <3>1
  <2> QED
    BY <2>1, <2>3, <2>4, <2>5 DEF RemoveLog
<1>3. ASSUME orderly
      PROVE  /\ \A d \in Daemons : daemon[d].phase \in Absent
             /\ runtime = None /\ (db # None => ~(db.wal > 0))
             /\ Fits(client[c])'
  <2>1. Fits(client[c])
    BY <1>1, <1>3 DEF Waits
  <2>2. (\A d \in Daemons : daemon[d].phase \in Absent) /\ runtime = None
    BY <1>1, <2>1 DEF Fits
  <2>3. db # None => ~(db.wal > 0)
    BY <1>1, <1>3, <2>2 DEF LogKept, Absent
  <2>4. Fits(client[c])'
    BY <1>1, <1>2, <2>1, <2>2 DEF Fits, Absent, Starting, Published
  <2> QED
    BY <2>2, <2>3, <2>4
<1>4. db # None =>
        /\ db \in Database /\ db.version \in Nat /\ db.main \in Nat /\ db.wal \in Nat
        /\ Content \in Nat
  BY <1>1, DatabaseFacts
<1>5. /\ db' \in Database \cup {None} /\ backups' \subseteq Backup
      /\ db # None \/ p = "unlog" => db' # None
      /\ orderly => LogKept' /\ (db' # None /\ db'.version = 0 => Content' = 0)
      /\ orderly => \A b \in backups' : b.version = 0 => b.content = 0
  <2>1. CASE SavePrevious(c)
    <3>1. /\ db' = db /\ p = "copy"
          /\ backups' = IF db = None THEN backups
                        ELSE backups \cup {[version |-> db.version, content |-> db.main]}
      BY <1>2, <2>1 DEF SavePrevious
    <3>2. backups' \subseteq Backup
      BY <1>1, <1>4, <3>1 DEF DataType, Backup
    <3>3. ASSUME orderly PROVE LogKept' /\ (db' # None /\ db'.version = 0 => Content' = 0)
      BY <1>1, <1>3, <3>1, <3>3 DEF LogKept, BackedUp, Content
    <3>4. ASSUME orderly PROVE \A b \in backups' : b.version = 0 => b.content = 0
      <4>1. db # None /\ db.version = 0 => db.main = 0
        BY <1>1, <1>4, <3>4 DEF BackedUp, Content
      <4> QED
        BY <1>1, <3>1, <3>4, <4>1 DEF BackedUp
    <3> QED
      BY <1>1, <3>1, <3>2, <3>3, <3>4 DEF DataType
  <2>2. CASE CopyBackup(c)
    <3>1. PICK b \in backups :
            db' = [version |-> b.version, main |-> b.content, wal |-> IF db = None THEN 0 ELSE db.wal]
      BY <2>2 DEF CopyBackup
    <3>2. backups' = backups /\ b.version \in Nat /\ b.content \in Nat /\ b \in backups
      BY <1>1, <2>2 DEF CopyBackup, DataType, Backup
    <3>3. db' \in Database /\ db'.version = b.version /\ db'.main = b.content
      BY <1>4, <3>1, <3>2 DEF Database
    <3>4. db' # None
      BY <3>3, DaemonAssumption DEF DaemonAssumption, Database
    <3>5. ASSUME orderly PROVE db'.wal = 0
      BY <1>3, <1>4, <3>1, <3>5
    <3>6. ASSUME orderly PROVE LogKept' /\ (db' # None /\ db'.version = 0 => Content' = 0)
      <4>1. b.version = 0 => b.content = 0
        BY <1>1, <3>2, <3>6 DEF BackedUp
      <4> QED
        BY <3>3, <3>5, <3>6, <4>1 DEF LogKept, Content
    <3>7. ASSUME orderly PROVE \A k \in backups' : k.version = 0 => k.content = 0
      BY <1>1, <3>2, <3>7 DEF BackedUp
    <3> QED
      BY <1>1, <3>2, <3>3, <3>4, <3>6, <3>7 DEF DataType
  <2>3. CASE RemoveLog(c)
    <3>1. /\ db # None /\ db' = [db EXCEPT !.wal = 0] /\ backups' = backups
      BY <1>1, <2>3 DEF RemoveLog, At, DataType
    <3>2. db' \in Database /\ db'.wal = 0 /\ db'.main = db.main /\ db'.version = db.version
      <4>1. db \in Database /\ 0 \in Nat
        BY <1>4, <3>1
      <4> QED
        BY <3>1, <4>1, DatabaseEdit
    <3>3. db' # None
      BY <3>2, DaemonAssumption DEF DaemonAssumption, Database
    <3>4. ASSUME orderly PROVE LogKept' /\ (db' # None /\ db'.version = 0 => Content' = 0)
      <4>1. db.version = 0 => db.main = 0
        BY <1>1, <1>4, <3>1, <3>4 DEF BackedUp, Content
      <4> QED
        BY <3>2, <4>1 DEF LogKept, Content
    <3>5. ASSUME orderly PROVE \A k \in backups' : k.version = 0 => k.content = 0
      BY <1>1, <3>1, <3>5 DEF BackedUp
    <3> QED
      BY <1>1, <3>1, <3>2, <3>3, <3>4, <3>5 DEF DataType
  <2> QED
    BY <2>1, <2>2, <2>3
<1>6. DataType'
  <2>1. \A d \in Daemons : daemon'[d].phase \in Opens => db' # None
    BY <1>1, <1>5 DEF DataType
  <2>2. \A e \in Clients : client'[e].phase = "unlog" => db' # None
    BY <1>1, <1>2, <1>5 DEF DataType, Turns
  <2> QED
    BY <1>1, <1>2, <1>5, <2>1, <2>2 DEF DataType, Turns
<1>7. Held'
  BY <1>1 DEF Held
<1>8. ASSUME orderly PROVE OneAtATime' /\ Waits' /\ LogKept' /\ BackedUp'
  <2>1. OneAtATime'
    BY <1>1, <1>8 DEF OneAtATime
  <2>2. Waits'
    BY <1>1, <1>2, <1>3, <1>8, TurnsWaits
  <2>3. \A d \in Daemons : daemon'[d].phase \in Absent
    BY <1>1, <1>3, <1>8
  <2>4. BackedUp'
    BY <1>5, <1>8, <2>3 DEF BackedUp, Absent
  <2> QED
    BY <1>5, <1>8, <2>1, <2>2, <2>4
<1> QED
  BY <1>1, <1>6, <1>7, <1>8 DEF OrderInv

\* A copy of the file and the log, made beside whatever runs.
LEMMA BackUpNowOrder ==
    ASSUME DaemonAssumption, IInv, OrderInv, NEW c \in Clients, BackUpNow(c)
    PROVE  OrderInv'
<1>1. /\ Held /\ DataType /\ (orderly => OneAtATime /\ Waits /\ LogKept /\ BackedUp)
      /\ UNCHANGED <<lock, runtime, daemon, client, orderly, db>>
      /\ db # None /\ backups' = WithBackup
  BY DEF OrderInv, BackUpNow
<1>2. db.version \in Nat /\ Content \in Nat
  BY <1>1, DatabaseFacts
<1>3. backups' \subseteq Backup
  BY <1>1, <1>2 DEF DataType, WithBackup, Backup
<1>4. DataType' /\ Held'
  BY <1>1, <1>3 DEF DataType, Held
<1>5. ASSUME orderly PROVE OneAtATime' /\ Waits' /\ LogKept' /\ BackedUp'
  <2>1. OneAtATime' /\ Waits' /\ LogKept'
    BY <1>1, <1>5 DEF OneAtATime, Waits, Fits, LogKept
  <2>2. \A b \in backups' : b.version = 0 => b.content = 0
    BY <1>1, <1>5 DEF BackedUp, WithBackup
  <2>3. backups \subseteq backups'
    BY <1>1 DEF WithBackup
  <2>4. BackedUp'
    BY <1>1, <1>5, <2>2, <2>3 DEF BackedUp, Content
  <2> QED
    BY <2>1, <2>4
<1> QED
  BY <1>1, <1>4, <1>5 DEF OrderInv

\* Every step of a command keeps the order.
LEMMA ActOrder ==
    ASSUME DaemonAssumption, IInv, OrderInv, NEW c \in Clients, Act(c)
    PROVE  OrderInv'
<1>1. DataType
  BY DEF OrderInv
<1>2. CASE CheckHealth(c)
  BY <1>2, CheckHealthOrder
<1>3. CASE Poll(c)
  <2>1. client[c].phase = "poll" /\ UNCHANGED <<lock, runtime, daemon, orderly>> /\ UNCHANGED fileVars
    BY <1>3 DEF Poll, At
  <2>2. CASE Healthy /\ Found(c)
    BY <2>1, <2>2, FoundOrder
  <2>3. CASE Ends(c)
    <3>1. Turns(c) /\ client'[c].phase = "idle"
      BY <1>1, <2>1, <2>3, EndsTurns
    <3> QED
      BY <2>1, <3>1, IdleFits, TurnsOrder
  <2> QED
    BY <1>3, <2>2, <2>3 DEF Poll
<1>4. CASE Stop(c)
  BY <1>4, StopOrder
<1>5. CASE CheckActive(c)
  <2>1. client[c].phase = "active" /\ UNCHANGED <<lock, runtime, daemon, orderly>> /\ UNCHANGED fileVars
    BY <1>5 DEF CheckActive, At
  <2>2. CASE Ends(c)
    <3>1. Turns(c) /\ client'[c].phase = "idle"
      BY <1>1, <2>1, <2>2, EndsTurns
    <3> QED
      BY <2>1, <3>1, IdleFits, TurnsOrder
  <2>3. CASE Continues(c, "stop")
    <3>1. Turns(c) /\ client'[c].phase = "stop"
      BY <1>1, <2>1, <2>3, ContinuesTurns DEF Stage
    <3>2. orderly => Fits(client[c])'
      BY <2>1, <3>1 DEF OrderInv, Waits, Fits
    <3> QED
      BY <2>1, <3>1, <3>2, TurnsOrder
  <2> QED
    BY <1>5, <2>2, <2>3 DEF CheckActive
<1>6. CASE AwaitGone(c)
  BY <1>6, AwaitGoneOrder
<1>7. CASE Look(c)
  BY <1>7, LookOrder
<1>8. CASE Wait(c)
  BY <1>8, WaitOrder
<1>9. CASE SavePrevious(c) \/ CopyBackup(c) \/ RemoveLog(c)
  BY <1>9, RestoreOrder
<1> QED
  BY <1>2, <1>3, <1>4, <1>5, <1>6, <1>7, <1>8, <1>9 DEF Act

\* After a reboot nothing runs.
LEMMA RebootOrder ==
    ASSUME DaemonAssumption, IInv, OrderInv, Reboot
    PROVE  OrderInv'
<1>1. /\ DataType /\ TypeOK /\ ~orderly /\ ~orderly'
      /\ UNCHANGED fileVars /\ runtime' = None /\ lock' = None
      /\ client' = [c \in Clients |-> NoCommand]
  BY DEF IInv, OrderInv, Reboot
<1>2. \A d \in Daemons : daemon'[d].phase \in Absent
  <2>1. TAKE d \in Daemons
  <2>2. daemon'[d] = IF In(d, "off") THEN daemon[d] ELSE [daemon[d] EXCEPT !.phase = "exited"]
    BY DEF Reboot
  <2>3. daemon[d] \in Process
    BY <1>1 DEF TypeOK, Process
  <2> QED
    BY <2>2, <2>3 DEF In, Absent, Process
<1>3. \A d \in Daemons : daemon'[d].phase \notin Opens \cup Published
  BY <1>2 DEF Absent, Opens, Published, Stopping
<1>4. NoCommand \in [op : Op, phase : Stage, running : BOOLEAN] /\ NoCommand.phase = "idle"
  BY DEF NoCommand, Op, Stage
<1>5. client' \in [Clients -> [op : Op, phase : Stage, running : BOOLEAN]]
      /\ \A c \in Clients : client'[c] = NoCommand
  BY <1>1, <1>4
<1>6. DataType'
  <2>1. db' \in Database \cup {None} /\ backups' \subseteq Backup
    BY <1>1 DEF DataType, fileVars
  <2>2. orderly' \in BOOLEAN
    BY <1>1 DEF DataType, Reboot
  <2>3. \A d \in Daemons : daemon'[d].phase \in Opens => db' # None
    BY <1>3
  <2>4. \A c \in Clients :
          /\ client'[c].phase = "idle" => client'[c] = NoCommand
          /\ client'[c].phase = "unlog" => db' # None
    BY <1>4, <1>5
  <2> QED
    BY <1>5, <2>1, <2>2, <2>3, <2>4 DEF DataType
<1>7. Held'
  BY <1>1, <1>3 DEF Held
<1> QED
  BY <1>1, <1>6, <1>7 DEF OrderInv

\* The one daemon that may be there at the beginning starts alone.
LEMMA InitOrder == ASSUME DaemonAssumption, LegacyAssumption, Init PROVE OrderInv
<1>1. NoCommand \in [op : Op, phase : Stage, running : BOOLEAN] /\ NoCommand.phase = "idle"
  BY DEF NoCommand, Op, Stage
<1>2. /\ \A d \in Daemons : daemon[d].phase = IF d \in Legacy THEN "lock" ELSE "off"
      /\ lock = None /\ runtime = None /\ db = None /\ backups = {} /\ orderly \in BOOLEAN
      /\ client \in [Clients -> [op : Op, phase : Stage, running : BOOLEAN]]
      /\ \A c \in Clients : client[c] = NoCommand
  BY <1>1 DEF Init
<1>3. DataType
  BY <1>1, <1>2 DEF DataType, Opens, Stopping
<1>4. Held
  BY <1>2 DEF Held, Published
<1>5. OneAtATime
  <2>1. ASSUME NEW d \in Daemons, NEW e \in Daemons, d # e, daemon[d].phase = "lock"
        PROVE  daemon[e].phase = "off"
    BY <1>2, <2>1 DEF LegacyAssumption
  <2> QED
    BY <1>2, <2>1 DEF OneAtATime, Starting, Published, Absent
<1>6. Waits
  BY <1>1, <1>2 DEF Waits, Fits
<1>7. LogKept /\ BackedUp
  BY <1>2 DEF LogKept, BackedUp
<1> QED
  BY <1>3, <1>4, <1>5, <1>6, <1>7 DEF OrderInv

LEMMA NextOrder == ASSUME DaemonAssumption, IInv, OrderInv, [Next]_vars PROVE OrderInv'
<1>1. ASSUME NEW d \in Daemons, Run(d) PROVE OrderInv'
  BY <1>1, RunOrder
<1>2. ASSUME NEW d \in Daemons, Crash(d) PROVE OrderInv'
  <2>1. daemon[d].phase \in Phase
    BY DEF IInv, TypeOK
  <2> QED
    BY <1>2, <2>1, GoneOrder DEF Crash, Absent, Phase, fileVars
<1>3. ASSUME NEW d \in Daemons, Serve(d) PROVE OrderInv'
  BY <1>3, ServeOrder
<1>4. ASSUME NEW c \in Clients, Command(c) PROVE OrderInv'
  BY <1>4, CommandOrder
<1>5. ASSUME NEW c \in Clients, BackUpNow(c) PROVE OrderInv'
  BY <1>5, BackUpNowOrder
<1>6. ASSUME NEW c \in Clients, Act(c) PROVE OrderInv'
  BY <1>6, ActOrder
<1>7. CASE Reboot
  BY <1>7, RebootOrder
<1>8. CASE UNCHANGED vars
  BY <1>8 DEF vars, fileVars, OrderInv, DataType, Held, OneAtATime, Waits, Fits, LogKept,
              BackedUp, Content
<1> QED
  BY <1>1, <1>2, <1>3, <1>4, <1>5, <1>6, <1>7, <1>8 DEF Next

LEMMA OrderInvariance == Spec => []OrderInv
<1>1. Init => OrderInv
  BY InitOrder, DaemonAssumption, LegacyAssumption
<1>2. IInv /\ OrderInv /\ [Next]_vars => OrderInv'
  BY NextOrder, DaemonAssumption
<1> QED
  BY <1>1, <1>2, Invariance, PTL DEF Spec

\* A migration that has something to lose has a backup of it.
LEMMA MigrateKeeps ==
    ASSUME OrderInv, orderly, NEW d \in Daemons, In(d, "migrate"), Content > 0
    PROVE  \E b \in backups : b.content = Content /\ b.version \in 1..db.version
<1>1. DataType /\ BackedUp
  BY DEF OrderInv
<1>2. db # None
  BY <1>1 DEF DataType, Opens, In
<1>3. Content \in Nat
  BY <1>1, <1>2, DatabaseFacts
<1> QED
  BY <1>1, <1>3 DEF BackedUp, In

\* A restore touches a file that nobody has open and that has no log.
LEMMA RestoreKeeps ==
    ASSUME OrderInv, orderly, NEW c \in Clients, client[c].phase \in {"save", "copy", "unlog"}
    PROVE  /\ \A d \in Daemons : daemon[d].phase \notin Opens
           /\ db # None => db.wal = 0
<1>1. DataType /\ Fits(client[c]) /\ LogKept
  BY DEF OrderInv, Waits
<1>2. runtime = None /\ \A d \in Daemons : daemon[d].phase \in Absent
  BY <1>1 DEF Fits
<1>3. ASSUME db # None PROVE db.wal = 0
  <2>1. db.wal \in Nat
    BY <1>1, <1>3, DatabaseFacts
  <2> QED
    BY <1>1, <1>2, <1>3, <2>1 DEF LogKept, Absent
<1> QED
  BY <1>2, <1>3 DEF Absent, Opens, Stopping

\* What is committed outlives migrations and restores (migration.rs:55-87,
\* main.rs:829-848).
THEOREM DataIsKept == Spec => DataKept
<1>1. OrderInv /\ [Next]_vars =>
        [orderly =>
          /\ \A d \in Daemons : In(d, "migrate") /\ Migrate(d) /\ Content > 0
               => \E b \in backups : b.content = Content /\ b.version \in 1..db.version
          /\ \A c \in Clients : SavePrevious(c) \/ CopyBackup(c) \/ RemoveLog(c)
               => /\ \A d \in Daemons : daemon[d].phase \notin Opens
                  /\ At(c, "save") /\ db # None => db.wal = 0]_vars
  <2>1. ASSUME OrderInv, orderly, NEW c \in Clients, SavePrevious(c) \/ CopyBackup(c) \/ RemoveLog(c)
        PROVE  client[c].phase \in {"save", "copy", "unlog"}
    BY <2>1 DEF SavePrevious, CopyBackup, RemoveLog, At
  <2> QED
    BY <2>1, MigrateKeeps, RestoreKeeps
<1> QED
  BY <1>1, OrderInvariance, PTL DEF Spec, DataKept

\* A daemon that starts in order finds the lock free (src-tauri/src/lib.rs:459-473).
THEOREM StartsAreUnopposed == Spec => StartsUnopposed
<1>1. TypeOK /\ OrderInv /\ [Next]_vars =>
        [\A d \in Daemons : orderly /\ AcquireLock(d) => lock = None]_vars
  <2>1. ASSUME TypeOK, OrderInv, NEW d \in Daemons, orderly, AcquireLock(d), lock # None PROVE FALSE
    <3>1. /\ lock \in Daemons /\ daemon[lock].phase \in HoldsLock /\ OneAtATime
          /\ daemon[d].phase = "lock"
          /\ \A e \in Daemons : daemon[e].phase \notin {"leaving", "lingers"}
      BY <2>1 DEF OrderInv, Held, TypeOK, AcquireLock, In, Leaving
    <3>2. lock # d
      BY <3>1 DEF HoldsLock, Starting, Stopping
    <3> QED
      BY <3>1, <3>2 DEF OneAtATime, HoldsLock, Starting, Stopping, Published
  <2> QED
    BY <2>1
<1>2. IInv => TypeOK
  BY DEF IInv
<1> QED
  BY <1>1, <1>2, Invariance, OrderInvariance, PTL DEF Spec, StartsUnopposed
=============================================================================
