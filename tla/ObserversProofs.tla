---------------------------- MODULE ObserversProofs ----------------------------
(***************************************************************************)
(* Proofs about the observers: whether the manifest of a project follows   *)
(* its files, whether their lifecycle is recorded in order, and whose      *)
(* processes are recorded; for every set of files, contents, pids and      *)
(* sessions, and for any bounds.                                           *)
(***************************************************************************)
EXTENDS ProjectObserver, ProcessObserver, FiniteSetTheorems, NaturalsInduction,
        WellFoundedInduction, TLAPS

-----------------------------------------------------------------------------
(* ProjectObserver: the inductive invariant *)

Content == Contents \cup {Absent}
Manifests == [Paths -> Content]
Kinds == {"created", "modified", "deleted", "rename_from", "rename_to", "rename", "error"}
Notification == [path : Paths \cup {Folder}, kind : Kinds]

FilesTypes ==
    /\ disk \in Manifests /\ manifest \in Manifests /\ prepared \in SUBSET Manifests
    /\ scan \in [before : Manifests, now : Manifests]
    /\ watching \in BOOLEAN /\ stale \in BOOLEAN
    /\ notices \in Seq(Notification) /\ batch \in Seq(Notification) /\ owed \in Seq(Notification)
    /\ todo \in SUBSET DOMAIN batch
    /\ task \in {"idle", "emit", "gap", "compare"}
    /\ astray \in {"never", "once", "now"}
    /\ last \in [Paths -> [kind : Kinds \cup {"none"}, after : Content \cup {Unread}]]

IsRemovalOf(n, p) == n.path = p /\ IsRemoval(n)
IsPutOf(n, p) == n.path = p /\ n.kind \in {"created", "rename_to", "rename"}
IsWriteOf(n, p) == n.path = p /\ n.kind = "modified"

\* What the notifications at positions S of q tell of p: it was removed, written, named, put
\* there after its last removal.
Removed(q, S, p) == \E i \in S : IsRemovalOf(q[i], p)
Written(q, S, p) == \E i \in S : IsWriteOf(q[i], p)
Named(q, S, p) == \E i \in S : q[i].path = p
PutLast(q, S, p) == \E i \in S : IsPutOf(q[i], p) /\ \A j \in S : IsRemovalOf(q[j], p) => j < i
Lost(q) == \E i \in DOMAIN q : q[i].kind = "error"

\* The same of what is drained, T of b, and then q.
Removes(q, b, T, p) == Removed(b, T, p) \/ Removed(q, DOMAIN q, p)
Writes(q, b, T, p) == Written(b, T, p) \/ Written(q, DOMAIN q, p)
Names(q, b, T, p) == Named(b, T, p) \/ Named(q, DOMAIN q, p)
Puts(q, b, T, p) ==
    PutLast(q, DOMAIN q, p) \/ (~Removed(q, DOMAIN q, p) /\ PutLast(b, T, p))

\* Recording it makes an entry x of p in the manifest what the file holds, d.
Settles(q, b, T, x, d, p) ==
    /\ d = Absent => x = Absent \/ Removes(q, b, T, p)
    /\ d # Absent => Puts(q, b, T, p) \/ (~Removes(q, b, T, p) /\ (x = d \/ Writes(q, b, T, p)))

\* A file that is there was put there after its last removal.
Retells(q, d, p) == d # Absent /\ Removed(q, DOMAIN q, p) => PutLast(q, DOMAIN q, p)

\* A scan under way is the manifest to come.
Base == IF task = "compare" THEN scan.now ELSE manifest

Begun ==
    /\ ~watching => notices = <<>> /\ task = "idle" /\ \A p \in Paths : last[p].kind = "none"
    /\ task = "idle" => todo = {}
    /\ astray = "never" => ~Lost(notices) /\ task \notin {"gap", "compare"}

Retold == ~Lost(notices) => \A p \in Paths : Retells(notices, disk[p], p)

Settled ==
    watching /\ astray # "now" /\ ~stale /\ ~Lost(notices) /\ task # "gap" =>
        \A p \in Observed : Settles(notices, batch, todo, Base[p], disk[p], p)

Told ==
    watching /\ astray = "never" =>
        \A p \in Observed :
            Names(notices, batch, todo, p) \/ last[p].kind = "none" \/ last[p].after = disk[p]

FilesInv == FilesTypes /\ Begun /\ Retold /\ Settled /\ Told
-----------------------------------------------------------------------------
(* One more notification *)

\* A sequence with one more notification.
LEMMA Appended ==
    ASSUME NEW q \in Seq(Notification), NEW n \in Notification
    PROVE  /\ Append(q, n) \in Seq(Notification) /\ Len(q) \in Nat
           /\ DOMAIN q = 1..Len(q) /\ DOMAIN Append(q, n) = DOMAIN q \cup {Len(q) + 1}
           /\ Len(Append(q, n)) = Len(q) + 1
           /\ Append(q, n)[Len(q) + 1] = n /\ \A i \in DOMAIN q : Append(q, n)[i] = q[i]
           /\ \A i \in DOMAIN q : i \in Nat /\ i < Len(q) + 1
  OBVIOUS

\* What one more notification tells.
LEMMA TellsMore ==
    ASSUME NEW q \in Seq(Notification), NEW n \in Notification, NEW p
    PROVE  /\ Removed(Append(q, n), DOMAIN Append(q, n), p) <=>
                Removed(q, DOMAIN q, p) \/ IsRemovalOf(n, p)
           /\ Written(Append(q, n), DOMAIN Append(q, n), p) <=>
                Written(q, DOMAIN q, p) \/ IsWriteOf(n, p)
           /\ Named(Append(q, n), DOMAIN Append(q, n), p) <=>
                Named(q, DOMAIN q, p) \/ n.path = p
           /\ Lost(Append(q, n)) <=> Lost(q) \/ n.kind = "error"
           /\ IsPutOf(n, p) => PutLast(Append(q, n), DOMAIN Append(q, n), p)
           /\ PutLast(q, DOMAIN q, p) /\ ~IsRemovalOf(n, p) =>
                PutLast(Append(q, n), DOMAIN Append(q, n), p)
<1> DEFINE r == Append(q, n)
<1>1. /\ DOMAIN r = DOMAIN q \cup {Len(q) + 1} /\ r[Len(q) + 1] = n
      /\ \A i \in DOMAIN q : r[i] = q[i] /\ i < Len(q) + 1
  BY Appended
<1> HIDE DEF r
<1>2. Removed(r, DOMAIN r, p) <=> Removed(q, DOMAIN q, p) \/ IsRemovalOf(n, p)
  BY <1>1 DEF Removed
<1>3. Written(r, DOMAIN r, p) <=> Written(q, DOMAIN q, p) \/ IsWriteOf(n, p)
  BY <1>1 DEF Written
<1>4. Named(r, DOMAIN r, p) <=> Named(q, DOMAIN q, p) \/ n.path = p
  BY <1>1 DEF Named
<1>5. Lost(r) <=> Lost(q) \/ n.kind = "error"
  BY <1>1 DEF Lost
<1>6. IsPutOf(n, p) => ~IsRemovalOf(n, p)
  BY DEF IsPutOf, IsRemovalOf, IsRemoval
<1>7. IsPutOf(n, p) => PutLast(r, DOMAIN r, p)
  BY <1>1, <1>6 DEF PutLast
<1>8. PutLast(q, DOMAIN q, p) /\ ~IsRemovalOf(n, p) => PutLast(r, DOMAIN r, p)
  BY <1>1 DEF PutLast
<1> QED BY <1>2, <1>3, <1>4, <1>5, <1>7, <1>8 DEF r

\* A notification that p is removed, or put there, settles it; one that it is written does
\* where it was there before; any but a removal leaves settled what was.
LEMMA OneMoreSettles ==
    ASSUME NEW q \in Seq(Notification), NEW n \in Notification,
           NEW b, NEW T, NEW x, NEW d, NEW p
    PROVE  /\ IsRemovalOf(n, p) /\ d = Absent => Settles(Append(q, n), b, T, x, d, p)
           /\ IsPutOf(n, p) /\ d # Absent => Settles(Append(q, n), b, T, x, d, p)
           /\ IsWriteOf(n, p) /\ d # Absent =>
                \A c : c # Absent /\ Settles(q, b, T, x, c, p) =>
                         Settles(Append(q, n), b, T, x, d, p)
           /\ ~IsRemovalOf(n, p) /\ Settles(q, b, T, x, d, p) =>
                Settles(Append(q, n), b, T, x, d, p)
           /\ IsPutOf(n, p) \/ d = Absent => Retells(Append(q, n), d, p)
           /\ ~IsRemovalOf(n, p) =>
                \A c : c # Absent /\ Retells(q, c, p) => Retells(Append(q, n), d, p)
<1> DEFINE r == Append(q, n)
<1>1. /\ Removed(r, DOMAIN r, p) <=> Removed(q, DOMAIN q, p) \/ IsRemovalOf(n, p)
      /\ Written(r, DOMAIN r, p) <=> Written(q, DOMAIN q, p) \/ IsWriteOf(n, p)
      /\ IsPutOf(n, p) => PutLast(r, DOMAIN r, p)
      /\ PutLast(q, DOMAIN q, p) /\ ~IsRemovalOf(n, p) => PutLast(r, DOMAIN r, p)
  BY TellsMore
<1>2. IsWriteOf(n, p) => ~IsRemovalOf(n, p)
  BY DEF IsWriteOf, IsRemovalOf, IsRemoval
<1> HIDE DEF r
<1>3. /\ IsRemovalOf(n, p) /\ d = Absent => Settles(r, b, T, x, d, p)
      /\ IsPutOf(n, p) /\ d # Absent => Settles(r, b, T, x, d, p)
  BY <1>1 DEF Settles, Removes, Puts
<1>4. ~IsRemovalOf(n, p) /\ Settles(q, b, T, x, d, p) => Settles(r, b, T, x, d, p)
  BY <1>1 DEF Settles, Removes, Puts, Writes
<1>5. IsWriteOf(n, p) /\ d # Absent =>
        \A c : c # Absent /\ Settles(q, b, T, x, c, p) => Settles(r, b, T, x, d, p)
  BY <1>1, <1>2 DEF Settles, Removes, Puts, Writes
<1>6. IsPutOf(n, p) \/ d = Absent => Retells(r, d, p)
  BY <1>1 DEF Retells
<1>7. ~IsRemovalOf(n, p) =>
        \A c : c # Absent /\ Retells(q, c, p) => Retells(r, d, p)
  BY <1>1 DEF Retells
<1> QED BY <1>3, <1>4, <1>5, <1>6, <1>7 DEF r

\* What is owed is a sequence of notifications.
LEMMA Owes ==
    ASSUME NEW o \in Seq(Notification), NEW n \in Notification
    PROVE  Owe(o, n) \in Seq(Notification)
  BY DEF Owe

\* One notification, or two.
LEMMA Tells ==
    ASSUME FilesTypes, NEW n \in Notification
    PROVE  /\ notices \o <<n>> = Append(notices, n)
           /\ Owing(<<n>>) = Owe(owed, n) /\ Owing(<<n>>) \in Seq(Notification)
           /\ \A m \in Notification :
                /\ notices \o <<m, n>> = Append(Append(notices, m), n)
                /\ Owing(<<m, n>>) = Owe(Owe(owed, m), n)
                /\ Owing(<<m, n>>) \in Seq(Notification)
<1>1. notices \in Seq(Notification) /\ owed \in Seq(Notification)
  BY DEF FilesTypes
<1>2. notices \o <<n>> = Append(notices, n)
  BY <1>1
<1>3. Owing(<<n>>) = Owe(owed, n)
  BY DEF Owing
<1>4. Owe(owed, n) \in Seq(Notification)
  BY <1>1, Owes
<1>5. ASSUME NEW m \in Notification
      PROVE  /\ notices \o <<m, n>> = Append(Append(notices, m), n)
             /\ Owing(<<m, n>>) = Owe(Owe(owed, m), n)
             /\ Owing(<<m, n>>) \in Seq(Notification)
  <2>1. notices \o <<m, n>> = Append(Append(notices, m), n)
    BY <1>1
  <2>2. Owing(<<m, n>>) = Owe(Owe(owed, m), n)
    BY DEF Owing
  <2>3. Owe(Owe(owed, m), n) \in Seq(Notification)
    BY <1>1, Owes
  <2> QED BY <2>1, <2>2, <2>3
<1> QED BY <1>2, <1>3, <1>4, <1>5
-----------------------------------------------------------------------------
(* Files change *)

\* A change that is not lost leaves the rest as it is.
LEMMA ToldKeeps ==
    ASSUME FilesInv, NEW after \in Manifests, Change(after), watching,
           notices' \in Seq(Notification), owed' \in Seq(Notification),
           astray' \in {astray, "now"}, Lost(notices') <=> Lost(notices),
           \A p \in Paths : Retells(notices, disk[p], p) => Retells(notices', after[p], p),
           astray' = "now" \/
               \A p \in Observed :
                   /\ Settles(notices, batch, todo, Base[p], disk[p], p) =>
                        Settles(notices', batch, todo, Base[p], after[p], p)
                   /\ Names(notices, batch, todo, p) => Names(notices', batch, todo, p)
                   /\ after[p] = disk[p] \/ Names(notices', batch, todo, p)
    PROVE  FilesInv'
<1>1. /\ disk' = after
      /\ UNCHANGED <<watching, batch, todo, task, scan, manifest, prepared, last, stale>>
  BY DEF Change
<1>2. Base' = Base
  BY <1>1 DEF Base
<1>3. FilesTypes'
  BY <1>1 DEF FilesInv, FilesTypes
<1>4. Begun'
  BY <1>1 DEF FilesInv, Begun
<1>5. Retold'
  BY <1>1 DEF FilesInv, Retold
<1>6. Settled'
  BY <1>1, <1>2 DEF FilesInv, Settled
<1>7. Told'
  BY <1>1 DEF FilesInv, Told
<1> QED BY <1>3, <1>4, <1>5, <1>6, <1>7 DEF FilesInv

\* Nor does it matter where it goes unnoticed or is reported lost.
LEMMA NotifyKeeps ==
    ASSUME FilesInv, NEW after \in Manifests, Change(after), NEW told, Notify(told),
           notices \o told \in Seq(Notification), Owing(told) \in Seq(Notification),
           Lost(notices \o told) <=> Lost(notices),
           \A p \in Paths :
               /\ Retells(notices, disk[p], p) => Retells(notices \o told, after[p], p)
               /\ Settles(notices, batch, todo, Base[p], disk[p], p) =>
                    Settles(notices \o told, batch, todo, Base[p], after[p], p)
               /\ Names(notices, batch, todo, p) => Names(notices \o told, batch, todo, p)
               /\ after[p] = disk[p] \/ Names(notices \o told, batch, todo, p)
    PROVE  FilesInv'
<1>1. /\ disk' = after
      /\ UNCHANGED <<watching, batch, todo, task, scan, manifest, prepared, last, stale>>
  BY DEF Change
<1>2. Observed \subseteq Paths /\ Folder \notin Paths
  BY ObserverAssumption DEF Observed
<1>3. CASE ~watching
  <2>1. UNCHANGED <<notices, owed, astray>>
    BY <1>3 DEF Notify
  <2>2. notices = <<>>
    BY <1>3 DEF FilesInv, Begun
  <2>3. FilesTypes'
    BY <1>1, <2>1 DEF FilesInv, FilesTypes
  <2>4. Begun'
    BY <1>1, <2>1 DEF FilesInv, Begun
  <2>5. Retold'
    BY <2>1, <2>2 DEF Retold, Retells, Removed
  <2>6. Settled' /\ Told'
    BY <1>1, <1>3 DEF Settled, Told
  <2> QED BY <2>3, <2>4, <2>5, <2>6 DEF FilesInv
<1>4. CASE watching /\ notices' = notices \o told /\ owed' = Owing(told) /\ UNCHANGED astray
  BY <1>2, <1>4, ToldKeeps
<1>5. CASE /\ watching /\ notices' = Append(notices, Notice(Folder, "error"))
           /\ astray' = IF astray = "never" THEN "once" ELSE astray
           /\ UNCHANGED owed
  <2>1. Notice(Folder, "error") \in Notification /\ Notice(Folder, "error").kind = "error"
    BY DEF Notice, Notification, Kinds
  <2>2. notices \in Seq(Notification)
    BY DEF FilesInv, FilesTypes
  <2>3. Lost(notices') /\ notices' \in Seq(Notification)
    BY <1>5, <2>1, <2>2, TellsMore, Appended
  <2>4. FilesTypes'
    BY <1>1, <1>5, <2>3 DEF FilesInv, FilesTypes
  <2>5. astray' # "never"
    BY <1>5
  <2>6. Begun'
    BY <1>1, <1>5, <2>5 DEF FilesInv, Begun
  <2>7. Retold' /\ Settled'
    BY <2>3 DEF Retold, Settled
  <2>8. Told'
    BY <2>5 DEF Told
  <2> QED BY <2>4, <2>6, <2>7, <2>8 DEF FilesInv
<1> QED BY <1>3, <1>4, <1>5 DEF Notify

\* A file that is written was there before, or is created first.
LEMMA WriteKeeps ==
    ASSUME FilesInv, NEW p \in Paths, NEW c \in Contents, Write(p, c)
    PROVE  FilesInv'
<1> DEFINE after == [disk EXCEPT ![p] = c]
           created == Notice(p, "created")
           modified == Notice(p, "modified")
<1>1. /\ Change(after)
      /\ Notify(IF disk[p] = Absent THEN <<created, modified>> ELSE <<modified>>)
  BY DEF Write
<1>2. /\ notices \in Seq(Notification) /\ disk \in Manifests /\ FilesTypes
      /\ c # Absent
  BY ObserverAssumption DEF FilesInv, FilesTypes
<1>3. after \in Manifests /\ after[p] = c /\ \A q \in Paths : q # p => after[q] = disk[q]
  BY <1>2 DEF Manifests, Content
<1>4. /\ created \in Notification /\ modified \in Notification
      /\ created.kind # "error" /\ modified.kind # "error"
      /\ created.path = p /\ modified.path = p
      /\ IsPutOf(created, p) /\ IsWriteOf(modified, p)
      /\ \A q : ~IsRemovalOf(created, q) /\ ~IsRemovalOf(modified, q)
  BY DEF Notice, Notification, Kinds, IsPutOf, IsWriteOf, IsRemovalOf, IsRemoval
<1> HIDE DEF after, created, modified
<1>5. CASE disk[p] = Absent
  <2>1. PICK r \in Seq(Notification) : r = Append(notices, created)
    BY <1>2, <1>4, Appended
  <2>2. /\ notices \o <<created, modified>> = Append(r, modified)
        /\ Owing(<<created, modified>>) \in Seq(Notification)
    BY <1>2, <1>4, <2>1, Tells
  <2>3. Append(r, modified) \in Seq(Notification)
    BY <1>4, Appended
  <2>4. Lost(Append(r, modified)) <=> Lost(notices)
    BY <1>2, <1>4, <2>1, TellsMore
  <2>5. \A q : /\ Names(notices, batch, todo, q) => Names(Append(r, modified), batch, todo, q)
               /\ Names(Append(r, modified), batch, todo, p)
    BY <1>2, <1>4, <2>1, TellsMore DEF Names
  <2>6. ASSUME NEW q \in Paths
        PROVE  /\ Retells(notices, disk[q], q) => Retells(Append(r, modified), after[q], q)
               /\ Settles(notices, batch, todo, Base[q], disk[q], q) =>
                    Settles(Append(r, modified), batch, todo, Base[q], after[q], q)
    <3>1. CASE q = p
      <4>1. Retells(r, after[q], q) /\ Settles(r, batch, todo, Base[q], after[q], q)
        BY <1>2, <1>3, <1>4, <2>1, <3>1, OneMoreSettles
      <4> QED BY <1>2, <1>3, <1>4, <3>1, <4>1, OneMoreSettles
    <3>2. CASE q # p
      <4>1. after[q] = disk[q]
        BY <1>3, <3>2
      <4>2. Settles(notices, batch, todo, Base[q], disk[q], q) =>
              Settles(r, batch, todo, Base[q], disk[q], q)
        BY <1>2, <1>4, <2>1, OneMoreSettles
      <4>3. Settles(r, batch, todo, Base[q], disk[q], q) =>
              Settles(Append(r, modified), batch, todo, Base[q], disk[q], q)
        BY <1>4, OneMoreSettles
      <4>4. CASE disk[q] = Absent
        BY <1>4, <4>1, <4>2, <4>3, <4>4, OneMoreSettles
      <4>5. CASE disk[q] # Absent
        <5>1. Retells(notices, disk[q], q) => Retells(r, disk[q], q)
          BY <1>2, <1>4, <2>1, <4>5, OneMoreSettles
        <5>2. Retells(r, disk[q], q) => Retells(Append(r, modified), disk[q], q)
          BY <1>4, <4>5, OneMoreSettles
        <5> QED BY <4>1, <4>2, <4>3, <5>1, <5>2
      <4> QED BY <4>4, <4>5
    <3> QED BY <3>1, <3>2
  <2>7. PICK told : told = <<created, modified>>
    OBVIOUS
  <2>8. Notify(told) /\ notices \o told = Append(r, modified)
    BY <1>1, <1>5, <2>2, <2>7
  <2> QED BY <1>1, <1>3, <2>2, <2>3, <2>4, <2>5, <2>6, <2>7, <2>8, NotifyKeeps
<1>6. CASE disk[p] # Absent
  <2>1. PICK r \in Seq(Notification) : r = Append(notices, modified)
    BY <1>2, <1>4, Appended
  <2>2. /\ notices \o <<modified>> = r
        /\ Owing(<<modified>>) \in Seq(Notification)
    BY <1>2, <1>4, <2>1, Tells
  <2>3. Lost(r) <=> Lost(notices)
    BY <1>2, <1>4, <2>1, TellsMore
  <2>4. \A q : Names(notices, batch, todo, q) => Names(r, batch, todo, q)
    BY <1>2, <1>4, <2>1, TellsMore DEF Names
  <2>5. Names(r, batch, todo, p)
    BY <1>2, <1>4, <2>1, TellsMore DEF Names
  <2>6. ASSUME NEW q \in Paths
        PROVE  /\ Retells(notices, disk[q], q) => Retells(r, after[q], q)
               /\ Settles(notices, batch, todo, Base[q], disk[q], q) =>
                    Settles(r, batch, todo, Base[q], after[q], q)
    <3>1. CASE q = p
      BY <1>2, <1>3, <1>4, <1>6, <2>1, <3>1, OneMoreSettles
    <3>2. CASE q # p
      <4>1. after[q] = disk[q]
        BY <1>3, <3>2
      <4>2. Settles(notices, batch, todo, Base[q], disk[q], q) =>
              Settles(r, batch, todo, Base[q], disk[q], q)
        BY <1>2, <1>4, <2>1, OneMoreSettles
      <4>3. Retells(notices, disk[q], q) => Retells(r, disk[q], q)
        BY <1>2, <1>4, <2>1, OneMoreSettles
      <4> QED BY <4>1, <4>2, <4>3
    <3> QED BY <3>1, <3>2
  <2>7. PICK told : told = <<modified>>
    OBVIOUS
  <2>8. Notify(told) /\ notices \o told = r
    BY <1>1, <1>6, <2>2, <2>7
  <2> QED BY <1>1, <1>3, <2>1, <2>2, <2>3, <2>4, <2>5, <2>6, <2>7, <2>8, NotifyKeeps
<1> QED BY <1>5, <1>6

\* A deletion is told as what it is.
LEMMA DeleteKeeps ==
    ASSUME FilesInv, NEW p \in Paths, Delete(p)
    PROVE  FilesInv'
<1> DEFINE after == [disk EXCEPT ![p] = Absent]
           deleted == Notice(p, "deleted")
<1>1. Change(after) /\ Notify(<<deleted>>)
  BY DEF Delete
<1>2. notices \in Seq(Notification) /\ disk \in Manifests /\ FilesTypes
  BY DEF FilesInv, FilesTypes
<1>3. after \in Manifests /\ after[p] = Absent /\ \A q \in Paths : q # p => after[q] = disk[q]
  BY <1>2 DEF Manifests, Content
<1>4. /\ deleted \in Notification /\ deleted.kind # "error" /\ deleted.path = p
      /\ IsRemovalOf(deleted, p)
      /\ \A q : q # p => ~IsRemovalOf(deleted, q)
  BY DEF Notice, Notification, Kinds, IsRemovalOf, IsRemoval
<1> HIDE DEF after, deleted
<1>5. PICK r \in Seq(Notification) : r = Append(notices, deleted)
  BY <1>2, <1>4, Appended
<1>6. notices \o <<deleted>> = r /\ Owing(<<deleted>>) \in Seq(Notification)
  BY <1>2, <1>4, <1>5, Tells
<1>7. Lost(r) <=> Lost(notices)
  BY <1>2, <1>4, <1>5, TellsMore
<1>8. /\ \A q : Names(notices, batch, todo, q) => Names(r, batch, todo, q)
      /\ Names(r, batch, todo, p)
  BY <1>2, <1>4, <1>5, TellsMore DEF Names
<1>9. ASSUME NEW q \in Paths
      PROVE  /\ Retells(notices, disk[q], q) => Retells(r, after[q], q)
             /\ Settles(notices, batch, todo, Base[q], disk[q], q) =>
                  Settles(r, batch, todo, Base[q], after[q], q)
  <2>1. CASE q = p
    BY <1>2, <1>3, <1>4, <1>5, <2>1, OneMoreSettles
  <2>2. CASE q # p
    <3>1. after[q] = disk[q]
      BY <1>3, <2>2
    <3>2. Settles(notices, batch, todo, Base[q], disk[q], q) =>
            Settles(r, batch, todo, Base[q], disk[q], q)
      BY <1>2, <1>4, <1>5, <2>2, OneMoreSettles
    <3>3. Retells(notices, disk[q], q) => Retells(r, disk[q], q)
      BY <1>2, <1>4, <1>5, <2>2, OneMoreSettles
    <3> QED BY <3>1, <3>2, <3>3
  <2> QED BY <2>1, <2>2
<1>10. PICK told : told = <<deleted>>
  OBVIOUS
<1>11. Notify(told) /\ notices \o told = r
  BY <1>1, <1>6, <1>10
<1> QED BY <1>1, <1>3, <1>5, <1>6, <1>7, <1>8, <1>9, <1>10, <1>11, NotifyKeeps

\* Where notifications do not tell all there is, they still tell what is put where.
LEMMA AstrayKeeps ==
    ASSUME FilesInv, NEW after \in Manifests, Change(after), NEW told, NotifyAstray(told),
           notices \o told \in Seq(Notification), Owing(told) \in Seq(Notification),
           Lost(notices \o told) <=> Lost(notices),
           \A p \in Paths :
               Retells(notices, disk[p], p) => Retells(notices \o told, after[p], p)
    PROVE  FilesInv'
<1>1. CASE watching
  <2>1. astray' = "now" /\ notices' = notices \o told /\ owed' = Owing(told)
    BY <1>1 DEF NotifyAstray
  <2> QED BY <1>1, <2>1, ToldKeeps
<1>2. CASE ~watching
  <2>1. UNCHANGED <<notices, owed, astray>>
    BY <1>2 DEF NotifyAstray
  <2>2. disk' = after
        /\ UNCHANGED <<watching, batch, todo, task, scan, manifest, prepared, last, stale>>
    BY DEF Change
  <2>3. notices = <<>>
    BY <1>2 DEF FilesInv, Begun
  <2>4. FilesTypes'
    BY <2>1, <2>2 DEF FilesInv, FilesTypes
  <2>5. Begun'
    BY <2>1, <2>2 DEF FilesInv, Begun
  <2>6. Retold'
    BY <2>1, <2>3 DEF Retold, Retells, Removed
  <2>7. Settled' /\ Told'
    BY <1>2, <2>2 DEF Settled, Told
  <2> QED BY <2>4, <2>5, <2>6, <2>7 DEF FilesInv
<1> QED BY <1>1, <1>2

\* A rename removes one file and puts another, and an unpaired one still puts it.
LEMMA RenameKeeps ==
    ASSUME FilesInv, NEW p \in Paths, NEW q \in Paths, Rename(p, q)
    PROVE  FilesInv'
<1> DEFINE after == [disk EXCEPT ![p] = Absent, ![q] = disk[p]]
<1>1. /\ p # q /\ disk[p] # Absent /\ Change(after)
      /\ \/ Notify(<<Notice(p, "rename_from"), Notice(q, "rename_to")>>)
         \/ NotifyAstray(<<Notice(p, "rename"), Notice(q, "rename")>>)
  BY DEF Rename
<1>2. notices \in Seq(Notification) /\ disk \in Manifests /\ FilesTypes
  BY DEF FilesInv, FilesTypes
<1>3. /\ after \in Manifests /\ after[p] = Absent /\ after[q] # Absent
      /\ \A o \in Paths : o # p /\ o # q => after[o] = disk[o]
  BY <1>1, <1>2 DEF Manifests, Content
<1> HIDE DEF after
<1>4. ASSUME NEW m \in Notification, NEW n \in Notification,
             m.kind # "error", n.kind # "error", m.path = p, n.path = q, IsPutOf(n, q)
      PROVE  /\ notices \o <<m, n>> \in Seq(Notification)
             /\ Owing(<<m, n>>) \in Seq(Notification)
             /\ Lost(notices \o <<m, n>>) <=> Lost(notices)
             /\ \A o \in Paths :
                  /\ Retells(notices, disk[o], o) => Retells(notices \o <<m, n>>, after[o], o)
                  /\ Names(notices, batch, todo, o) =>
                       Names(notices \o <<m, n>>, batch, todo, o)
                  /\ after[o] = disk[o] \/ Names(notices \o <<m, n>>, batch, todo, o)
                  /\ o # p \/ IsRemovalOf(m, p) =>
                       (Settles(notices, batch, todo, Base[o], disk[o], o) =>
                          Settles(notices \o <<m, n>>, batch, todo, Base[o], after[o], o))
  <2>1. PICK r \in Seq(Notification) : r = Append(notices, m)
    BY <1>2, Appended
  <2>2. PICK s \in Seq(Notification) : s = Append(r, n)
    BY Appended
  <2>3. notices \o <<m, n>> = s /\ Owing(<<m, n>>) \in Seq(Notification)
    BY <1>2, <2>1, <2>2, Tells
  <2>4. Lost(s) <=> Lost(notices)
    BY <1>2, <1>4, <2>1, <2>2, TellsMore
  <2>5. /\ \A o : Names(notices, batch, todo, o) => Names(r, batch, todo, o)
        /\ \A o : Names(r, batch, todo, o) => Names(s, batch, todo, o)
        /\ Names(r, batch, todo, p) /\ Names(s, batch, todo, q)
    BY <1>2, <1>4, <2>1, <2>2, TellsMore DEF Names
  <2>6. /\ \A o : o # q => ~IsRemovalOf(n, o)
        /\ \A o : o # p => ~IsRemovalOf(m, o)
        /\ ~IsRemovalOf(n, q)
    BY <1>4 DEF IsRemovalOf, IsPutOf, IsRemoval
  <2>7. ASSUME NEW o \in Paths
        PROVE  /\ Retells(notices, disk[o], o) => Retells(s, after[o], o)
               /\ o # p \/ IsRemovalOf(m, p) =>
                    (Settles(notices, batch, todo, Base[o], disk[o], o) =>
                       Settles(s, batch, todo, Base[o], after[o], o))
    <3>1. CASE o = p
      <4>1. Retells(s, after[o], o)
        BY <1>3, <2>2, <3>1, OneMoreSettles
      <4>2. IsRemovalOf(m, p) => Settles(r, batch, todo, Base[o], after[o], o)
        BY <1>2, <1>3, <2>1, <3>1, OneMoreSettles
      <4>3. Settles(r, batch, todo, Base[o], after[o], o) =>
              Settles(s, batch, todo, Base[o], after[o], o)
        BY <1>1, <2>2, <2>6, <3>1, OneMoreSettles
      <4> QED BY <3>1, <4>1, <4>2, <4>3
    <3>2. CASE o = q
      BY <1>3, <1>4, <2>2, <3>2, OneMoreSettles
    <3>3. CASE o # p /\ o # q
      <4>1. after[o] = disk[o]
        BY <1>3, <3>3
      <4>2. Settles(notices, batch, todo, Base[o], disk[o], o) =>
              Settles(r, batch, todo, Base[o], disk[o], o)
        BY <1>2, <2>1, <2>6, <3>3, OneMoreSettles
      <4>3. Settles(r, batch, todo, Base[o], disk[o], o) =>
              Settles(s, batch, todo, Base[o], disk[o], o)
        BY <2>2, <2>6, <3>3, OneMoreSettles
      <4>4. Retells(notices, disk[o], o) => Retells(s, disk[o], o)
        <5>1. CASE disk[o] = Absent
          BY <2>2, <5>1, OneMoreSettles
        <5>2. CASE disk[o] # Absent
          <6>1. Retells(notices, disk[o], o) => Retells(r, disk[o], o)
            BY <1>2, <2>1, <2>6, <3>3, <5>2, OneMoreSettles
          <6>2. Retells(r, disk[o], o) => Retells(s, disk[o], o)
            BY <2>2, <2>6, <3>3, <5>2, OneMoreSettles
          <6> QED BY <6>1, <6>2
        <5> QED BY <5>1, <5>2
      <4> QED BY <4>1, <4>2, <4>3, <4>4
    <3> QED BY <3>1, <3>2, <3>3
  <2>8. \A o \in Paths : after[o] = disk[o] \/ Names(s, batch, todo, o)
    BY <1>3, <2>5
  <2> QED BY <2>3, <2>4, <2>5, <2>7, <2>8
<1>5. CASE Notify(<<Notice(p, "rename_from"), Notice(q, "rename_to")>>)
  <2>1. PICK m \in Notification, n \in Notification :
          m = Notice(p, "rename_from") /\ n = Notice(q, "rename_to")
    BY DEF Notice, Notification, Kinds
  <2>2. /\ m.kind # "error" /\ n.kind # "error" /\ m.path = p /\ n.path = q
        /\ IsPutOf(n, q) /\ IsRemovalOf(m, p)
    BY <2>1 DEF Notice, IsPutOf, IsRemovalOf, IsRemoval
  <2>3. PICK told : told = <<m, n>>
    OBVIOUS
  <2>4. /\ notices \o told \in Seq(Notification)
        /\ Owing(told) \in Seq(Notification)
        /\ Lost(notices \o told) <=> Lost(notices)
        /\ \A o \in Paths :
             /\ Retells(notices, disk[o], o) => Retells(notices \o told, after[o], o)
             /\ Names(notices, batch, todo, o) => Names(notices \o told, batch, todo, o)
             /\ after[o] = disk[o] \/ Names(notices \o told, batch, todo, o)
             /\ Settles(notices, batch, todo, Base[o], disk[o], o) =>
                  Settles(notices \o told, batch, todo, Base[o], after[o], o)
    BY <1>4, <2>2, <2>3
  <2>5. Notify(told)
    BY <1>5, <2>1, <2>3
  <2> QED BY <1>1, <1>3, <2>4, <2>5, NotifyKeeps
<1>6. CASE NotifyAstray(<<Notice(p, "rename"), Notice(q, "rename")>>)
  <2>1. PICK m \in Notification, n \in Notification :
          m = Notice(p, "rename") /\ n = Notice(q, "rename")
    BY DEF Notice, Notification, Kinds
  <2>2. /\ m.kind # "error" /\ n.kind # "error" /\ m.path = p /\ n.path = q
        /\ IsPutOf(n, q)
    BY <2>1 DEF Notice, IsPutOf
  <2>3. PICK told : told = <<m, n>>
    OBVIOUS
  <2>4. /\ notices \o told \in Seq(Notification)
        /\ Owing(told) \in Seq(Notification)
        /\ Lost(notices \o told) <=> Lost(notices)
        /\ \A o \in Paths :
             Retells(notices, disk[o], o) => Retells(notices \o told, after[o], o)
    BY <1>4, <2>2, <2>3
  <2>5. NotifyAstray(told)
    BY <1>6, <2>1, <2>3
  <2> QED BY <1>1, <1>3, <2>4, <2>5, AstrayKeeps
<1> QED BY <1>1, <1>5, <1>6

\* A directory that goes takes files with it that are not there afterwards.
LEMMA MoveFolderKeeps ==
    ASSUME FilesInv, MoveFolder
    PROVE  FilesInv'
<1> DEFINE after == [p \in Paths |-> IF p \in Inside THEN Absent ELSE disk[p]]
<1>1. Change(after) /\ NotifyAstray(<<Notice(Folder, "rename_from")>>)
  BY DEF MoveFolder
<1>2. notices \in Seq(Notification) /\ disk \in Manifests /\ FilesTypes
  BY DEF FilesInv, FilesTypes
<1>3. /\ after \in Manifests
      /\ \A p \in Paths : after[p] = Absent \/ after[p] = disk[p]
  BY <1>2 DEF Manifests, Content
<1> HIDE DEF after
<1>4. PICK n \in Notification : n = Notice(Folder, "rename_from")
  BY DEF Notice, Notification, Kinds
<1>5. n.kind # "error" /\ \A p \in Paths : ~IsRemovalOf(n, p)
  BY <1>4, ObserverAssumption DEF Notice, IsRemovalOf
<1>6. PICK r \in Seq(Notification) : r = Append(notices, n)
  BY <1>2, Appended
<1>7. notices \o <<n>> = r /\ Owing(<<n>>) \in Seq(Notification)
  BY <1>2, <1>6, Tells
<1>8. Lost(r) <=> Lost(notices)
  BY <1>2, <1>5, <1>6, TellsMore
<1>9. ASSUME NEW p \in Paths PROVE Retells(notices, disk[p], p) => Retells(r, after[p], p)
  <2>1. CASE after[p] = Absent
    BY <1>2, <1>6, <2>1, OneMoreSettles
  <2>2. CASE after[p] # Absent
    <3>1. after[p] = disk[p]
      BY <1>3, <2>2
    <3> QED BY <1>2, <1>5, <1>6, <2>2, <3>1, OneMoreSettles
  <2> QED BY <2>1, <2>2
<1>10. PICK told : told = <<n>>
  OBVIOUS
<1>11. NotifyAstray(told) /\ notices \o told = r
  BY <1>1, <1>4, <1>7, <1>10
<1> QED BY <1>1, <1>3, <1>6, <1>7, <1>8, <1>9, <1>10, <1>11, AstrayKeeps
-----------------------------------------------------------------------------
(* The watcher task *)

\* A watch begins with a manifest that agrees, or astray.
LEMMA WatchKeeps ==
    ASSUME FilesInv, Watch
    PROVE  FilesInv'
<1>1. /\ ~watching /\ watching' = TRUE
      /\ astray' = IF Agrees(manifest) THEN astray ELSE "now"
      /\ UNCHANGED <<disk, notices, batch, todo, task, scan, manifest, prepared, last, owed, stale>>
  BY DEF Watch, files, evidence
<1>2. /\ notices = <<>> /\ task = "idle" /\ todo = {}
      /\ \A p \in Paths : last[p].kind = "none"
  BY <1>1 DEF FilesInv, Begun
<1>3. Observed \subseteq Paths
  BY DEF Observed
<1>4. FilesTypes'
  BY <1>1 DEF FilesInv, FilesTypes
<1>5. Begun'
  BY <1>1, <1>2 DEF FilesInv, Begun
<1>6. Retold'
  BY <1>1 DEF FilesInv, Retold
<1>7. Settled'
  <2> SUFFICES ASSUME astray' # "now", NEW p \in Observed
               PROVE  Settles(notices, batch, todo, Base'[p], disk[p], p)
    BY <1>1 DEF Settled
  <2>1. Base' = manifest
    BY <1>1, <1>2 DEF Base
  <2>2. manifest[p] = disk[p]
    BY <1>1 DEF Agrees
  <2>3. ~Removes(notices, batch, todo, p)
    BY <1>2 DEF Removes, Removed
  <2> QED BY <2>1, <2>2, <2>3 DEF Settles
<1>8. Told'
  BY <1>1, <1>2, <1>3 DEF Told
<1> QED BY <1>4, <1>5, <1>6, <1>7, <1>8 DEF FilesInv

\* A set of positions has a first one.
LEMMA LeastPosition ==
    ASSUME NEW S \in SUBSET Nat, S # {}
    PROVE  \E m \in S : \A k \in S : m <= k
<1>1. IsWellFoundedOn(OpToRel(<, Nat), Nat)
  BY NatLessThanWellFounded
<1>2. PICK m \in S : \A k \in S : ~(<<k, m>> \in OpToRel(<, Nat))
  BY <1>1, WFMin
<1>3. ASSUME NEW k \in S PROVE m <= k
  <2>1. ~(k < m)
    BY <1>2 DEF OpToRel
  <2> QED BY <2>1
<1> QED BY <1>3

\* Folding drops nothing but what is told before.
LEMMA FoldedTells ==
    ASSUME NEW q \in Seq(Notification), NEW p
    PROVE  /\ Removed(q, Debounced(q), p) <=> Removed(q, DOMAIN q, p)
           /\ Written(q, Debounced(q), p) <=> Written(q, DOMAIN q, p)
           /\ ~Lost(q) => (Named(q, DOMAIN q, p) => Named(q, Debounced(q), p))
           /\ PutLast(q, DOMAIN q, p) => PutLast(q, Debounced(q), p)
<1> DEFINE D == Debounced(q)
<1>1. /\ D \subseteq DOMAIN q /\ DOMAIN q \subseteq Nat \ {0}
      /\ \A i \in DOMAIN q : q[i].kind \notin {"error", "modified"} => i \in D
      /\ \A i \in DOMAIN q : q[i].kind = "modified" => i \in D \/ Repeated(q, i)
  BY DEF Debounced
<1> HIDE DEF D
<1>2. Removed(q, D, p) <=> Removed(q, DOMAIN q, p)
  BY <1>1 DEF Removed, IsRemovalOf, IsRemoval
<1>3. PutLast(q, DOMAIN q, p) => PutLast(q, D, p)
  BY <1>1 DEF PutLast, IsPutOf
<1>4. ASSUME NEW i \in DOMAIN q, IsWriteOf(q[i], p)
      PROVE  \E j \in D : IsWriteOf(q[j], p)
  <2>1. PICK S \in SUBSET Nat : S = {j \in DOMAIN q : IsWriteOf(q[j], p)}
    BY <1>1
  <2>2. PICK j \in S : \A k \in S : j <= k
    BY <1>4, <2>1, LeastPosition
  <2>3. ~Repeated(q, j)
    <3> SUFFICES ASSUME NEW k \in 1..(j - 1), q[k] = q[j] PROVE FALSE
      BY DEF Repeated
    <3>1. k \in DOMAIN q /\ k < j /\ k \in Nat
      BY <1>1, <2>1, <2>2
    <3>2. k \in S
      BY <2>1, <2>2, <3>1
    <3> QED BY <2>2, <3>1, <3>2
  <2> QED BY <1>1, <2>1, <2>2, <2>3 DEF IsWriteOf
<1>5. Written(q, D, p) <=> Written(q, DOMAIN q, p)
  BY <1>1, <1>4 DEF Written
<1>6. ~Lost(q) => (Named(q, DOMAIN q, p) => Named(q, D, p))
  <2> SUFFICES ASSUME ~Lost(q), NEW i \in DOMAIN q, q[i].path = p PROVE Named(q, D, p)
    BY DEF Named
  <2>1. CASE q[i].kind = "modified"
    BY <1>4, <2>1 DEF Named, IsWriteOf
  <2>2. CASE q[i].kind # "modified"
    BY <1>1, <2>2 DEF Named, Lost
  <2> QED BY <2>1, <2>2
<1> QED BY <1>2, <1>3, <1>5, <1>6 DEF D

\* What is drained tells of every file what it told before.
LEMMA DrainKeeps ==
    ASSUME FilesInv, Drain
    PROVE  FilesInv'
<1>1. /\ watching /\ task = "idle"
      /\ batch' = notices /\ todo' = Debounced(notices) /\ notices' = <<>>
      /\ task' = IF Lost(notices) THEN "gap" ELSE "emit"
      /\ UNCHANGED <<disk, watching, scan, manifest, prepared, last, owed, astray, stale>>
  BY DEF Drain, evidence, Lost
<1>2. notices \in Seq(Notification) /\ todo = {}
  BY <1>1 DEF FilesInv, FilesTypes, Begun
<1>3. FilesTypes'
  BY <1>1, <1>2 DEF FilesInv, FilesTypes, Debounced
<1>4. ~Lost(<<>>)
  BY DEF Lost
<1>5. Begun'
  BY <1>1, <1>4 DEF FilesInv, Begun
<1>6. Retold'
  BY <1>1 DEF Retold, Retells, Removed
<1>7. Settled'
  <2> SUFFICES ASSUME astray # "now", ~stale, ~Lost(notices), NEW p \in Observed
               PROVE  Settles(<<>>, notices, Debounced(notices), Base'[p], disk[p], p)
    BY <1>1 DEF Settled
  <2>1. Base' = manifest /\ Base = manifest
    BY <1>1 DEF Base
  <2>2. Settles(notices, batch, {}, manifest[p], disk[p], p)
    BY <1>1, <1>2, <2>1 DEF FilesInv, Settled
  <2>3. PICK D : D = Debounced(notices)
    OBVIOUS
  <2>4. /\ Removed(notices, D, p) <=> Removed(notices, DOMAIN notices, p)
        /\ Written(notices, D, p) <=> Written(notices, DOMAIN notices, p)
        /\ PutLast(notices, DOMAIN notices, p) => PutLast(notices, D, p)
    BY <1>2, <2>3, FoldedTells
  <2>5. /\ ~Removed(<<>>, DOMAIN <<>>, p) /\ ~Written(<<>>, DOMAIN <<>>, p)
        /\ ~Removed(batch, {}, p) /\ ~Written(batch, {}, p) /\ ~PutLast(batch, {}, p)
    BY DEF Removed, Written, PutLast
  <2>6. Settles(<<>>, notices, D, manifest[p], disk[p], p)
    BY <2>2, <2>4, <2>5 DEF Settles, Removes, Puts, Writes
  <2> QED BY <2>1, <2>3, <2>6
<1>8. Told'
  <2> SUFFICES ASSUME astray = "never", NEW p \in Observed
               PROVE  \/ Names(<<>>, notices, Debounced(notices), p)
                      \/ last[p].kind = "none" \/ last[p].after = disk[p]
    BY <1>1 DEF Told
  <2>1. ~Lost(notices)
    BY DEF FilesInv, Begun
  <2>2. Names(notices, batch, {}, p) \/ last[p].kind = "none" \/ last[p].after = disk[p]
    BY <1>1, <1>2 DEF FilesInv, Told
  <2>3. ~Named(batch, {}, p)
    BY DEF Named
  <2> QED BY <1>2, <2>1, <2>2, <2>3, FoldedTells DEF Names
<1> QED BY <1>3, <1>5, <1>6, <1>7, <1>8 DEF FilesInv

\* A scan has what the files hold, and what is notified after it tells the rest.
LEMMA ScanKeeps ==
    ASSUME FilesInv, Scan
    PROVE  FilesInv'
<1>1. /\ task = "gap" /\ task' = "compare" /\ astray' = "once"
      /\ scan' = [before |-> manifest, now |-> Captured]
      /\ stale' = \E i \in todo : IsRemoval(batch[i]) /\ batch[i].path \in Observed
                                  /\ disk[batch[i].path] # Absent
      /\ UNCHANGED <<disk, notices, watching, batch, todo, manifest, prepared, last, owed>>
  BY DEF Scan, files, evidence
<1>2. manifest \in Manifests /\ disk \in Manifests
  BY DEF FilesInv, FilesTypes
<1>3. Captured \in Manifests /\ \A p \in Observed : Captured[p] = disk[p]
  BY <1>2 DEF Captured, Manifests, Content, Observed, Scanned
<1>4. scan'.now = Captured /\ scan' \in [before : Manifests, now : Manifests]
  BY <1>1, <1>2, <1>3
<1>5. FilesTypes'
  BY <1>1, <1>4 DEF FilesInv, FilesTypes
<1>6. Begun'
  BY <1>1 DEF FilesInv, Begun
<1>7. Retold'
  BY <1>1 DEF FilesInv, Retold
<1>8. Settled'
  <2> SUFFICES ASSUME ~stale', ~Lost(notices), NEW p \in Observed
               PROVE  Settles(notices, batch, todo, Base'[p], disk[p], p)
    BY <1>1 DEF Settled
  <2>1. Base'[p] = disk[p]
    BY <1>1, <1>3, <1>4 DEF Base
  <2>2. disk[p] # Absent => ~Removed(batch, todo, p)
    BY <1>1 DEF Removed, IsRemovalOf
  <2>3. Retells(notices, disk[p], p)
    BY DEF FilesInv, Retold, Observed
  <2> QED BY <2>1, <2>2, <2>3 DEF Settles, Retells, Removes, Puts
<1>9. Told'
  BY <1>1 DEF Told
<1> QED BY <1>5, <1>6, <1>7, <1>8, <1>9 DEF FilesInv

\* A scan that fails leaves the manifest astray.
LEMMA ScanFailsKeeps ==
    ASSUME FilesInv, ScanFails
    PROVE  FilesInv'
<1>1. /\ task = "gap" /\ task' = "emit" /\ astray' = "now"
      /\ UNCHANGED <<disk, notices, watching, batch, todo, scan, manifest, prepared, last, owed,
                     stale>>
  BY DEF ScanFails, files, evidence
<1>2. FilesTypes'
  BY <1>1 DEF FilesInv, FilesTypes
<1>3. Begun'
  BY <1>1 DEF FilesInv, Begun
<1>4. Retold'
  BY <1>1 DEF FilesInv, Retold
<1>5. Settled' /\ Told'
  BY <1>1 DEF Settled, Told
<1> QED BY <1>2, <1>3, <1>4, <1>5 DEF FilesInv

\* The scan becomes the manifest it stood for.
LEMMA CompareKeeps ==
    ASSUME FilesInv, Compare
    PROVE  FilesInv'
<1>1. /\ task = "compare" /\ task' = "emit"
      /\ manifest' = scan.now /\ scan' = [before |-> Empty, now |-> Empty]
      /\ \E accepted \in SUBSET Paths :
            last' = [p \in Paths |->
                       IF scan.before[p] = scan.now[p] \/ p \notin accepted THEN last[p]
                       ELSE [kind |-> Difference(p), after |-> Unread]]
      /\ UNCHANGED <<disk, notices, watching, batch, todo, prepared, owed, astray, stale>>
  BY DEF Compare, ReplacedByScan, files
<1>2. /\ astray # "never" /\ watching
      /\ scan.now \in Manifests /\ Empty \in Manifests
  BY <1>1 DEF FilesInv, FilesTypes, Begun, Empty, Manifests, Content
<1>3. last' \in [Paths -> [kind : Kinds \cup {"none"}, after : Content \cup {Unread}]]
  <2>1. \A p : Difference(p) \in Kinds
    BY DEF Difference, Kinds
  <2> QED BY <1>1, <2>1 DEF FilesInv, FilesTypes
<1>4. FilesTypes'
  BY <1>1, <1>2, <1>3 DEF FilesInv, FilesTypes
<1>5. Begun'
  BY <1>1, <1>2 DEF FilesInv, Begun
<1>6. Retold'
  BY <1>1 DEF FilesInv, Retold
<1>7. Settled'
  <2>1. Base' = Base
    BY <1>1 DEF Base
  <2> QED BY <1>1, <2>1 DEF FilesInv, Settled
<1>8. Told'
  BY <1>1, <1>2 DEF Told
<1> QED BY <1>4, <1>5, <1>6, <1>7, <1>8 DEF FilesInv

\* What the oldest notification leaves to tell, and the entry it makes.
LEMMA EmitSettles ==
    ASSUME NEW q, NEW b, NEW T \in SUBSET Nat, NEW i \in T, \A j \in T : i <= j,
           NEW x, NEW d, NEW p, Settles(q, b, T, x, d, p)
    PROVE  /\ b[i].path # p => Settles(q, b, T \ {i}, x, d, p)
           /\ b[i].path = p =>
                \A y : /\ IsRemoval(b[i]) => y = Absent
                       /\ ~IsRemoval(b[i]) => y = IF d # Absent THEN d ELSE x
                       => Settles(q, b, T \ {i}, y, d, p)
<1> DEFINE U == T \ {i}
<1>1. /\ Removed(b, U, p) => Removed(b, T, p)
      /\ ~IsRemovalOf(b[i], p) /\ Removed(b, T, p) => Removed(b, U, p)
  BY DEF Removed
<1>2. /\ Written(b, U, p) => Written(b, T, p)
      /\ ~IsWriteOf(b[i], p) /\ Written(b, T, p) => Written(b, U, p)
  BY DEF Written
<1>3. ~IsPutOf(b[i], p) /\ PutLast(b, T, p) => PutLast(b, U, p)
  BY DEF PutLast
<1>4. PutLast(b, T, p) /\ ~IsRemovalOf(b[i], p) /\ Removed(b, T, p) => PutLast(b, U, p)
  <2> SUFFICES ASSUME NEW k \in T, IsPutOf(b[k], p), \A j \in T : IsRemovalOf(b[j], p) => j < k,
                      NEW l \in T, IsRemovalOf(b[l], p), ~IsRemovalOf(b[i], p)
               PROVE  PutLast(b, U, p)
    BY DEF PutLast, Removed
  <2>1. l < k /\ i <= l
    OBVIOUS
  <2>2. k # i
    BY <2>1
  <2> QED BY <2>2 DEF PutLast
<1> HIDE DEF U
<1>5. ASSUME b[i].path # p PROVE Settles(q, b, U, x, d, p)
  <2>1. ~IsRemovalOf(b[i], p) /\ ~IsWriteOf(b[i], p) /\ ~IsPutOf(b[i], p)
    BY <1>5 DEF IsRemovalOf, IsWriteOf, IsPutOf
  <2> QED BY <1>1, <1>2, <1>3, <2>1 DEF Settles, Removes, Writes, Puts
<1>6. ASSUME b[i].path = p, IsRemoval(b[i]) PROVE Settles(q, b, U, Absent, d, p)
  <2>1. Removed(b, T, p) /\ ~IsPutOf(b[i], p)
    BY <1>6 DEF Removed, IsRemovalOf, IsPutOf, IsRemoval
  <2> QED BY <1>3, <2>1 DEF Settles, Removes, Puts
<1>7. ASSUME b[i].path = p, ~IsRemoval(b[i])
      PROVE  Settles(q, b, U, IF d # Absent THEN d ELSE x, d, p)
  <2>1. ~IsRemovalOf(b[i], p)
    BY <1>7 DEF IsRemovalOf
  <2> QED BY <1>1, <1>4, <2>1 DEF Settles, Removes, Puts
<1> QED BY <1>5, <1>6, <1>7 DEF U

\* The oldest notification settles its path, or one after it does.
LEMMA EmitKeeps ==
    ASSUME FilesInv, Emit
    PROVE  FilesInv'
<1>1. PICK i \in todo :
        /\ \A j \in todo : i <= j
        /\ todo' = todo \ {i}
        /\ Recording(batch[i]) \/ Refused(batch[i]) \/ Unreadable(batch[i])
        /\ owed' = IF IsLifecycle(batch[i]) /\ owed # <<>> /\ batch[i] = Head(owed)
                   THEN Tail(owed) ELSE owed
  BY DEF Emit
<1>2. /\ task = "emit"
      /\ UNCHANGED <<disk, notices, watching, batch, task, scan, prepared, stale>>
  BY DEF Emit, files
<1>3. /\ batch \in Seq(Notification) /\ owed \in Seq(Notification)
      /\ todo \subseteq DOMAIN batch /\ todo \subseteq Nat
      /\ manifest \in Manifests /\ disk \in Manifests
      /\ last \in [Paths -> [kind : Kinds \cup {"none"}, after : Content \cup {Unread}]]
      /\ watching /\ astray \in {"never", "once", "now"}
  BY <1>2 DEF FilesInv, FilesTypes, Begun
<1>4. PICK n \in Notification : n = batch[i]
  BY <1>1, <1>3
<1>5. PICK m : m = ManifestAfter(n)
  OBVIOUS
<1>6. Observed \subseteq Paths /\ Absent \in Content
  BY DEF Observed, Content
<1>a. n.path \in Observed =>
        /\ m \in Manifests
        /\ \A p \in Observed : p # n.path => m[p] = manifest[p]
        /\ IsRemoval(n) => m[n.path] = Absent
        /\ ~IsRemoval(n) => m[n.path] = IF disk[n.path] # Absent THEN disk[n.path]
                                        ELSE manifest[n.path]
  <2> SUFFICES ASSUME n.path \in Observed
               PROVE  /\ m \in Manifests
                      /\ \A p \in Observed : p # n.path => m[p] = manifest[p]
                      /\ IsRemoval(n) => m[n.path] = Absent
                      /\ ~IsRemoval(n) => m[n.path] = IF disk[n.path] # Absent
                                                      THEN disk[n.path] ELSE manifest[n.path]
    OBVIOUS
  <2>1. n.path \in Paths /\ disk[n.path] \in Content
    BY <1>3, <1>6 DEF Manifests
  <2>2. CASE IsRemoval(n)
    <3>1. m = [manifest EXCEPT ![n.path] = Absent]
      BY <1>5, <2>2 DEF ManifestAfter
    <3> QED BY <1>3, <1>6, <2>1, <2>2, <3>1 DEF Manifests
  <2>3. CASE ~IsRemoval(n) /\ disk[n.path] # Absent
    <3>1. m = [manifest EXCEPT ![n.path] = disk[n.path]]
      BY <1>5, <2>3 DEF ManifestAfter
    <3> QED BY <1>3, <1>6, <2>1, <2>3, <3>1 DEF Manifests
  <2>4. CASE ~IsRemoval(n) /\ disk[n.path] = Absent
    <3>1. m = manifest
      BY <1>5, <2>4 DEF ManifestAfter
    <3> QED BY <1>3, <2>4, <3>1
  <2> QED BY <2>2, <2>3, <2>4
<1>b. PICK told \in {disk[n.path], Unread} :
        /\ n.path \in Observed => /\ manifest' \in {manifest, m}
                                  /\ astray' # "now" => manifest' = m
        /\ n.path \notin Observed => UNCHANGED <<manifest, last>>
        /\ last' \in {last, [last EXCEPT ![n.path] = [kind |-> n.kind, after |-> told]]}
        /\ astray' \in {"never", "once", "now"}
        /\ astray' # "now" => astray # "now"
        /\ astray' = "never" =>
              /\ astray = "never"
              /\ n.path \in Observed =>
                    last' = [last EXCEPT ![n.path] = [kind |-> n.kind, after |-> disk[n.path]]]
  <2>1. CASE Recording(n)
    BY <1>3, <1>5, <2>1 DEF Recording
  <2>2. CASE Refused(n)
    BY <1>3, <1>5, <2>2 DEF Refused
  <2>3. CASE Unreadable(n)
    BY <1>3, <1>5, <2>3 DEF Unreadable, ManifestAfter
  <2> QED BY <1>1, <1>4, <2>1, <2>2, <2>3
<1>7. /\ manifest' \in Manifests
      /\ \A p \in Observed : p # n.path => manifest'[p] = manifest[p] /\ last'[p] = last[p]
      /\ n.path \in Observed /\ astray' # "now" =>
           /\ IsRemoval(n) => manifest'[n.path] = Absent
           /\ ~IsRemoval(n) => manifest'[n.path] = IF disk[n.path] # Absent THEN disk[n.path]
                                                   ELSE manifest[n.path]
  <2>1. \A p \in Observed : p # n.path => last'[p] = last[p]
    BY <1>3, <1>6, <1>b
  <2>2. manifest' \in Manifests /\ \A p \in Observed : p # n.path => manifest'[p] = manifest[p]
    BY <1>3, <1>a, <1>b
  <2>3. n.path \in Observed /\ astray' # "now" => manifest' = m
    BY <1>b
  <2> QED BY <1>a, <2>1, <2>2, <2>3
<1>8. /\ last' \in [Paths -> [kind : Kinds \cup {"none"}, after : Content \cup {Unread}]]
      /\ n.path \in Observed /\ astray' = "never" => last'[n.path].after = disk[n.path]
  <2>1. n.path \in Observed =>
          [kind |-> n.kind, after |-> told] \in
            [kind : Kinds \cup {"none"}, after : Content \cup {Unread}]
    BY <1>3, <1>6 DEF Manifests, Notification
  <2>2. last' \in [Paths -> [kind : Kinds \cup {"none"}, after : Content \cup {Unread}]]
    <3>1. CASE n.path \in Observed
      BY <1>3, <1>6, <1>b, <2>1, <3>1
    <3>2. CASE n.path \notin Observed
      BY <1>3, <1>b, <3>2
    <3> QED BY <3>1, <3>2
  <2> QED BY <1>3, <1>6, <1>b, <2>2
<1>9. owed' \in Seq(Notification)
  BY <1>1, <1>3
<1>10. FilesTypes'
  BY <1>1, <1>2, <1>3, <1>7, <1>8, <1>9, <1>b DEF FilesInv, FilesTypes
<1>11. Begun'
  BY <1>2, <1>3, <1>b DEF FilesInv, Begun
<1>12. Retold'
  BY <1>2 DEF FilesInv, Retold
<1>13. Settled'
  <2> SUFFICES ASSUME astray' # "now", ~stale, ~Lost(notices), NEW p \in Observed
               PROVE  Settles(notices, batch, todo', Base'[p], disk[p], p)
    BY <1>2 DEF Settled
  <2>1. Base = manifest /\ Base' = manifest'
    BY <1>2 DEF Base
  <2>2. Settles(notices, batch, todo, manifest[p], disk[p], p)
    BY <1>2, <1>3, <1>b, <2>1 DEF FilesInv, Settled
  <2>3. CASE p = n.path
    BY <1>1, <1>3, <1>4, <1>7, <2>1, <2>2, <2>3, EmitSettles
  <2>4. CASE p # n.path
    <3>1. manifest'[p] = manifest[p]
      BY <1>7, <2>4
    <3>2. Settles(notices, batch, todo \ {i}, manifest[p], disk[p], p)
      BY <1>1, <1>3, <1>4, <2>2, <2>4, EmitSettles
    <3> QED BY <1>1, <2>1, <3>1, <3>2
  <2> QED BY <2>3, <2>4
<1>14. Told'
  <2> SUFFICES ASSUME astray' = "never", NEW p \in Observed
               PROVE  \/ Names(notices, batch, todo', p)
                      \/ last'[p].kind = "none" \/ last'[p].after = disk[p]
    BY <1>2 DEF Told
  <2>1. Names(notices, batch, todo, p) \/ last[p].kind = "none" \/ last[p].after = disk[p]
    BY <1>3, <1>b DEF FilesInv, Told
  <2>2. p # n.path /\ Names(notices, batch, todo, p) => Names(notices, batch, todo', p)
    BY <1>1, <1>4 DEF Names, Named
  <2> QED BY <1>7, <1>8, <2>1, <2>2
<1> QED BY <1>10, <1>11, <1>12, <1>13, <1>14 DEF FilesInv

\* A batch ends with nothing left to record.
LEMMA EndBatchKeeps ==
    ASSUME FilesInv, EndBatch
    PROVE  FilesInv'
<1>1. /\ task = "emit" /\ todo = {} /\ task' = "idle" /\ batch' = <<>>
      /\ UNCHANGED <<disk, notices, watching, todo, scan, manifest, prepared, last, owed, astray,
                     stale>>
  BY DEF EndBatch, files, evidence
<1>2. FilesTypes'
  BY <1>1 DEF FilesInv, FilesTypes
<1>3. Begun'
  BY <1>1 DEF FilesInv, Begun
<1>4. Retold'
  BY <1>1 DEF FilesInv, Retold
<1>5. \A p : /\ Removed(batch', {}, p) <=> Removed(batch, {}, p)
             /\ Written(batch', {}, p) <=> Written(batch, {}, p)
             /\ Named(batch', {}, p) <=> Named(batch, {}, p)
             /\ PutLast(batch', {}, p) <=> PutLast(batch, {}, p)
  BY DEF Removed, Written, Named, PutLast
<1>6. Base' = Base
  BY <1>1 DEF Base
<1>7. Settled'
  <2> SUFFICES ASSUME watching, astray # "now", ~stale, ~Lost(notices), NEW p \in Observed
               PROVE  Settles(notices, batch', {}, Base[p], disk[p], p)
    BY <1>1, <1>6 DEF Settled
  <2>1. Settles(notices, batch, {}, Base[p], disk[p], p)
    BY <1>1 DEF FilesInv, Settled
  <2> QED BY <1>5, <2>1 DEF Settles, Removes, Writes, Puts
<1>8. Told'
  <2> SUFFICES ASSUME watching, astray = "never", NEW p \in Observed
               PROVE  \/ Names(notices, batch', {}, p)
                      \/ last[p].kind = "none" \/ last[p].after = disk[p]
    BY <1>1 DEF Told
  <2>1. \/ Names(notices, batch, {}, p)
        \/ last[p].kind = "none" \/ last[p].after = disk[p]
    BY <1>1 DEF FilesInv, Told
  <2> QED BY <1>5, <2>1 DEF Names
<1> QED BY <1>2, <1>3, <1>4, <1>7, <1>8 DEF FilesInv
-----------------------------------------------------------------------------
(* Other sessions *)

\* A capture is kept for later.
LEMMA CaptureBaselineKeeps ==
    ASSUME FilesInv, CaptureBaseline
    PROVE  FilesInv'
<1>1. /\ \E m \in {Captured, Empty} : prepared' = prepared \cup {m}
      /\ UNCHANGED <<disk, notices, watching, batch, todo, task, scan, manifest, last, owed,
                     astray, stale>>
  BY DEF CaptureBaseline, files, evidence
<1>2. Captured \in Manifests /\ Empty \in Manifests
  BY DEF FilesInv, FilesTypes, Captured, Empty, Manifests, Content
<1>3. FilesTypes'
  BY <1>1, <1>2 DEF FilesInv, FilesTypes
<1>4. Begun'
  BY <1>1 DEF FilesInv, Begun
<1>5. Retold'
  BY <1>1 DEF FilesInv, Retold
<1>6. Settled'
  BY <1>1 DEF FilesInv, Settled, Base
<1>7. Told'
  BY <1>1 DEF FilesInv, Told
<1> QED BY <1>3, <1>4, <1>5, <1>6, <1>7 DEF FilesInv

\* A manifest that replaces another agrees with the files, or is astray.
LEMMA ReplaceManifestKeeps ==
    ASSUME FilesInv, ReplaceManifest
    PROVE  FilesInv'
<1>1. PICK m \in prepared :
        /\ manifest' = m /\ prepared' = prepared \ {m}
        /\ astray' = IF Agrees(m) THEN astray ELSE "now"
  BY DEF ReplaceManifest
<1>2. UNCHANGED <<disk, notices, watching, batch, todo, task, scan, last, owed, stale>>
  BY DEF ReplaceManifest, files, evidence
<1>3. FilesTypes'
  BY <1>1, <1>2 DEF FilesInv, FilesTypes
<1>4. Begun'
  BY <1>1, <1>2 DEF FilesInv, Begun
<1>5. Retold'
  BY <1>2 DEF FilesInv, Retold
<1>6. Settled'
  <2> SUFFICES ASSUME watching, astray' # "now", ~stale, ~Lost(notices), task # "gap",
                      NEW p \in Observed
               PROVE  Settles(notices, batch, todo, Base'[p], disk[p], p)
    BY <1>2 DEF Settled
  <2>1. Settles(notices, batch, todo, Base[p], disk[p], p) /\ m[p] = disk[p]
    BY <1>1 DEF FilesInv, Settled, Agrees
  <2>2. CASE task = "compare"
    <3>1. Base' = Base
      BY <1>2, <2>2 DEF Base
    <3> QED BY <2>1, <3>1
  <2>3. CASE task # "compare"
    <3>1. Base'[p] = disk[p]
      BY <1>1, <1>2, <2>1, <2>3 DEF Base
    <3> QED BY <2>1, <3>1 DEF Settles
  <2> QED BY <2>2, <2>3
<1>7. Told'
  BY <1>1, <1>2 DEF FilesInv, Told
<1> QED BY <1>3, <1>4, <1>5, <1>6, <1>7 DEF FilesInv

\* At the start nothing is watched.
LEMMA NothingChanged ==
    Init => FilesInv
<1> SUFFICES ASSUME Init PROVE FilesInv
  OBVIOUS
<1>1. /\ disk \in Manifests /\ Captured \in Manifests /\ Empty \in Manifests
  BY DEF Init, Captured, Empty, Manifests, Content
<1>2. FilesTypes
  <2>1. <<>> \in Seq(Notification) /\ {} \in SUBSET DOMAIN <<>>
    OBVIOUS
  <2> QED BY <1>1, <2>1 DEF Init, FilesTypes, Content
<1>3. Begun /\ Retold
  BY DEF Init, Begun, Retold, Retells, Removed, Lost
<1>4. Settled /\ Told
  BY DEF Init, Settled, Told
<1> QED BY <1>2, <1>3, <1>4 DEF FilesInv

\* Every step keeps the invariant.
LEMMA FilesStep ==
    FilesInv /\ [Next]_vars => FilesInv'
<1> SUFFICES ASSUME FilesInv, [Next]_vars PROVE FilesInv'
  OBVIOUS
<1>1. ASSUME NEW p \in Paths, NEW c \in Contents, Write(p, c) PROVE FilesInv'
  BY <1>1, WriteKeeps
<1>2. ASSUME NEW p \in Paths, Delete(p) PROVE FilesInv'
  BY <1>2, DeleteKeeps
<1>3. ASSUME NEW p \in Paths, NEW q \in Paths, Rename(p, q) PROVE FilesInv'
  BY <1>3, RenameKeeps
<1>4. CASE MoveFolder
  BY <1>4, MoveFolderKeeps
<1>5. CASE Environment
  BY <1>1, <1>2, <1>3, <1>4, <1>5 DEF Environment
<1>6. CASE Watch
  BY <1>6, WatchKeeps
<1>7. CASE Drain
  BY <1>7, DrainKeeps
<1>8. CASE Scan \/ ScanFails \/ Compare
  BY <1>8, ScanKeeps, ScanFailsKeeps, CompareKeeps
<1>9. CASE Emit \/ EndBatch
  BY <1>9, EmitKeeps, EndBatchKeeps
<1>10. CASE CaptureBaseline \/ ReplaceManifest
  BY <1>10, CaptureBaselineKeeps, ReplaceManifestKeeps
<1>11. CASE UNCHANGED vars
  <2>1. UNCHANGED <<disk, notices, watching, batch, todo, task, scan, manifest, prepared, last,
                    owed, astray, stale>>
    BY <1>11 DEF vars, files, evidence
  <2>2. FilesTypes'
    BY <2>1 DEF FilesInv, FilesTypes
  <2>3. Begun' /\ Retold'
    BY <2>1 DEF FilesInv, Begun, Retold
  <2>4. Settled' /\ Told'
    BY <2>1 DEF FilesInv, Settled, Base, Told
  <2> QED BY <2>2, <2>3, <2>4 DEF FilesInv
<1> QED BY <1>5, <1>6, <1>7, <1>8, <1>9, <1>10, <1>11 DEF Next

\* With nothing left to record the manifest is settled as it is.
LEMMA InvCatchesUp ==
    FilesInv => CaughtUp
<1> SUFFICES ASSUME FilesInv, watching, task = "idle", notices = <<>>, astray # "now", ~stale,
                    NEW p \in Observed
             PROVE  /\ manifest[p] = disk[p]
                    /\ astray = "never" => last[p].kind = "none" \/ last[p].after = disk[p]
  BY DEF CaughtUp, AtRest
<1>1. todo = {} /\ ~Lost(notices) /\ Base = manifest
  BY DEF FilesInv, Begun, Lost, Base
<1>2. ~Removes(notices, batch, todo, p) /\ ~Writes(notices, batch, todo, p)
      /\ ~Puts(notices, batch, todo, p) /\ ~Names(notices, batch, todo, p)
  BY <1>1 DEF Removes, Writes, Puts, Names, Removed, Written, PutLast, Named
<1>3. Settles(notices, batch, todo, manifest[p], disk[p], p)
  BY <1>1 DEF FilesInv, Settled
<1> QED BY <1>2, <1>3 DEF Settles, FilesInv, Told

\* With nothing left to drain and nothing astray, the manifest of a project holds what its
\* files hold, after losses and refused events too, and without these the last event of a
\* path tells what it holds; for any files, contents and number of changes
\* (coordinator.rs:635-899).
THEOREM ManifestsCatchUp ==
    Spec => []CaughtUp
<1>1. Spec => []FilesInv
  BY NothingChanged, FilesStep, PTL DEF Spec
<1> QED BY <1>1, InvCatchesUp, PTL
-----------------------------------------------------------------------------
(* What is owed *)

LifeOf(q, S) == {i \in S : IsLifecycle(q[i])}

\* Of the notifications at positions T of b and then those of q, o has the lifecycle ones.
Ordered(o, b, T, q) ==
    /\ Len(o) = Cardinality(LifeOf(b, T)) + Cardinality(LifeOf(q, DOMAIN q))
    /\ \A i \in LifeOf(b, T) : o[Rank(LifeOf(b, T), i)] = b[i]
    /\ \A i \in LifeOf(q, DOMAIN q) :
         o[Cardinality(LifeOf(b, T)) + Rank(LifeOf(q, DOMAIN q), i)] = q[i]

\* The property says so of what is drained and what is notified.
LEMMA OrderedIs ==
    LifecycleOrdered <=> Ordered(owed, batch, todo, notices)
  BY DEF LifecycleOrdered, Ordered, LifeTodo, LifeNotices, LifeOf

\* The rank of a member is at most their number.
LEMMA Ranks ==
    ASSUME NEW n \in Nat, NEW S \in SUBSET (1..n)
    PROVE  /\ IsFiniteSet(S) /\ Cardinality(S) \in Nat
           /\ \A i \in S : Rank(S, i) \in 1..Cardinality(S)
<1>1. IsFiniteSet(1..n)
  BY FS_Interval
<1>2. IsFiniteSet(S) /\ Cardinality(S) \in Nat
  BY <1>1, FS_Subset, FS_CardinalityType
<1>3. ASSUME NEW i \in S PROVE Rank(S, i) \in 1..Cardinality(S)
  <2>1. PICK R \in SUBSET S : R = {j \in S : j <= i}
    OBVIOUS
  <2>2. IsFiniteSet(R) /\ Cardinality(R) \in Nat /\ Cardinality(R) <= Cardinality(S)
    BY <1>2, <2>1, FS_Subset, FS_CardinalityType
  <2>3. i \in R
    BY <2>1
  <2>4. Cardinality(R) # 0
    BY <2>2, <2>3, FS_EmptySet
  <2>5. Rank(S, i) = Cardinality(R)
    BY <2>1 DEF Rank
  <2> QED BY <1>2, <2>2, <2>4, <2>5
<1> QED BY <1>2, <1>3

\* A notification more is the last one owed, if it is owed at all.
LEMMA OneMoreOwed ==
    ASSUME NEW o \in Seq(Notification), NEW b \in Seq(Notification), NEW T \in SUBSET DOMAIN b,
           NEW q \in Seq(Notification), NEW n \in Notification, Ordered(o, b, T, q)
    PROVE  Ordered(Owe(o, n), b, T, Append(q, n))
<1>1. PICK r \in Seq(Notification) : r = Append(q, n)
  BY Appended
<1>2. /\ DOMAIN r = DOMAIN q \cup {Len(q) + 1} /\ r[Len(q) + 1] = n /\ Len(q) \in Nat
      /\ \A i \in DOMAIN q : r[i] = q[i] /\ i < Len(q) + 1 /\ i \in Nat
      /\ Len(r) \in Nat /\ DOMAIN r = 1..Len(r) /\ DOMAIN q = 1..Len(q)
  BY <1>1, Appended
<1>3. PICK B \in SUBSET T : B = LifeOf(b, T)
  BY DEF LifeOf
<1>4. PICK L \in SUBSET DOMAIN q : L = LifeOf(q, DOMAIN q)
  BY DEF LifeOf
<1>5. /\ IsFiniteSet(L)
      /\ \A i \in B : Rank(B, i) \in 1..Cardinality(B)
      /\ \A i \in L : Rank(L, i) \in 1..Cardinality(L)
  <2>1. Len(b) \in Nat /\ B \in SUBSET (1..Len(b))
    BY <1>3
  <2> QED BY <1>2, <1>4, <2>1, Ranks
<1>6. PICK c \in Nat, l \in Nat : c = Cardinality(B) /\ l = Cardinality(L)
  <2>1. Len(b) \in Nat /\ B \in SUBSET (1..Len(b))
    BY <1>3
  <2> QED BY <1>2, <1>4, <2>1, Ranks
<1>7. /\ Len(o) = c + l
      /\ \A i \in B : o[Rank(B, i)] = b[i]
      /\ \A i \in L : o[c + Rank(L, i)] = q[i]
  BY <1>3, <1>4, <1>6 DEF Ordered
<1>8. CASE ~IsLifecycle(n)
  <2>1. LifeOf(r, DOMAIN r) = L
    BY <1>2, <1>4, <1>8 DEF LifeOf
  <2>2. Owe(o, n) = o
    BY <1>8 DEF Owe
  <2>3. \A i \in L : r[i] = q[i]
    BY <1>2
  <2> QED BY <1>1, <1>3, <1>6, <1>7, <2>1, <2>2, <2>3 DEF Ordered
<1>9. CASE IsLifecycle(n)
  <2>1. PICK m \in Nat : m = Len(q) + 1
    BY <1>2
  <2>2. PICK M : M = L \cup {m}
    OBVIOUS
  <2>3. LifeOf(r, DOMAIN r) = M /\ m \notin L /\ r[m] = n
    BY <1>2, <1>4, <1>9, <2>1, <2>2 DEF LifeOf
  <2>4. Cardinality(M) = l + 1
    BY <1>5, <1>6, <2>2, <2>3, FS_AddElement
  <2>5. PICK p \in Seq(Notification) : p = Append(o, n) /\ Owe(o, n) = p
    BY <1>9, Owes DEF Owe
  <2>6. /\ Len(p) = c + l + 1 /\ p[c + l + 1] = n
        /\ \A k \in 1..(c + l) : p[k] = o[k]
    BY <1>6, <1>7, <2>5
  <2>7. \A i \in L : {j \in M : j <= i} = {j \in L : j <= i}
    BY <1>2, <2>1, <2>2
  <2>8. \A i \in L : Rank(M, i) = Rank(L, i)
    BY <2>7 DEF Rank
  <2>9. {j \in M : j <= m} = M
    BY <1>2, <2>1, <2>2
  <2>10. Rank(M, m) = l + 1
    BY <2>4, <2>9 DEF Rank
  <2>11. \A i \in B : p[Rank(B, i)] = b[i]
    <3> SUFFICES ASSUME NEW i \in B PROVE p[Rank(B, i)] = b[i]
      OBVIOUS
    <3>1. PICK k \in 1..c : k = Rank(B, i)
      BY <1>5, <1>6
    <3>2. k \in 1..(c + l)
      BY <1>6
    <3> QED BY <1>7, <2>6, <3>1, <3>2
  <2>12. \A i \in L : p[c + Rank(M, i)] = r[i]
    <3> SUFFICES ASSUME NEW i \in L PROVE p[c + Rank(M, i)] = r[i]
      OBVIOUS
    <3>1. PICK k \in 1..l : k = Rank(L, i)
      BY <1>5, <1>6
    <3>2. c + k \in 1..(c + l)
      BY <1>6
    <3>3. o[c + k] = q[i]
      BY <1>7, <3>1
    <3>4. p[c + k] = o[c + k]
      BY <2>6, <3>2
    <3> QED BY <1>2, <2>8, <3>1, <3>3, <3>4
  <2>13. p[c + Rank(M, m)] = r[m]
    BY <2>3, <2>6, <2>10
  <2>14. \A i \in M : p[c + Rank(M, i)] = r[i]
    BY <2>2, <2>12, <2>13
  <2>15. Len(p) = c + (l + 1)
    BY <2>6
  <2> QED BY <1>1, <1>3, <1>6, <2>3, <2>4, <2>5, <2>11, <2>14, <2>15 DEF Ordered
<1> QED BY <1>8, <1>9

\* The first element of a sequence, and the rest.
LEMMA Rest ==
    ASSUME NEW q \in Seq(Notification), Len(q) >= 1
    PROVE  /\ q # <<>> /\ Tail(q) \in Seq(Notification) /\ Len(Tail(q)) = Len(q) - 1
           /\ Head(q) = q[1]
           /\ \A k \in 1..(Len(q) - 1) : Tail(q)[k] = q[k + 1]
  OBVIOUS

\* Where the places of a sequence go when its first element is taken.
LEMMA Places ==
    \A c, l \in Nat : c >= 1 =>
        /\ \A k \in 1..(c - 1) : k \in 1..(c + l - 1)
        /\ \A k \in 1..l : c - 1 + k \in 1..(c + l - 1) /\ c - 1 + k + 1 = c + k
OBVIOUS

\* The oldest that is left is the first owed, if it is owed at all.
LEMMA OneLessOwed ==
    ASSUME NEW o \in Seq(Notification), NEW b \in Seq(Notification), NEW T \in SUBSET DOMAIN b,
           NEW q \in Seq(Notification), Ordered(o, b, T, q),
           NEW i \in T, \A j \in T : i <= j
    PROVE  Ordered(IF IsLifecycle(b[i]) /\ o # <<>> /\ b[i] = Head(o) THEN Tail(o) ELSE o,
                   b, T \ {i}, q)
<1>1. PICK B \in SUBSET T : B = LifeOf(b, T)
  BY DEF LifeOf
<1>2. PICK L \in SUBSET DOMAIN q : L = LifeOf(q, DOMAIN q)
  BY DEF LifeOf
<1>3. Len(b) \in Nat /\ T \in SUBSET (1..Len(b)) /\ Len(q) \in Nat /\ L \in SUBSET (1..Len(q))
  BY <1>2
<1>4. /\ IsFiniteSet(B)
      /\ \A j \in B : Rank(B, j) \in 1..Cardinality(B)
      /\ \A j \in L : Rank(L, j) \in 1..Cardinality(L)
  BY <1>1, <1>3, Ranks
<1>5. PICK c \in Nat, l \in Nat : c = Cardinality(B) /\ l = Cardinality(L)
  BY <1>1, <1>3, Ranks
<1>6. /\ Len(o) = c + l
      /\ \A j \in B : o[Rank(B, j)] = b[j]
      /\ \A j \in L : o[c + Rank(L, j)] = q[j]
  BY <1>1, <1>2, <1>5 DEF Ordered
<1>7. CASE ~IsLifecycle(b[i])
  <2>1. LifeOf(b, T \ {i}) = B
    BY <1>1, <1>7 DEF LifeOf
  <2> QED BY <1>2, <1>5, <1>6, <1>7, <2>1 DEF Ordered
<1>8. CASE IsLifecycle(b[i])
  <2>1. i \in B
    BY <1>1, <1>8 DEF LifeOf
  <2>2. {j \in B : j <= i} = {i}
    BY <1>1, <1>3, <2>1
  <2>3. Rank(B, i) = 1
    BY <2>2, FS_Singleton DEF Rank
  <2>4. c >= 1 /\ o[1] = b[i]
    BY <1>4, <1>5, <1>6, <2>1, <2>3
  <2>5. PICK p \in Seq(Notification) :
          /\ o # <<>> /\ p = Tail(o) /\ Len(p) = Len(o) - 1 /\ Head(o) = o[1]
          /\ \A k \in 1..(Len(o) - 1) : p[k] = o[k + 1]
    <3>1. Len(o) >= 1
      BY <1>5, <1>6, <2>4
    <3> QED BY <3>1, Rest
  <2>6. /\ o # <<>> /\ Head(o) = b[i] /\ Len(p) = c + l - 1
        /\ \A k \in 1..(c + l - 1) : p[k] = o[k + 1]
    BY <1>6, <2>4, <2>5
  <2>7. PICK C : C = B \ {i}
    OBVIOUS
  <2>8. LifeOf(b, T \ {i}) = C
    BY <1>1, <2>7 DEF LifeOf
  <2>9. Cardinality(C) = c - 1 /\ C \in SUBSET (1..Len(b))
    BY <1>1, <1>3, <1>4, <1>5, <2>1, <2>7, FS_RemoveElement
  <2>10. \A j \in C : Rank(C, j) \in 1..(c - 1)
    BY <1>3, <2>9, Ranks
  <2>11. ASSUME NEW j \in C PROVE Rank(B, j) = Rank(C, j) + 1
    <3>1. PICK R \in SUBSET C : R = {k \in C : k <= j}
      OBVIOUS
    <3>2. {k \in B : k <= j} = R \cup {i} /\ i \notin R
      BY <1>1, <1>3, <2>1, <2>7, <3>1
    <3>3. IsFiniteSet(R)
      BY <1>4, <2>7, FS_Subset
    <3>4. Cardinality(R \cup {i}) = Cardinality(R) + 1
      BY <3>2, <3>3, FS_AddElement
    <3> QED BY <3>1, <3>2, <3>4 DEF Rank
  <2>12. \A j \in C : p[Rank(C, j)] = b[j]
    <3> SUFFICES ASSUME NEW j \in C PROVE p[Rank(C, j)] = b[j]
      OBVIOUS
    <3>1. PICK k \in 1..(c - 1) : k = Rank(C, j)
      BY <2>10
    <3>2. k \in 1..(c + l - 1) /\ Rank(B, j) = k + 1
      <4>1. k \in 1..(c + l - 1)
        BY <2>4, Places, Zenon
      <4>2. Rank(B, j) = k + 1
        BY <2>11, <3>1, Zenon
      <4> QED BY <4>1, <4>2
    <3>3. o[k + 1] = b[j]
      BY <1>6, <2>7, <3>2
    <3> QED BY <2>6, <3>1, <3>2, <3>3
  <2>13. \A j \in L : p[c - 1 + Rank(L, j)] = q[j]
    <3> SUFFICES ASSUME NEW j \in L PROVE p[c - 1 + Rank(L, j)] = q[j]
      OBVIOUS
    <3>1. PICK k \in 1..l : k = Rank(L, j)
      BY <1>4, <1>5
    <3>2. c - 1 + k \in 1..(c + l - 1) /\ c - 1 + k + 1 = c + k
      BY <2>4, Places, Zenon
    <3>3. o[c + k] = q[j]
      BY <1>6, <3>1
    <3> QED BY <2>6, <3>1, <3>2, <3>3
  <2>14. Len(p) = (c - 1) + l
    BY <1>5, <2>6
  <2>15. Ordered(p, b, T \ {i}, q)
    BY <1>2, <1>5, <2>8, <2>9, <2>12, <2>13, <2>14 DEF Ordered
  <2> QED BY <1>8, <2>5, <2>6, <2>15
<1> QED BY <1>7, <1>8

\* Draining moves them all.
LEMMA DrainOwed ==
    ASSUME NEW o \in Seq(Notification), NEW b, NEW q \in Seq(Notification),
           Ordered(o, b, {}, q)
    PROVE  Ordered(o, q, Debounced(q), <<>>)
<1>1. LifeOf(q, Debounced(q)) = LifeOf(q, DOMAIN q)
  BY DEF LifeOf, Debounced, IsLifecycle
<1>2. LifeOf(b, {}) = {} /\ LifeOf(<<>>, DOMAIN <<>>) = {} /\ Cardinality({}) = 0
  BY FS_EmptySet DEF LifeOf
<1>3. PICK L \in SUBSET DOMAIN q : L = LifeOf(q, DOMAIN q)
  BY DEF LifeOf
<1>4. /\ Cardinality(L) \in Nat
      /\ \A i \in L : Rank(L, i) \in 1..Cardinality(L)
  <2>1. Len(q) \in Nat /\ L \in SUBSET (1..Len(q))
    OBVIOUS
  <2> QED BY <2>1, Ranks
<1>5. Len(o) = 0 + Cardinality(L) /\ \A i \in L : o[0 + Rank(L, i)] = q[i]
  BY <1>2, <1>3 DEF Ordered
<1>6. \A i \in L : o[Rank(L, i)] = q[i]
  <2> SUFFICES ASSUME NEW i \in L PROVE o[Rank(L, i)] = q[i]
    OBVIOUS
  <2>1. PICK k \in Nat : k = Rank(L, i)
    BY <1>4
  <2>2. 0 + k = k
    OBVIOUS
  <2> QED BY <1>5, <2>1, <2>2
<1>7. Len(o) = Cardinality(L) + 0
  BY <1>4, <1>5
<1> QED BY <1>1, <1>2, <1>3, <1>6, <1>7 DEF Ordered

\* A change is owed as it is told.
LEMMA NotifyOwed ==
    ASSUME FilesInv, LifecycleOrdered, UNCHANGED <<batch, todo>>, NEW told,
           \/ \E n \in Notification : told = <<n>>
           \/ \E m \in Notification, n \in Notification : told = <<m, n>>,
           Notify(told) \/ NotifyAstray(told)
    PROVE  LifecycleOrdered'
<1>1. /\ notices \in Seq(Notification) /\ owed \in Seq(Notification)
      /\ batch \in Seq(Notification) /\ todo \in SUBSET DOMAIN batch /\ FilesTypes
  BY DEF FilesInv, FilesTypes
<1>2. Ordered(owed, batch, todo, notices)
  BY OrderedIs
<1>3. Ordered(Owing(told), batch, todo, notices \o told)
  <2>1. CASE \E n \in Notification : told = <<n>>
    <3>1. PICK n \in Notification : told = <<n>>
      BY <2>1
    <3>2. Ordered(Owe(owed, n), batch, todo, Append(notices, n))
      BY <1>1, <1>2, OneMoreOwed
    <3> QED BY <1>1, <3>1, <3>2, Tells
  <2>2. CASE \E m \in Notification, n \in Notification : told = <<m, n>>
    <3>1. PICK m \in Notification, n \in Notification : told = <<m, n>>
      BY <2>2
    <3>2. PICK o \in Seq(Notification), q \in Seq(Notification) :
            o = Owe(owed, m) /\ q = Append(notices, m)
      BY <1>1, Owes, Appended
    <3>3. Ordered(o, batch, todo, q)
      BY <1>1, <1>2, <3>2, OneMoreOwed
    <3>4. Ordered(Owe(o, n), batch, todo, Append(q, n))
      BY <1>1, <3>3, OneMoreOwed
    <3> QED BY <1>1, <3>1, <3>2, <3>4, Tells
  <2> QED BY <2>1, <2>2
<1>4. Ordered(owed, batch, todo, Append(notices, Notice(Folder, "error")))
  <2>1. PICK n \in Notification : n = Notice(Folder, "error")
    BY DEF Notice, Notification, Kinds
  <2>2. Owe(owed, n) = owed
    BY <2>1 DEF Owe, IsLifecycle, Notice
  <2> QED BY <1>1, <1>2, <2>1, <2>2, OneMoreOwed
<1>5. \/ UNCHANGED <<notices, owed>>
      \/ notices' = notices \o told /\ owed' = Owing(told)
      \/ notices' = Append(notices, Notice(Folder, "error")) /\ UNCHANGED owed
  BY DEF Notify, NotifyAstray
<1>6. Ordered(owed', batch, todo, notices')
  BY <1>2, <1>3, <1>4, <1>5
<1>7. Ordered(owed', batch', todo', notices')
  BY <1>6
<1> QED BY <1>7 DEF LifecycleOrdered, Ordered, LifeTodo, LifeNotices, LifeOf

\* So is every change of the files.
LEMMA EnvironmentOwed ==
    ASSUME FilesInv, LifecycleOrdered, Environment
    PROVE  LifecycleOrdered'
<1>1. \A p \in Paths \cup {Folder}, kind \in Kinds : Notice(p, kind) \in Notification
  BY DEF Notice, Notification
<1>2. \A after : Change(after) => UNCHANGED <<batch, todo>>
  BY DEF Change
<1>3. ASSUME NEW p \in Paths, NEW c \in Contents, Write(p, c) PROVE LifecycleOrdered'
  <2>1. PICK m \in Notification, n \in Notification :
          m = Notice(p, "created") /\ n = Notice(p, "modified")
    BY <1>1 DEF Kinds
  <2>2. PICK told : told = IF disk[p] = Absent THEN <<m, n>> ELSE <<n>>
    OBVIOUS
  <2>3. UNCHANGED <<batch, todo>> /\ Notify(told)
    BY <1>2, <1>3, <2>1, <2>2 DEF Write
  <2> QED BY <2>2, <2>3, NotifyOwed
<1>4. ASSUME NEW p \in Paths, Delete(p) PROVE LifecycleOrdered'
  <2>1. PICK n \in Notification : n = Notice(p, "deleted")
    BY <1>1 DEF Kinds
  <2>2. UNCHANGED <<batch, todo>> /\ Notify(<<n>>)
    BY <1>2, <1>4, <2>1 DEF Delete
  <2> QED BY <2>2, NotifyOwed
<1>5. ASSUME NEW p \in Paths, NEW q \in Paths, Rename(p, q) PROVE LifecycleOrdered'
  <2>1. PICK m \in Notification, n \in Notification :
          m = Notice(p, "rename_from") /\ n = Notice(q, "rename_to")
    BY <1>1 DEF Kinds
  <2>2. PICK k \in Notification, l \in Notification :
          k = Notice(p, "rename") /\ l = Notice(q, "rename")
    BY <1>1 DEF Kinds
  <2>3. UNCHANGED <<batch, todo>> /\ (Notify(<<m, n>>) \/ NotifyAstray(<<k, l>>))
    BY <1>2, <1>5, <2>1, <2>2 DEF Rename
  <2>4. CASE Notify(<<m, n>>)
    BY <2>3, <2>4, NotifyOwed
  <2>5. CASE NotifyAstray(<<k, l>>)
    BY <2>3, <2>5, NotifyOwed
  <2> QED BY <2>3, <2>4, <2>5
<1>6. CASE MoveFolder
  <2>1. PICK n \in Notification : n = Notice(Folder, "rename_from")
    BY <1>1 DEF Kinds
  <2>2. UNCHANGED <<batch, todo>> /\ NotifyAstray(<<n>>)
    BY <1>2, <1>6, <2>1 DEF MoveFolder
  <2> QED BY <2>2, NotifyOwed
<1> QED BY <1>3, <1>4, <1>5, <1>6 DEF Environment

\* Every step keeps the order of what is owed.
LEMMA OwedStep ==
    FilesInv /\ LifecycleOrdered /\ [Next]_vars => LifecycleOrdered'
<1> SUFFICES ASSUME FilesInv, LifecycleOrdered, [Next]_vars PROVE LifecycleOrdered'
  OBVIOUS
<1>1. /\ notices \in Seq(Notification) /\ owed \in Seq(Notification)
      /\ batch \in Seq(Notification) /\ todo \in SUBSET DOMAIN batch
  BY DEF FilesInv, FilesTypes
<1>2. Ordered(owed, batch, todo, notices)
  BY OrderedIs
<1>3. Ordered(owed', batch', todo', notices') => LifecycleOrdered'
  BY DEF LifecycleOrdered, Ordered, LifeTodo, LifeNotices, LifeOf
<1>4. CASE Drain
  <2>1. /\ batch' = notices /\ todo' = Debounced(notices) /\ notices' = <<>> /\ owed' = owed
        /\ task = "idle"
    BY <1>4 DEF Drain, evidence
  <2>2. todo = {}
    BY <2>1 DEF FilesInv, Begun
  <2>3. Ordered(owed, notices, Debounced(notices), <<>>)
    BY <1>1, <1>2, <2>2, DrainOwed
  <2>4. Ordered(owed', batch', todo', notices')
    BY <2>1, <2>3
  <2> QED BY <1>3, <2>4
<1>5. CASE Emit
  <2>1. PICK i \in todo :
          /\ \A j \in todo : i <= j
          /\ todo' = todo \ {i}
          /\ owed' = IF IsLifecycle(batch[i]) /\ owed # <<>> /\ batch[i] = Head(owed)
                     THEN Tail(owed) ELSE owed
    BY <1>5 DEF Emit
  <2>2. UNCHANGED <<batch, notices>>
    BY <1>5 DEF Emit, files
  <2>4. Ordered(owed', batch, todo \ {i}, notices)
    BY <1>1, <1>2, <2>1, OneLessOwed
  <2>5. Ordered(owed', batch', todo', notices')
    BY <2>1, <2>2, <2>4
  <2> QED BY <1>3, <2>5
<1>6. CASE EndBatch
  <2>1. todo = {} /\ batch' = <<>> /\ UNCHANGED <<todo, notices, owed>>
    BY <1>6 DEF EndBatch, files, evidence
  <2>2. Ordered(owed, <<>>, {}, notices)
    BY <1>2, <2>1 DEF Ordered, LifeOf
  <2>3. Ordered(owed', batch', todo', notices')
    BY <2>1, <2>2
  <2> QED BY <1>3, <2>3
<1>7. CASE UNCHANGED <<notices, batch, todo, owed>>
  <2>1. Ordered(owed', batch', todo', notices')
    BY <1>2, <1>7
  <2> QED BY <1>3, <2>1
<1>8. CASE Watch \/ Scan \/ ScanFails \/ Compare
  BY <1>7, <1>8 DEF Watch, Scan, ScanFails, Compare, files, evidence
<1>9. CASE CaptureBaseline \/ ReplaceManifest \/ UNCHANGED vars
  BY <1>7, <1>9 DEF CaptureBaseline, ReplaceManifest, vars, files, evidence
<1>10. CASE Environment
  BY <1>10, EnvironmentOwed
<1> QED BY <1>4, <1>5, <1>6, <1>8, <1>9, <1>10 DEF Next

\* At the start nothing is owed.
LEMMA NothingOwed ==
    Init => LifecycleOrdered
<1> SUFFICES ASSUME Init PROVE LifecycleOrdered
  OBVIOUS
<1>1. LifeTodo = {} /\ LifeNotices = {} /\ Len(owed) = 0 /\ Cardinality({}) = 0
  BY FS_EmptySet DEF Init, LifeTodo, LifeNotices
<1> QED BY <1>1 DEF LifecycleOrdered

\* Creations, deletions and renames are sent to the pipeline one by one and in their order,
\* however the modifications between them are folded (watcher.rs:115-191).
THEOREM LifecycleIsOrdered ==
    Spec => []LifecycleOrdered
<1>1. Spec => []FilesInv
  BY NothingChanged, FilesStep, PTL DEF Spec
<1> QED BY <1>1, NothingOwed, OwedStep, PTL DEF Spec
-----------------------------------------------------------------------------
(* ProcessObserver: the inductive invariant *)

Process == [parent : Pids \cup {Outside, NoPid}, start : Nat]
Key == [pid : Pids, start : Nat]
Event == [session : Wrapped, key : Key, action : {"start", "exit"}]
Stages == {"idle", "roots", "recording roots", "delta", "recording delta"}

ProcessTypes ==
    /\ table \in [Pids -> Process] /\ known \in [Pids -> Process] /\ starts \in Nat
    /\ root \in [Wrapped -> Key \cup {NoRoot}] /\ descent \in [Wrapped -> SUBSET Key]
    /\ reused \in SUBSET Wrapped /\ active \in SUBSET Wrapped
    /\ registered \in [Wrapped -> Pids \cup {NoPid}] /\ polled \in [Wrapped -> Pids \cup {NoPid}]
    /\ delta \in [starts : SUBSET Key, exits : SUBSET Key]
    /\ rooted \in SUBSET (Wrapped \X Pids)
    /\ stage \in Stages
    /\ pending \in SUBSET Event /\ recordedOf \in SUBSET Event

\* A parent is there, and what is there was started.
WellFormed(t) ==
    \A q \in Pids :
        /\ t[q].start <= starts
        /\ t[q].parent \in Pids => t[t[q].parent] # NoProcess

Dated ==
    /\ WellFormed(table) /\ WellFormed(known)
    /\ \A s \in Wrapped : \A k \in descent[s] : k.start <= starts

\* The children of a descendant descend, too.
Inherited(t, s) ==
    \A q \in Pids :
        t[q].parent \in Pids /\ KeyOf(t[q].parent, t[t[q].parent]) \in descent[s] =>
            KeyOf(q, t[q]) \in descent[s]

\* Where its pid was not reused, what has the pid of the root is the root.
OnlyRoot(t, s) ==
    s \notin reused /\ root[s] # NoRoot =>
        (t[root[s].pid] # NoProcess => KeyOf(root[s].pid, t[root[s].pid]) = root[s])

Launching ==
    \A s \in Wrapped :
        /\ root[s] = NoRoot => descent[s] = {} /\ registered[s] = NoPid
        /\ root[s] # NoRoot => root[s] \in descent[s]
        /\ registered[s] # NoPid => registered[s] = root[s].pid

Descending ==
    \A s \in Wrapped :
        /\ Inherited(table, s) /\ Inherited(known, s)
        /\ OnlyRoot(table, s) /\ OnlyRoot(known, s)
        /\ s \notin reused /\ root[s] # NoRoot =>
            \A k \in delta.exits : k.pid = root[s].pid => k = root[s]

\* What an event that is recorded for a session may be.
OfSession(e) ==
    \/ e.session \in reused
    \/ e.key \in descent[e.session]
    \/ e.action = "exit" /\ \E k \in descent[e.session] : k.pid = e.key.pid

Attributed ==
    /\ \A e \in pending \cup recordedOf : OfSession(e)
    /\ delta.starts \subseteq Keys(known)
    /\ stage \in {"idle", "roots", "delta"} => pending = {}

\* Once a registered root is marked, its start is recorded, on its way, or among those that
\* the last poll has found.
Marked ==
    \A s \in active :
        /\ registered[s] = NoPid => \A p \in Pids : <<s, p>> \notin rooted
        /\ polled[s] # NoPid => polled[s] = registered[s]
        /\ stage # "roots" /\ polled[s] # NoPid => <<s, registered[s]>> \in rooted

Started(s) ==
    \/ ProcessEvent(s, root[s], "start") \in recordedOf \cup pending
    \/ <<s, registered[s]>> \notin rooted
    \/ root[s] \in delta.starts /\ stage \in {"roots", "recording roots", "delta"}

RootsStarted ==
    \A s \in active : registered[s] # NoPid /\ root[s] \in Keys(known) => Started(s)

ProcessInv ==
    ProcessTypes /\ Dated /\ Launching /\ Descending /\ Attributed /\ Marked /\ RootsStarted
-----------------------------------------------------------------------------
(* Processes *)

\* A process that is there and its key.
LEMMA KeysOf ==
    ASSUME NEW t \in [Pids -> Process]
    PROVE  /\ \A p \in Pids : KeyOf(p, t[p]) \in Key
           /\ Keys(t) = {k \in Key : t[k.pid] # NoProcess /\ k = KeyOf(k.pid, t[k.pid])}
<1>1. \A p \in Pids : KeyOf(p, t[p]) \in Key /\ KeyOf(p, t[p]).pid = p
  BY DEF KeyOf, Process, Key
<1>2. ASSUME NEW k \in Keys(t)
      PROVE  k \in Key /\ t[k.pid] # NoProcess /\ k = KeyOf(k.pid, t[k.pid])
  <2>1. PICK p \in Pids : t[p] # NoProcess /\ k = KeyOf(p, t[p])
    BY DEF Keys
  <2> QED BY <1>1, <2>1
<1>3. ASSUME NEW k \in Key, t[k.pid] # NoProcess, k = KeyOf(k.pid, t[k.pid])
      PROVE  k \in Keys(t)
  <2>1. k.pid \in Pids
    BY DEF Key
  <2> QED BY <1>3, <2>1 DEF Keys
<1> QED BY <1>1, <1>2, <1>3

\* A free pid is taken by a process that nobody has known and that has no child.
LEMMA Taken ==
    ASSUME ProcessInv, NEW p \in Pids, NEW parent \in Pids \cup {Outside}, Take(p, parent),
           parent \in Pids => table[parent] # NoProcess
    PROVE  /\ table' \in [Pids -> Process] /\ starts' \in Nat
           /\ starts' = starts + 1
           /\ table'[p] = [parent |-> parent, start |-> starts + 1]
           /\ \A q \in Pids : q # p => table'[q] = table[q] /\ table'[q].parent # p
           /\ KeyOf(p, table'[p]) \in Key
           /\ \A s \in Wrapped : KeyOf(p, table'[p]) \notin descent[s]
           /\ WellFormed(table)' /\ WellFormed(known)
           /\ \A q \in Pids : known[q].start <= starts + 1
<1>1. starts \in Nat /\ table \in [Pids -> Process] /\ known \in [Pids -> Process]
  BY DEF ProcessInv, ProcessTypes
<1>2. /\ starts' = starts + 1 /\ table[p] = NoProcess
      /\ table' = [table EXCEPT ![p] = [parent |-> parent, start |-> starts + 1]]
  BY DEF Take
<1>3. [parent |-> parent, start |-> starts + 1] \in Process
  BY <1>1 DEF Process
<1>4. table' \in [Pids -> Process] /\ table'[p] = [parent |-> parent, start |-> starts + 1]
      /\ \A q \in Pids : q # p => table'[q] = table[q]
  BY <1>1, <1>2, <1>3
<1>5. \A q \in Pids : q # p => table'[q].parent # p
  BY <1>2, <1>4 DEF ProcessInv, Dated, WellFormed
<1>6. KeyOf(p, table'[p]) = [pid |-> p, start |-> starts + 1]
  BY <1>4 DEF KeyOf
<1>7. \A s \in Wrapped : KeyOf(p, table'[p]) \notin descent[s]
  BY <1>1, <1>6 DEF ProcessInv, Dated
<1>8. \A q \in Pids : /\ table[q].start \in Nat /\ known[q].start \in Nat
                      /\ table[q].start <= starts /\ known[q].start <= starts
  BY <1>1 DEF ProcessInv, Dated, WellFormed, Process
<1>9. WellFormed(table)'
  <2> SUFFICES ASSUME NEW q \in Pids
               PROVE  /\ table'[q].start <= starts'
                      /\ table'[q].parent \in Pids => table'[table'[q].parent] # NoProcess
    BY DEF WellFormed
  <2>1. table'[p] # NoProcess
    BY <1>1, <1>4 DEF NoProcess
  <2>2. CASE q = p
    <3>1. parent \in Pids => table'[parent] # NoProcess
      BY <1>4, <2>1
    <3> QED BY <1>1, <1>2, <1>4, <2>2, <3>1
  <2>3. CASE q # p
    <3>1. table'[q] = table[q] /\ table[q].start <= starts + 1
      BY <1>1, <1>4, <1>8, <2>3
    <3>2. ASSUME table[q].parent \in Pids PROVE table'[table[q].parent] # NoProcess
      BY <1>4, <2>1, <3>2 DEF ProcessInv, Dated, WellFormed
    <3> QED BY <1>2, <3>1, <3>2
  <2> QED BY <2>2, <2>3
<1>10. \A q \in Pids : known[q].start <= starts + 1
  <2> SUFFICES ASSUME NEW q \in Pids PROVE known[q].start <= starts + 1
    OBVIOUS
  <2>1. known[q].start \in Nat /\ known[q].start <= starts
    BY <1>8
  <2> QED BY <1>1, <2>1
<1>11. KeyOf(p, table'[p]) \in Key
  BY <1>1, <1>6 DEF Key
<1>12. WellFormed(known)
  BY DEF ProcessInv, Dated
<1>13. starts' \in Nat
  BY <1>1, <1>2
<1> QED BY <1>2, <1>4, <1>5, <1>7, <1>9, <1>10, <1>11, <1>12, <1>13

\* What a new process changes, whoever starts it: descendants of those it descends from.
LEMMA Joined ==
    ASSUME ProcessInv, NEW p \in Pids, NEW parent \in Pids \cup {Outside}, Take(p, parent),
           parent \in Pids => table[parent] # NoProcess,
           known' = known,
           NEW s \in Wrapped, descent[s] \subseteq descent'[s],
           descent'[s] \subseteq descent[s] \cup {KeyOf(p, table'[p])},
           parent \in Pids /\ KeyOf(parent, table[parent]) \in descent[s] =>
               KeyOf(p, table'[p]) \in descent'[s]
    PROVE  /\ \A k \in descent'[s] : k.start <= starts'
           /\ Inherited(table, s)' /\ Inherited(known, s)'
<1>1. /\ table' \in [Pids -> Process] /\ starts' = starts + 1
      /\ table'[p] = [parent |-> parent, start |-> starts + 1]
      /\ \A q \in Pids : q # p => table'[q] = table[q] /\ table'[q].parent # p
      /\ KeyOf(p, table'[p]) \in Key
      /\ WellFormed(known)
  BY Taken
<1>2. /\ starts \in Nat /\ known \in [Pids -> Process] /\ table \in [Pids -> Process]
      /\ descent[s] \in SUBSET Key /\ Inherited(table, s) /\ Inherited(known, s)
      /\ WellFormed(table)
      /\ \A k \in descent[s] : k.start <= starts
  BY DEF ProcessInv, ProcessTypes, Dated, Descending
<1>3. PICK new \in Key : new = KeyOf(p, table'[p])
  BY <1>1
<1>4. new = [pid |-> p, start |-> starts + 1]
  BY <1>1, <1>3 DEF KeyOf
<1>5. new.start = starts + 1 /\ new.pid = p
  BY <1>4
<1>6. ASSUME NEW k \in descent'[s] PROVE k.start <= starts'
  <2>1. CASE k = new
    BY <1>1, <1>2, <1>5, <2>1
  <2>2. CASE k \in descent[s]
    <3>1. k.start \in Nat /\ k.start <= starts
      BY <1>2, <2>2 DEF Key
    <3> QED BY <1>1, <1>2, <3>1
  <2> QED BY <1>3, <2>1, <2>2
<1>7. ASSUME NEW q \in Pids, NEW t \in [Pids -> Process], t[q].start <= starts,
             KeyOf(q, t[q]) \in descent'[s]
      PROVE  KeyOf(q, t[q]) \in descent[s]
  <2>1. KeyOf(q, t[q]).start = t[q].start /\ t[q].start \in Nat
    BY DEF KeyOf, Process
  <2>2. KeyOf(q, t[q]) # new
    BY <1>2, <1>5, <1>7, <2>1
  <2> QED BY <1>3, <1>7, <2>2
<1>8. Inherited(known, s)'
  <2> SUFFICES ASSUME NEW q \in Pids, known[q].parent \in Pids,
                      KeyOf(known[q].parent, known[known[q].parent]) \in descent'[s]
               PROVE  KeyOf(q, known[q]) \in descent'[s]
    BY DEF Inherited
  <2>1. known[known[q].parent].start <= starts
    BY <1>1 DEF WellFormed
  <2>2. KeyOf(known[q].parent, known[known[q].parent]) \in descent[s]
    BY <1>2, <1>7, <2>1
  <2> QED BY <1>2, <2>2 DEF Inherited
<1>9. Inherited(table, s)'
  <2> SUFFICES ASSUME NEW q \in Pids, table'[q].parent \in Pids,
                      KeyOf(table'[q].parent, table'[table'[q].parent]) \in descent'[s]
               PROVE  KeyOf(q, table'[q]) \in descent'[s]
    BY DEF Inherited
  <2>1. PICK r \in Pids : r = table'[q].parent
    OBVIOUS
  <2>2. r # p /\ table'[r] = table[r]
    <3>1. CASE q = p
      <4>1. r = parent /\ table[r] # NoProcess
        BY <1>1, <2>1, <3>1
      <4>2. table[p] = NoProcess
        BY DEF Take
      <4> QED BY <1>1, <4>1, <4>2
    <3>2. CASE q # p
      BY <1>1, <2>1, <3>2
    <3> QED BY <3>1, <3>2
  <2>3. KeyOf(r, table[r]) \in descent[s]
    <3>1. table[r].start <= starts /\ KeyOf(r, table[r]) \in descent'[s]
      BY <1>2, <2>1, <2>2 DEF WellFormed
    <3> QED BY <1>2, <1>7, <3>1
  <2>4. CASE q = p
    <3>1. r = parent
      BY <1>1, <2>1, <2>4
    <3> QED BY <2>3, <2>4, <3>1
  <2>5. CASE q # p
    <3>1. table'[q] = table[q] /\ table[q].parent = r
      BY <1>1, <2>1, <2>5
    <3>2. KeyOf(q, table[q]) \in descent[s]
      BY <1>2, <2>3, <3>1 DEF Inherited
    <3> QED BY <3>1, <3>2
  <2> QED BY <2>4, <2>5
<1> QED BY <1>6, <1>8, <1>9

\* Events stay attributed while descendants are added.
LEMMA StaysOfSession ==
    ASSUME NEW e, OfSession(e), reused \subseteq reused',
           descent[e.session] \subseteq descent'[e.session]
    PROVE  OfSession(e)'
  BY DEF OfSession

\* A process that starts below another joins its descendants.
LEMMA StartKeeps ==
    ASSUME ProcessInv, NEW p \in Pids, NEW parent \in Pids \cup {Outside}, Start(p, parent)
    PROVE  ProcessInv'
<1>1. /\ Take(p, parent)
      /\ parent \in Pids => table[parent] # NoProcess
      /\ descent' = [s \in Wrapped |->
                       IF parent \in Pids /\ KeyOf(parent, table[parent]) \in descent[s]
                       THEN descent[s] \cup {KeyOf(p, table'[p])} ELSE descent[s]]
      /\ reused' = reused \cup {s \in Wrapped : root[s].pid = p}
      /\ UNCHANGED <<root, active, registered, known, delta, rooted, polled, stage, pending,
                     recordedOf>>
  BY PidsAssumption DEF Start, sessionsOf, taskOf
<1>2. /\ table' \in [Pids -> Process] /\ starts' \in Nat
      /\ \A q \in Pids : q # p => table'[q] = table[q]
      /\ KeyOf(p, table'[p]) \in Key
      /\ WellFormed(table)' /\ WellFormed(known)
      /\ \A q \in Pids : known[q].start <= starts + 1
      /\ starts' = starts + 1
  BY <1>1, Taken
<1>3. PICK new \in Key : new = KeyOf(p, table'[p])
  BY <1>2
<1>4. \A s \in Wrapped :
        /\ descent'[s] \in SUBSET Key
        /\ descent[s] \subseteq descent'[s] /\ descent'[s] \subseteq descent[s] \cup {new}
        /\ parent \in Pids /\ KeyOf(parent, table[parent]) \in descent[s] => new \in descent'[s]
        /\ descent[s] = {} => descent'[s] = {}
  BY <1>1, <1>3 DEF ProcessInv, ProcessTypes
<1>5. descent' \in [Wrapped -> SUBSET Key]
  BY <1>1, <1>3 DEF ProcessInv, ProcessTypes
<1>6. ProcessTypes'
  BY <1>1, <1>2, <1>5 DEF ProcessInv, ProcessTypes
<1>7. \A s \in Wrapped :
        /\ \A k \in descent'[s] : k.start <= starts'
        /\ Inherited(table, s)' /\ Inherited(known, s)'
  BY <1>1, <1>3, <1>4, Joined
<1>8. WellFormed(known)'
  BY <1>1, <1>2 DEF WellFormed
<1>9. Dated'
  BY <1>2, <1>7, <1>8 DEF Dated
<1>10. Launching'
  BY <1>1, <1>4 DEF ProcessInv, Launching
<1>11. Descending'
  <2> SUFFICES ASSUME NEW s \in Wrapped
               PROVE  /\ OnlyRoot(table, s)' /\ OnlyRoot(known, s)'
                      /\ s \notin reused' /\ root'[s] # NoRoot =>
                          \A k \in delta'.exits : k.pid = root'[s].pid => k = root'[s]
    BY <1>7 DEF Descending
  <2>1. /\ OnlyRoot(table, s) /\ OnlyRoot(known, s)
        /\ s \notin reused /\ root[s] # NoRoot =>
             \A k \in delta.exits : k.pid = root[s].pid => k = root[s]
    BY DEF ProcessInv, Descending
  <2>2. s \notin reused' => s \notin reused /\ root[s].pid # p
    BY <1>1
  <2>3. root[s] # NoRoot => root[s].pid \in Pids
    BY DEF ProcessInv, ProcessTypes, Key
  <2>4. OnlyRoot(table, s)'
    BY <1>1, <1>2, <2>1, <2>2, <2>3 DEF OnlyRoot
  <2> QED BY <1>1, <2>1, <2>2, <2>4 DEF OnlyRoot
<1>12. Attributed'
  <2>1. \A e \in pending \cup recordedOf : e.session \in Wrapped
    BY DEF ProcessInv, ProcessTypes, Event
  <2>2. \A e \in pending \cup recordedOf : OfSession(e)'
    BY <1>1, <1>4, <2>1, StaysOfSession DEF ProcessInv, Attributed
  <2> QED BY <1>1, <2>2 DEF ProcessInv, Attributed, Keys, KeyOf
<1>13. Marked'
  BY <1>1 DEF ProcessInv, Marked
<1>14. RootsStarted'
  <2>1. Keys(known)' = Keys(known) /\ \A s : Started(s)' = Started(s)
    BY <1>1 DEF Keys, KeyOf, Started
  <2> QED BY <1>1, <2>1 DEF ProcessInv, RootsStarted
<1> QED BY <1>6, <1>9, <1>10, <1>11, <1>12, <1>13, <1>14 DEF ProcessInv

\* Of the processes that are left, a child of the one that exits changes its parent only.
LEMMA Left ==
    ASSUME ProcessInv, NEW p \in Pids, Quit(p)
    PROVE  /\ table' \in [Pids -> Process] /\ table'[p] = NoProcess
           /\ \A q \in Pids : q # p =>
                /\ table'[q].start = table[q].start
                /\ table'[q] # NoProcess <=> table[q] # NoProcess
                /\ KeyOf(q, table'[q]) = KeyOf(q, table[q])
           /\ \A q \in Pids : table'[q].parent \in Pids =>
                q # p /\ table'[q].parent = table[q].parent /\ table[q].parent # p
<1>1. table \in [Pids -> Process] /\ Outside \notin Pids /\ NoPid \notin Pids /\ NoPid # Outside
  BY PidsAssumption DEF ProcessInv, ProcessTypes
<1>2. table' = [q \in Pids |-> IF q = p THEN NoProcess
                               ELSE IF table[q].parent # p THEN table[q]
                               ELSE [table[q] EXCEPT !.parent = Outside]]
  BY DEF Quit
<1>3. NoProcess \in Process /\ NoProcess.parent = NoPid
  BY DEF NoProcess, Process
<1>4. ASSUME NEW q \in Pids, q # p
      PROVE  /\ table'[q] \in Process /\ table'[q].start = table[q].start
             /\ table'[q] # NoProcess <=> table[q] # NoProcess
             /\ KeyOf(q, table'[q]) = KeyOf(q, table[q])
             /\ table'[q].parent \in Pids =>
                  table'[q].parent = table[q].parent /\ table[q].parent # p
  <2>1. CASE table[q].parent # p
    BY <1>1, <1>2, <1>4, <2>1
  <2>2. CASE table[q].parent = p
    <3>1. PICK n \in Nat : table[q] = [parent |-> p, start |-> n]
      BY <1>1, <2>2 DEF Process
    <3>2. table'[q] = [parent |-> Outside, start |-> n]
      BY <1>2, <1>4, <2>2, <3>1
    <3> QED BY <1>1, <1>3, <3>1, <3>2 DEF Process, KeyOf
  <2> QED BY <2>1, <2>2
<1>5. table'[p] = NoProcess
  BY <1>2
<1>6. table' \in [Pids -> Process]
  <2>1. \A q \in Pids : table'[q] \in Process
    BY <1>3, <1>4, <1>5
  <2> QED BY <1>2, <2>1
<1> QED BY <1>1, <1>3, <1>4, <1>5, <1>6

\* What is left by a process that exits descends as it did.
LEMMA QuitKeeps ==
    ASSUME ProcessInv, NEW p \in Pids, Quit(p)
    PROVE  ProcessInv'
<1>1. /\ table' \in [Pids -> Process] /\ table'[p] = NoProcess
      /\ \A q \in Pids : q # p =>
           /\ table'[q].start = table[q].start
           /\ table'[q] # NoProcess <=> table[q] # NoProcess
           /\ KeyOf(q, table'[q]) = KeyOf(q, table[q])
      /\ \A q \in Pids : table'[q].parent \in Pids =>
           q # p /\ table'[q].parent = table[q].parent /\ table[q].parent # p
  BY Left
<1>2. UNCHANGED <<starts, root, descent, reused, active, registered, known, delta, rooted, polled,
                  stage, pending, recordedOf>>
  BY DEF Quit, sessionsOf, taskOf
<1>3. ProcessTypes'
  BY <1>1, <1>2 DEF ProcessInv, ProcessTypes
<1>4. WellFormed(table)'
  <2>1. WellFormed(table) /\ starts \in Nat
    BY DEF ProcessInv, ProcessTypes, Dated
  <2>2. \A q \in Pids : table'[q].start <= starts
    <3>1. table'[p].start = 0
      BY <1>1 DEF NoProcess
    <3> QED BY <1>1, <2>1, <3>1 DEF WellFormed
  <2>3. \A q \in Pids : table'[q].parent \in Pids => table'[table'[q].parent] # NoProcess
    BY <1>1, <2>1 DEF WellFormed
  <2> QED BY <1>2, <2>2, <2>3 DEF WellFormed
<1>5. Dated'
  BY <1>2, <1>4 DEF ProcessInv, Dated, WellFormed
<1>6. Launching'
  BY <1>2 DEF ProcessInv, Launching
<1>7. Descending'
  <2> SUFFICES ASSUME NEW s \in Wrapped
               PROVE  Inherited(table, s)' /\ OnlyRoot(table, s)'
    BY <1>2 DEF ProcessInv, Descending, Inherited, OnlyRoot
  <2>1. Inherited(table, s) /\ OnlyRoot(table, s)
    BY DEF ProcessInv, Descending
  <2>2. root[s] # NoRoot => root[s].pid \in Pids
    BY DEF ProcessInv, ProcessTypes, Key
  <2>3. Inherited(table, s)'
    <3> SUFFICES ASSUME NEW q \in Pids, table'[q].parent \in Pids,
                        KeyOf(table'[q].parent, table'[table'[q].parent]) \in descent[s]
                 PROVE  KeyOf(q, table'[q]) \in descent[s]
      BY <1>2 DEF Inherited
    <3>1. q # p /\ table'[q].parent = table[q].parent /\ table[q].parent # p
      BY <1>1
    <3>2. KeyOf(table[q].parent, table[table[q].parent]) \in descent[s]
      BY <1>1, <3>1
    <3>3. KeyOf(q, table[q]) \in descent[s]
      BY <2>1, <3>1, <3>2 DEF Inherited
    <3> QED BY <1>1, <3>1, <3>3
  <2>4. OnlyRoot(table, s)'
    BY <1>1, <1>2, <2>1, <2>2 DEF OnlyRoot
  <2> QED BY <2>3, <2>4
<1>8. Attributed'
  BY <1>2 DEF ProcessInv, Attributed, OfSession, Keys, KeyOf
<1>9. Marked'
  BY <1>2 DEF ProcessInv, Marked
<1>10. RootsStarted'
  <2>1. Keys(known)' = Keys(known)
    BY <1>2 DEF Keys, KeyOf
  <2> QED BY <1>2, <2>1 DEF ProcessInv, RootsStarted, Started, ProcessEvent
<1> QED BY <1>3, <1>5, <1>6, <1>7, <1>8, <1>9, <1>10 DEF ProcessInv

\* The root of a session descends from itself.
LEMMA LaunchKeeps ==
    ASSUME ProcessInv, NEW s \in Wrapped, NEW p \in Pids, Launch(s, p)
    PROVE  ProcessInv'
<1>1. /\ Take(p, Outside) /\ Outside \notin Pids /\ NoPid \notin Pids
      /\ s \in active /\ root[s] = NoRoot
      /\ root' = [root EXCEPT ![s] = KeyOf(p, table'[p])]
      /\ descent' = [descent EXCEPT ![s] = {KeyOf(p, table'[p])}]
      /\ reused' = reused \cup {t \in Wrapped : root[t].pid = p}
                     \cup {t \in {s} : \E k \in Keys(known) \cup delta.exits : k.pid = p}
      /\ UNCHANGED <<active, registered, known, delta, rooted, polled, stage, pending,
                     recordedOf>>
  BY PidsAssumption DEF Launch, sessionsOf, taskOf
<1>2. /\ table' \in [Pids -> Process] /\ starts' \in Nat
      /\ \A q \in Pids : q # p => table'[q] = table[q]
      /\ KeyOf(p, table'[p]) \in Key
      /\ WellFormed(table)' /\ WellFormed(known)
      /\ \A q \in Pids : known[q].start <= starts + 1
      /\ starts' = starts + 1
  BY <1>1, Taken
<1>3. PICK new \in Key : new = KeyOf(p, table'[p])
  BY <1>2
<1>4. new.pid = p /\ new # NoRoot
  BY <1>1, <1>3 DEF KeyOf, NoRoot
<1>5. descent[s] = {} /\ registered[s] = NoPid
  BY <1>1 DEF ProcessInv, Launching
<1>6. /\ root \in [Wrapped -> Key \cup {NoRoot}] /\ descent \in [Wrapped -> SUBSET Key]
      /\ known \in [Pids -> Process]
  BY DEF ProcessInv, ProcessTypes
<1>7. /\ root' \in [Wrapped -> Key \cup {NoRoot}] /\ descent' \in [Wrapped -> SUBSET Key]
      /\ root'[s] = new /\ descent'[s] = {new}
      /\ \A t \in Wrapped : t # s => root'[t] = root[t] /\ descent'[t] = descent[t]
  BY <1>1, <1>3, <1>6
<1>8. \A t \in Wrapped :
        descent[t] \subseteq descent'[t] /\ descent'[t] \subseteq descent[t] \cup {new}
  BY <1>5, <1>7
<1>9. ProcessTypes'
  BY <1>1, <1>2, <1>7 DEF ProcessInv, ProcessTypes
<1>10. \A t \in Wrapped :
         /\ \A k \in descent'[t] : k.start <= starts'
         /\ Inherited(table, t)' /\ Inherited(known, t)'
  BY <1>1, <1>3, <1>8, Joined
<1>11. Dated'
  <2>1. WellFormed(known)'
    BY <1>1, <1>2 DEF WellFormed
  <2> QED BY <1>2, <1>10, <2>1 DEF Dated
<1>12. Launching'
  <2> SUFFICES ASSUME NEW t \in Wrapped
               PROVE  /\ root'[t] = NoRoot => descent'[t] = {} /\ registered[t] = NoPid
                      /\ root'[t] # NoRoot => root'[t] \in descent'[t]
                      /\ registered[t] # NoPid => registered[t] = root'[t].pid
    BY <1>1 DEF Launching
  <2>1. CASE t = s
    BY <1>4, <1>5, <1>7, <2>1
  <2>2. CASE t # s
    BY <1>7, <2>2 DEF ProcessInv, Launching
  <2> QED BY <2>1, <2>2
<1>13. Descending'
  <2> SUFFICES ASSUME NEW t \in Wrapped
               PROVE  /\ OnlyRoot(table, t)' /\ OnlyRoot(known, t)'
                      /\ t \notin reused' /\ root'[t] # NoRoot =>
                          \A k \in delta.exits : k.pid = root'[t].pid => k = root'[t]
    BY <1>1, <1>10 DEF Descending
  <2>1. CASE t = s
    <3>1. OnlyRoot(table, s)'
      BY <1>3, <1>4, <1>7 DEF OnlyRoot
    <3>2. s \notin reused' => \A k \in Keys(known) \cup delta.exits : k.pid # p
      BY <1>1
    <3>3. known[p] # NoProcess => KeyOf(p, known[p]) \in Keys(known)
      BY DEF Keys
    <3>4. KeyOf(p, known[p]).pid = p
      BY DEF KeyOf
    <3>5. OnlyRoot(known, s)'
      BY <1>1, <1>4, <1>7, <3>2, <3>3, <3>4 DEF OnlyRoot
    <3> QED BY <1>4, <1>7, <2>1, <3>1, <3>2, <3>5
  <2>2. CASE t # s
    <3>1. /\ OnlyRoot(table, t) /\ OnlyRoot(known, t)
          /\ t \notin reused /\ root[t] # NoRoot =>
               \A k \in delta.exits : k.pid = root[t].pid => k = root[t]
      BY DEF ProcessInv, Descending
    <3>2. t \notin reused' => t \notin reused /\ root[t].pid # p
      BY <1>1
    <3>3. root[t] # NoRoot => root[t].pid \in Pids
      BY <1>6 DEF Key
    <3>4. OnlyRoot(table, t)'
      BY <1>2, <1>7, <2>2, <3>1, <3>2, <3>3 DEF OnlyRoot
    <3>5. OnlyRoot(known, t)'
      BY <1>1, <1>7, <2>2, <3>1, <3>2 DEF OnlyRoot
    <3> QED BY <1>7, <2>2, <3>1, <3>2, <3>4, <3>5
  <2> QED BY <2>1, <2>2
<1>14. Attributed'
  <2>1. \A e \in pending \cup recordedOf : e.session \in Wrapped
    BY DEF ProcessInv, ProcessTypes, Event
  <2>2. \A e \in pending \cup recordedOf : OfSession(e)'
    BY <1>1, <1>8, <2>1, StaysOfSession DEF ProcessInv, Attributed
  <2> QED BY <1>1, <2>2 DEF ProcessInv, Attributed, Keys, KeyOf
<1>15. Marked'
  BY <1>1 DEF ProcessInv, Marked
<1>16. RootsStarted'
  <2> SUFFICES ASSUME NEW t \in active, registered[t] # NoPid, root'[t] \in Keys(known)
               PROVE  Started(t)'
    BY <1>1 DEF RootsStarted, Keys, KeyOf
  <2>1. t # s /\ t \in Wrapped
    BY <1>5 DEF ProcessInv, ProcessTypes
  <2>2. root'[t] = root[t]
    BY <1>7, <2>1
  <2> QED BY <1>1, <2>2 DEF ProcessInv, RootsStarted, Started
<1> QED BY <1>9, <1>11, <1>12, <1>13, <1>14, <1>15, <1>16 DEF ProcessInv

\* A root that is registered is not marked yet.
LEMMA RegisterKeeps ==
    ASSUME ProcessInv, NEW s \in Wrapped, Register(s)
    PROVE  ProcessInv'
<1>1. /\ s \in active /\ root[s] # NoRoot /\ registered[s] = NoPid
      /\ registered' = [registered EXCEPT ![s] = root[s].pid]
      /\ UNCHANGED <<table, starts, root, descent, reused, active, known, delta, rooted, polled,
                     stage, pending, recordedOf>>
  BY DEF Register, processes, taskOf
<1>2. root[s] \in Key /\ root[s].pid \in Pids /\ NoPid \notin Pids
  BY <1>1, PidsAssumption DEF ProcessInv, ProcessTypes, Key
<1>3. /\ registered' \in [Wrapped -> Pids \cup {NoPid}] /\ registered'[s] = root[s].pid
      /\ \A t \in Wrapped : t # s => registered'[t] = registered[t]
  BY <1>1, <1>2 DEF ProcessInv, ProcessTypes
<1>4. ProcessTypes'
  BY <1>1, <1>3 DEF ProcessInv, ProcessTypes
<1>5. Dated' /\ Descending' /\ Attributed'
  BY <1>1 DEF ProcessInv, Dated, WellFormed, Descending, Inherited, OnlyRoot, Attributed,
    OfSession, Keys, KeyOf
<1>6. Launching'
  BY <1>1, <1>3 DEF ProcessInv, Launching
<1>7. polled[s] = NoPid /\ <<s, root[s].pid>> \notin rooted
  BY <1>1, <1>2 DEF ProcessInv, Marked
<1>8. Marked'
  <2> SUFFICES ASSUME NEW t \in active
               PROVE  /\ registered'[t] = NoPid => \A p \in Pids : <<t, p>> \notin rooted
                      /\ polled[t] # NoPid => polled[t] = registered'[t]
                      /\ stage # "roots" /\ polled[t] # NoPid => <<t, registered'[t]>> \in rooted
    BY <1>1 DEF Marked
  <2>1. t \in Wrapped
    BY DEF ProcessInv, ProcessTypes
  <2>2. CASE t = s
    BY <1>2, <1>3, <1>7, <2>2
  <2>3. CASE t # s
    BY <1>3, <2>1, <2>3 DEF ProcessInv, Marked
  <2> QED BY <2>2, <2>3
<1>9. RootsStarted'
  <2> SUFFICES ASSUME NEW t \in active, registered'[t] # NoPid, root[t] \in Keys(known)
               PROVE  Started(t)'
    BY <1>1 DEF RootsStarted, Keys, KeyOf
  <2>1. t \in Wrapped
    BY DEF ProcessInv, ProcessTypes
  <2>2. CASE t = s
    BY <1>1, <1>3, <1>7, <2>2 DEF Started
  <2>3. CASE t # s
    BY <1>1, <1>3, <2>1, <2>3 DEF ProcessInv, RootsStarted, Started, ProcessEvent
  <2> QED BY <2>2, <2>3
<1> QED BY <1>4, <1>5, <1>6, <1>8, <1>9 DEF ProcessInv

\* A session that completes has no root any more.
LEMMA CompleteSessionKeeps ==
    ASSUME ProcessInv, NEW s \in Wrapped, CompleteSession(s)
    PROVE  ProcessInv'
<1>1. /\ active' = active \ {s}
      /\ registered' = [registered EXCEPT ![s] = NoPid]
      /\ UNCHANGED <<table, starts, root, descent, reused, known, delta, rooted, polled,
                     stage, pending, recordedOf>>
  BY DEF CompleteSession, processes, taskOf
<1>2. /\ registered' \in [Wrapped -> Pids \cup {NoPid}] /\ registered'[s] = NoPid
      /\ \A t \in Wrapped : t # s => registered'[t] = registered[t]
  BY <1>1 DEF ProcessInv, ProcessTypes
<1>3. ProcessTypes'
  BY <1>1, <1>2 DEF ProcessInv, ProcessTypes
<1>4. Dated' /\ Descending' /\ Attributed'
  BY <1>1 DEF ProcessInv, Dated, WellFormed, Descending, Inherited, OnlyRoot, Attributed,
    OfSession, Keys, KeyOf
<1>5. Launching'
  BY <1>1, <1>2 DEF ProcessInv, Launching
<1>6. \A t \in active' : t \in active /\ registered'[t] = registered[t]
  BY <1>1, <1>2 DEF ProcessInv, ProcessTypes
<1>7. Marked'
  BY <1>1, <1>6 DEF ProcessInv, Marked
<1>8. RootsStarted'
  <2> SUFFICES ASSUME NEW t \in active, registered[t] # NoPid, registered'[t] = registered[t],
                      root[t] \in Keys(known)
               PROVE  Started(t)'
    BY <1>1, <1>6 DEF RootsStarted, Keys, KeyOf
  <2>1. Started(t)
    BY DEF ProcessInv, RootsStarted
  <2>2. UNCHANGED <<root, recordedOf, pending, rooted, delta, stage>>
    BY <1>1
  <2> QED BY <2>1, <2>2 DEF Started, ProcessEvent
<1> QED BY <1>3, <1>4, <1>5, <1>7, <1>8 DEF ProcessInv
-----------------------------------------------------------------------------
(* The task *)

\* A root that a poll finds was known before, or is among its starts.
LEMMA PollKeeps ==
    ASSUME ProcessInv, Poll
    PROVE  ProcessInv'
<1>1. /\ stage = "idle" /\ stage' = "roots"
      /\ known' = table
      /\ delta' = [starts |-> Keys(table) \ Keys(known), exits |-> Keys(known) \ Keys(table)]
      /\ polled' = registered
      /\ UNCHANGED <<table, starts, root, descent, reused, active, registered, rooted, pending,
                     recordedOf>>
  BY DEF Poll, Unknown, processes, sessionsOf
<1>2. table \in [Pids -> Process] /\ known \in [Pids -> Process]
  BY DEF ProcessInv, ProcessTypes
<1>3. /\ Keys(table) \subseteq Key /\ Keys(known) \subseteq Key
      /\ \A k \in Keys(known) : known[k.pid] # NoProcess /\ k = KeyOf(k.pid, known[k.pid])
  BY <1>2, KeysOf
<1>4. /\ delta'.starts = Keys(table) \ Keys(known) /\ delta'.exits = Keys(known) \ Keys(table)
      /\ delta' \in [starts : SUBSET Key, exits : SUBSET Key]
  BY <1>1, <1>3
<1>5. ProcessTypes'
  BY <1>1, <1>4 DEF ProcessInv, ProcessTypes, Stages
<1>6. Dated'
  BY <1>1 DEF ProcessInv, Dated, WellFormed
<1>7. Launching'
  BY <1>1 DEF ProcessInv, Launching
<1>8. Descending'
  <2> SUFFICES ASSUME NEW s \in Wrapped
               PROVE  /\ Inherited(table, s)' /\ Inherited(known, s)'
                      /\ OnlyRoot(table, s)' /\ OnlyRoot(known, s)'
                      /\ s \notin reused /\ root[s] # NoRoot =>
                          \A k \in delta'.exits : k.pid = root[s].pid => k = root[s]
    BY <1>1 DEF Descending
  <2>1. Inherited(table, s) /\ OnlyRoot(table, s) /\ OnlyRoot(known, s)
    BY DEF ProcessInv, Descending
  <2>2. Inherited(table, s)' /\ Inherited(known, s)'
    BY <1>1, <2>1 DEF Inherited
  <2>3. OnlyRoot(table, s)' /\ OnlyRoot(known, s)'
    BY <1>1, <2>1 DEF OnlyRoot
  <2>4. ASSUME s \notin reused, root[s] # NoRoot, NEW k \in delta'.exits, k.pid = root[s].pid
        PROVE  k = root[s]
    BY <1>3, <1>4, <2>1, <2>4 DEF OnlyRoot
  <2> QED BY <2>2, <2>3, <2>4
<1>9. Attributed'
  <2>1. Keys(known)' = Keys(table)
    BY <1>1 DEF Keys, KeyOf
  <2>2. pending = {}
    BY <1>1 DEF ProcessInv, Attributed
  <2> QED BY <1>1, <1>4, <2>1, <2>2 DEF ProcessInv, Attributed, OfSession
<1>10. Marked'
  BY <1>1 DEF ProcessInv, Marked
<1>11. RootsStarted'
  <2> SUFFICES ASSUME NEW s \in active, registered[s] # NoPid, root[s] \in Keys(table)
               PROVE  Started(s)'
    BY <1>1 DEF RootsStarted, Keys, KeyOf
  <2>1. CASE root[s] \in Keys(known)
    <3>1. Started(s)
      BY <2>1 DEF ProcessInv, RootsStarted
    <3> QED BY <1>1, <3>1 DEF Started
  <2>2. CASE root[s] \notin Keys(known)
    BY <1>1, <1>4, <2>2 DEF Started
  <2> QED BY <2>1, <2>2
<1> QED BY <1>5, <1>6, <1>7, <1>8, <1>9, <1>10, <1>11 DEF ProcessInv

\* A registered root has the pid of its session's, and it descends from itself.
LEMMA RegisteredRoot ==
    ASSUME ProcessInv, NEW s \in Wrapped, registered[s] # NoPid
    PROVE  /\ registered[s] \in Pids /\ registered[s] = root[s].pid
           /\ root[s] # NoRoot /\ root[s] \in descent[s]
           /\ s \notin reused /\ known[registered[s]] # NoProcess =>
                KeyOf(registered[s], known[registered[s]]) = root[s]
           /\ root[s] \in Keys(known) =>
                /\ known[registered[s]] # NoProcess
                /\ KeyOf(registered[s], known[registered[s]]) = root[s]
<1>1. known \in [Pids -> Process] /\ registered[s] \in Pids
  BY DEF ProcessInv, ProcessTypes
<1>2. registered[s] = root[s].pid /\ root[s] # NoRoot /\ root[s] \in descent[s]
  BY DEF ProcessInv, Launching
<1>3. OnlyRoot(known, s)
  BY DEF ProcessInv, Descending
<1>4. root[s] \in Keys(known) =>
        known[root[s].pid] # NoProcess /\ root[s] = KeyOf(root[s].pid, known[root[s].pid])
  BY <1>1, KeysOf
<1> QED BY <1>1, <1>2, <1>3, <1>4 DEF OnlyRoot

\* The start of a root that is marked is recorded, or a poll has yet to find it.
LEMMA RootStartsKeeps ==
    ASSUME ProcessInv, RootStarts
    PROVE  ProcessInv'
<1> DEFINE due == {s \in Wrapped : registered[s] # NoPid /\ <<s, registered[s]>> \notin rooted}
<1>1. /\ stage = "roots" /\ stage' = "recording roots"
      /\ rooted' = rooted \cup {<<s, registered[s]>> : s \in due}
      /\ pending' = {ProcessEvent(s, KeyOf(registered[s], known[registered[s]]), "start") :
                       s \in {t \in due : known[registered[t]] # NoProcess}}
      /\ UNCHANGED <<table, starts, root, descent, reused, active, registered, known, delta,
                     polled, recordedOf>>
  BY DEF RootStarts, processes, sessionsOf
<1>2. known \in [Pids -> Process] /\ pending = {}
  BY <1>1 DEF ProcessInv, ProcessTypes, Attributed
<1>3. \A s \in due : registered[s] \in Pids /\ KeyOf(registered[s], known[registered[s]]) \in Key
  BY <1>2, KeysOf, RegisteredRoot
<1>4. \A e \in pending' : e \in Event /\ OfSession(e)'
  <2> SUFFICES ASSUME NEW s \in due, known[registered[s]] # NoProcess,
                      NEW e,
                      e = ProcessEvent(s, KeyOf(registered[s], known[registered[s]]), "start")
               PROVE  e \in Event /\ (e.session \in reused \/ e.key \in descent[e.session])
    BY <1>1 DEF OfSession
  <2>1. s \in Wrapped /\ registered[s] # NoPid
    OBVIOUS
  <2>2. e.session = s /\ e.key = KeyOf(registered[s], known[registered[s]]) /\ e \in Event
    BY <1>3 DEF ProcessEvent, Event
  <2>3. /\ root[s] \in descent[s]
        /\ s \notin reused => KeyOf(registered[s], known[registered[s]]) = root[s]
    BY <2>1, RegisteredRoot
  <2> QED BY <2>2, <2>3
<1>5. ProcessTypes'
  <2>1. rooted' \subseteq Wrapped \X Pids
    <3>1. \A s \in due : s \in Wrapped /\ <<s, registered[s]>> \in Wrapped \X Pids
      BY <1>3
    <3>2. rooted \subseteq Wrapped \X Pids
      BY DEF ProcessInv, ProcessTypes
    <3> HIDE DEF due
    <3> QED BY <1>1, <3>1, <3>2
  <2> QED BY <1>1, <1>4, <2>1 DEF ProcessInv, ProcessTypes, Stages
<1>6. Dated' /\ Launching'
  BY <1>1 DEF ProcessInv, Dated, WellFormed, Launching
<1>7. Descending'
  BY <1>1 DEF ProcessInv, Descending, Inherited, OnlyRoot
<1>8. Attributed'
  <2>1. \A e \in recordedOf : OfSession(e)'
    BY <1>1 DEF ProcessInv, Attributed, OfSession
  <2> QED BY <1>1, <1>4, <2>1 DEF ProcessInv, Attributed, Keys, KeyOf
<1>9. Marked'
  <2> SUFFICES ASSUME NEW s \in active
               PROVE  /\ registered[s] = NoPid => \A p \in Pids : <<s, p>> \notin rooted'
                      /\ polled[s] # NoPid => polled[s] = registered[s]
                      /\ polled[s] # NoPid => <<s, registered[s]>> \in rooted'
    BY <1>1 DEF Marked
  <2>1. s \in Wrapped
    BY DEF ProcessInv, ProcessTypes
  <2>2. /\ registered[s] = NoPid => \A p \in Pids : <<s, p>> \notin rooted
        /\ polled[s] # NoPid => polled[s] = registered[s]
    BY DEF ProcessInv, Marked
  <2>3. registered[s] = NoPid => \A p \in Pids : <<s, p>> \notin rooted'
    BY <1>1, <2>2
  <2>4. registered[s] # NoPid => <<s, registered[s]>> \in rooted'
    BY <1>1, <2>1
  <2> QED BY <2>2, <2>3, <2>4
<1>10. RootsStarted'
  <2> SUFFICES ASSUME NEW s \in active, registered[s] # NoPid, root[s] \in Keys(known)
               PROVE  Started(s)'
    BY <1>1 DEF RootsStarted, Keys, KeyOf
  <2>1. s \in Wrapped /\ Started(s)
    BY DEF ProcessInv, ProcessTypes, RootsStarted
  <2>2. CASE <<s, registered[s]>> \notin rooted
    <3>1. /\ known[registered[s]] # NoProcess
          /\ KeyOf(registered[s], known[registered[s]]) = root[s]
      BY <2>1, RegisteredRoot
    <3>2. ProcessEvent(s, root[s], "start") \in pending'
      BY <1>1, <2>1, <2>2, <3>1
    <3> QED BY <1>1, <3>2 DEF Started
  <2>3. CASE ProcessEvent(s, root[s], "start") \in recordedOf
    BY <1>1, <2>3 DEF Started
  <2>4. CASE root[s] \in delta.starts
    BY <1>1, <2>4 DEF Started
  <2> QED BY <1>2, <2>1, <2>2, <2>3, <2>4 DEF Started
<1> QED BY <1>5, <1>6, <1>7, <1>8, <1>9, <1>10 DEF ProcessInv

\* Where the pid of the root was not reused, a known process whose parents lead up to the
\* root descends from it.
LEMMA LeadsUp ==
    ASSUME ProcessInv, NEW s \in Wrapped, registered[s] # NoPid, s \notin reused,
           NEW p \in Pids, IsDescendant(registered[s], p)
    PROVE  /\ \E k \in descent[s] : k.pid = p
           /\ known[p] # NoProcess => KeyOf(p, known[p]) \in descent[s]
<1>1. /\ registered[s] \in Pids /\ registered[s] = root[s].pid /\ root[s] \in descent[s]
      /\ known[registered[s]] # NoProcess =>
           KeyOf(registered[s], known[registered[s]]) = root[s]
  BY RegisteredRoot
<1>2. PICK S \in SUBSET Pids :
        S = {q \in Pids : \/ q = registered[s]
                          \/ known[q] # NoProcess /\ KeyOf(q, known[q]) \in descent[s]}
  OBVIOUS
<1>3. ASSUME NEW q \in Pids, known[q].parent \in S PROVE q \in S
  <2>1. known[q].parent \in Pids /\ known[known[q].parent] # NoProcess
    BY <1>3 DEF ProcessInv, Dated, WellFormed
  <2>2. KeyOf(known[q].parent, known[known[q].parent]) \in descent[s]
    BY <1>1, <1>2, <1>3, <2>1
  <2>3. KeyOf(q, known[q]) \in descent[s]
    BY <2>1, <2>2 DEF ProcessInv, Descending, Inherited
  <2>4. known[q] # NoProcess
    BY <2>1, PidsAssumption DEF NoProcess
  <2> QED BY <1>2, <2>3, <2>4
<1>4. p \in S
  BY <1>1, <1>2, <1>3 DEF IsDescendant
<1>5. \A q \in Pids : KeyOf(q, known[q]).pid = q
  BY DEF KeyOf
<1> QED BY <1>1, <1>2, <1>4, <1>5

\* What leads up to a root descends from it, and so does the root.
LEMMA DeltaKeeps ==
    ASSUME ProcessInv, Delta
    PROVE  ProcessInv'
<1>1. /\ stage = "delta" /\ stage' = "recording delta"
      /\ pending' = Owned(delta.starts, "start") \cup Owned(delta.exits, "exit")
      /\ UNCHANGED <<table, starts, root, descent, reused, active, registered, known, delta,
                     rooted, polled, recordedOf>>
  BY DEF Delta, processes, sessionsOf
<1>2. /\ pending = {} /\ delta.starts \subseteq Keys(known) /\ known \in [Pids -> Process]
      /\ delta.starts \subseteq Key /\ delta.exits \subseteq Key
  BY <1>1 DEF ProcessInv, ProcessTypes, Attributed
<1>3. ASSUME NEW keys \in SUBSET Key, NEW action \in {"start", "exit"},
             NEW e \in Owned(keys, action)
      PROVE  /\ e \in Event /\ e.action = action /\ e.key \in keys /\ e.key.pid \in Pids
             /\ e.session \in Wrapped /\ registered[e.session] # NoPid
             /\ IsDescendant(registered[e.session], e.key.pid)
  <2>1. e \in OfSubtree(keys, action) /\ IsDescendant(registered[e.session], e.key.pid)
    BY <1>3 DEF Owned
  <2>2. PICK s \in Wrapped, k \in keys : registered[s] # NoPid /\ e = ProcessEvent(s, k, action)
    BY <2>1 DEF OfSubtree
  <2>3. e.session = s /\ e.key = k /\ e.action = action /\ e \in Event
    BY <2>2 DEF ProcessEvent, Event
  <2> QED BY <2>1, <2>2, <2>3 DEF Key
<1>4. ASSUME NEW e \in Owned(delta.starts, "start") PROVE e \in Event /\ OfSession(e)
  <2>1. /\ e \in Event /\ e.key \in delta.starts /\ e.key.pid \in Pids
        /\ e.session \in Wrapped /\ registered[e.session] # NoPid
        /\ IsDescendant(registered[e.session], e.key.pid)
    BY <1>2, <1>3, <1>4
  <2>2. known[e.key.pid] # NoProcess /\ e.key = KeyOf(e.key.pid, known[e.key.pid])
    BY <1>2, <2>1, KeysOf
  <2>3. e.session \in reused \/ e.key \in descent[e.session]
    BY <2>1, <2>2, LeadsUp
  <2> QED BY <2>1, <2>3 DEF OfSession
<1>5. ASSUME NEW e \in Owned(delta.exits, "exit") PROVE e \in Event /\ OfSession(e)
  <2>1. /\ e \in Event /\ e.action = "exit" /\ e.key.pid \in Pids
        /\ e.session \in Wrapped /\ registered[e.session] # NoPid
        /\ IsDescendant(registered[e.session], e.key.pid)
    BY <1>2, <1>3, <1>5
  <2>2. e.session \in reused \/ \E k \in descent[e.session] : k.pid = e.key.pid
    BY <2>1, LeadsUp
  <2> QED BY <2>1, <2>2 DEF OfSession
<1>6. \A e \in pending' : e \in Event /\ OfSession(e)
  BY <1>1, <1>4, <1>5
<1>7. ProcessTypes'
  BY <1>1, <1>6 DEF ProcessInv, ProcessTypes, Stages
<1>8. Dated' /\ Launching'
  BY <1>1 DEF ProcessInv, Dated, WellFormed, Launching
<1>9. Descending'
  BY <1>1 DEF ProcessInv, Descending, Inherited, OnlyRoot
<1>10. Attributed'
  <2>1. \A e \in pending' \cup recordedOf' : OfSession(e)
    BY <1>1, <1>6 DEF ProcessInv, Attributed
  <2>2. \A e \in pending' \cup recordedOf' : OfSession(e)'
    BY <1>1, <2>1 DEF OfSession
  <2> QED BY <1>1, <2>2 DEF ProcessInv, Attributed, Keys, KeyOf
<1>11. Marked'
  BY <1>1 DEF ProcessInv, Marked
<1>12. RootsStarted'
  <2> SUFFICES ASSUME NEW s \in active, registered[s] # NoPid, root[s] \in Keys(known)
               PROVE  Started(s)'
    BY <1>1 DEF RootsStarted, Keys, KeyOf
  <2>1. s \in Wrapped /\ Started(s)
    BY DEF ProcessInv, ProcessTypes, RootsStarted
  <2>2. CASE root[s] \in delta.starts
    <3>1. registered[s] = root[s].pid
      BY <2>1, RegisteredRoot
    <3>2. IsDescendant(registered[s], root[s].pid)
      BY <3>1 DEF IsDescendant
    <3>3. PICK e : e = ProcessEvent(s, root[s], "start")
      OBVIOUS
    <3>4. e.session = s /\ e.key = root[s]
      BY <3>3 DEF ProcessEvent
    <3>5. e \in OfSubtree(delta.starts, "start")
      BY <2>1, <2>2, <3>3 DEF OfSubtree
    <3>6. e \in Owned(delta.starts, "start")
      BY <3>2, <3>4, <3>5 DEF Owned
    <3>7. ProcessEvent(s, root[s], "start") \in pending'
      BY <1>1, <3>3, <3>6
    <3> QED BY <1>1, <3>7 DEF Started
  <2>3. CASE root[s] \notin delta.starts
    BY <1>1, <1>2, <2>1, <2>3 DEF Started
  <2> QED BY <2>2, <2>3
<1> QED BY <1>7, <1>8, <1>9, <1>10, <1>11, <1>12 DEF ProcessInv

\* An event of an active session is recorded as it was pending.
LEMMA RecordKeeps ==
    ASSUME ProcessInv, Record
    PROVE  ProcessInv'
<1>1. PICK e \in pending :
        /\ pending' = pending \ {e}
        /\ recordedOf' = IF e.session \in active THEN recordedOf \cup {e} ELSE recordedOf
  BY DEF Record
<1>2. UNCHANGED <<table, starts, root, descent, reused, active, registered, known, delta,
                  rooted, polled, stage>>
  BY DEF Record, processes, sessionsOf
<1>3. pending' \cup recordedOf' \subseteq pending \cup recordedOf
  BY <1>1
<1>4. ProcessTypes'
  BY <1>2, <1>3 DEF ProcessInv, ProcessTypes
<1>5. Dated' /\ Launching' /\ Marked'
  BY <1>2 DEF ProcessInv, Dated, WellFormed, Launching, Marked
<1>6. Descending'
  BY <1>2 DEF ProcessInv, Descending, Inherited, OnlyRoot
<1>7. Attributed'
  <2>1. \A f \in pending' \cup recordedOf' : OfSession(f)'
    BY <1>2, <1>3 DEF ProcessInv, Attributed, OfSession
  <2> QED BY <1>1, <1>2, <2>1 DEF ProcessInv, Attributed, Keys, KeyOf
<1>8. RootsStarted'
  <2> SUFFICES ASSUME NEW s \in active, registered[s] # NoPid, root[s] \in Keys(known)
               PROVE  Started(s)'
    BY <1>2 DEF RootsStarted, Keys, KeyOf
  <2>1. Started(s)
    BY DEF ProcessInv, RootsStarted
  <2>2. ProcessEvent(s, root[s], "start").session = s
    BY DEF ProcessEvent
  <2>3. ProcessEvent(s, root[s], "start") \in recordedOf \cup pending =>
          ProcessEvent(s, root[s], "start") \in recordedOf' \cup pending'
    BY <1>1, <2>2
  <2> QED BY <1>2, <2>1, <2>3 DEF Started, ProcessEvent
<1> QED BY <1>4, <1>5, <1>6, <1>7, <1>8 DEF ProcessInv

\* With nothing pending the task goes on.
LEMMA RecordedKeeps ==
    ASSUME ProcessInv, Recorded
    PROVE  ProcessInv'
<1>1. /\ pending = {}
      /\ \/ stage = "recording roots" /\ stage' = "delta"
         \/ stage = "recording delta" /\ stage' = "idle"
      /\ UNCHANGED <<table, starts, root, descent, reused, active, registered, known, delta,
                     rooted, polled, pending, recordedOf>>
  BY DEF Recorded, processes, sessionsOf
<1>2. ProcessTypes'
  BY <1>1 DEF ProcessInv, ProcessTypes, Stages
<1>3. Dated' /\ Launching'
  BY <1>1 DEF ProcessInv, Dated, WellFormed, Launching
<1>4. Descending'
  BY <1>1 DEF ProcessInv, Descending, Inherited, OnlyRoot
<1>5. Attributed'
  BY <1>1 DEF ProcessInv, Attributed, OfSession, Keys, KeyOf
<1>6. Marked'
  BY <1>1 DEF ProcessInv, Marked
<1>7. RootsStarted'
  <2> SUFFICES ASSUME NEW s \in active, registered[s] # NoPid, root[s] \in Keys(known)
               PROVE  Started(s)'
    BY <1>1 DEF RootsStarted, Keys, KeyOf
  <2>1. Started(s)
    BY DEF ProcessInv, RootsStarted
  <2> QED BY <1>1, <2>1 DEF Started
<1> QED BY <1>2, <1>3, <1>4, <1>5, <1>6, <1>7 DEF ProcessInv
-----------------------------------------------------------------------------
(* The theorem *)

\* At the start there is no process.
LEMMA NothingObserved ==
    ProcessInit => ProcessInv
<1> SUFFICES ASSUME ProcessInit PROVE ProcessInv
  OBVIOUS
<1>1. NoProcess \in Process /\ NoProcess.start = 0 /\ NoProcess.parent = NoPid
      /\ NoPid \notin Pids
  BY PidsAssumption DEF NoProcess, Process
<1>2. table = [p \in Pids |-> NoProcess] /\ known = table
  BY DEF ProcessInit
<1>3. Keys(known) = {}
  BY <1>2 DEF Keys
<1>4. ProcessTypes
  BY <1>1, <1>2 DEF ProcessInit, ProcessTypes, Stages
<1>5. Dated
  BY <1>1, <1>2 DEF ProcessInit, Dated, WellFormed
<1>6. Launching
  BY DEF ProcessInit, Launching
<1>7. Descending
  BY <1>1, <1>2 DEF ProcessInit, Descending, Inherited, OnlyRoot
<1>8. Attributed
  BY DEF ProcessInit, Attributed
<1>9. Marked /\ RootsStarted
  BY <1>3 DEF ProcessInit, Marked, RootsStarted
<1> QED BY <1>4, <1>5, <1>6, <1>7, <1>8, <1>9 DEF ProcessInv

\* Every step keeps the invariant.
LEMMA ProcessStep ==
    ProcessInv /\ [ProcessNext]_processVars => ProcessInv'
<1> SUFFICES ASSUME ProcessInv, [ProcessNext]_processVars PROVE ProcessInv'
  OBVIOUS
<1>1. ASSUME NEW p \in Pids, NEW parent \in Pids \cup {Outside}, Start(p, parent)
      PROVE  ProcessInv'
  BY <1>1, StartKeeps
<1>2. ASSUME NEW p \in Pids, Quit(p) PROVE ProcessInv'
  BY <1>2, QuitKeeps
<1>3. ASSUME NEW s \in Wrapped, NEW p \in Pids, Launch(s, p) PROVE ProcessInv'
  BY <1>3, LaunchKeeps
<1>4. ASSUME NEW s \in Wrapped, Register(s) PROVE ProcessInv'
  BY <1>4, RegisterKeeps
<1>5. ASSUME NEW s \in Wrapped, CompleteSession(s) PROVE ProcessInv'
  BY <1>5, CompleteSessionKeeps
<1>6. CASE Poll
  BY <1>6, PollKeeps
<1>7. CASE RootStarts
  BY <1>7, RootStartsKeeps
<1>8. CASE Delta
  BY <1>8, DeltaKeeps
<1>9. CASE Record
  BY <1>9, RecordKeeps
<1>10. CASE Recorded
  BY <1>10, RecordedKeeps
<1>11. CASE UNCHANGED processVars
  <2>1. UNCHANGED <<table, starts, root, descent, reused, active, registered, known, delta,
                    rooted, polled, stage, pending, recordedOf>>
    BY <1>11 DEF processVars, processes, sessionsOf, taskOf
  <2>2. ProcessTypes' /\ Dated' /\ Launching'
    BY <2>1 DEF ProcessInv, ProcessTypes, Dated, WellFormed, Launching
  <2>3. Descending'
    BY <2>1 DEF ProcessInv, Descending, Inherited, OnlyRoot
  <2>4. Attributed'
    BY <2>1 DEF ProcessInv, Attributed, OfSession, Keys, KeyOf
  <2>5. Marked'
    BY <2>1 DEF ProcessInv, Marked
  <2>6. RootsStarted'
    <3>1. Keys(known)' = Keys(known)
      BY <2>1 DEF Keys, KeyOf
    <3> QED BY <2>1, <3>1 DEF ProcessInv, RootsStarted, Started, ProcessEvent
  <2> QED BY <2>2, <2>3, <2>4, <2>5, <2>6 DEF ProcessInv
<1> QED BY <1>1, <1>2, <1>3, <1>4, <1>5, <1>6, <1>7, <1>8, <1>9, <1>10, <1>11 DEF ProcessNext

\* Between polls, what is on its way is recorded.
LEMMA InvSound ==
    ProcessInv => ProcessesSound
<1> SUFFICES ASSUME ProcessInv PROVE ProcessesSound
  OBVIOUS
<1>1. ExactIsOwned
  BY DEF ProcessInv, Attributed, OfSession, ExactIsOwned
<1>2. RootRecorded
  <2> SUFFICES ASSUME NEW s \in active, stage = "idle", registered[s] # NoPid,
                      polled[s] = registered[s], root[s] \in Keys(known)
               PROVE  ProcessEvent(s, root[s], "start") \in recordedOf
    BY DEF RootRecorded
  <2>1. pending = {} /\ <<s, registered[s]>> \in rooted
    BY DEF ProcessInv, Attributed, Marked
  <2>2. Started(s)
    BY DEF ProcessInv, RootsStarted
  <2> QED BY <2>1, <2>2 DEF Started
<1> QED BY <1>1, <1>2 DEF ProcessesSound

\* What the process observer records as exact for a session descends from the agent its
\* wrapper spawned, but for the two reuses of a pid that the property names; and a root that
\* lived through a poll made while it was registered has its start recorded; for any number
\* of processes, pids, sessions and polls (processes.rs:71-118, coordinator.rs:902-1020).
THEOREM ObservedProcessesAreSound ==
    ProcessSpec => []ProcessesSound
<1>1. ProcessSpec => []ProcessInv
  BY NothingObserved, ProcessStep, PTL DEF ProcessSpec
<1> QED BY <1>1, InvSound, PTL
=============================================================================
