---------------------------- MODULE ServicesProofs ----------------------------
(***************************************************************************)
(* Proofs about the services that work on the evidence of others: the      *)
(* verifier of a chain, the installation of hooks, the demo dataset, the   *)
(* export and the paged timeline; for every set of digests, users,         *)
(* requests, installs and events and for any bounds.                       *)
(***************************************************************************)
EXTENDS ChainVerifier, HookInstallation, LocalApi, FiniteSetTheorems, TLAPS

-----------------------------------------------------------------------------
(* ChainVerifier: the inductive invariant *)

IsTable(s) ==
    /\ s \in Seq({s[i] : i \in DOMAIN s})
    /\ \A i \in DOMAIN s :
        /\ s[i] = [sequence |-> s[i].sequence, previous |-> s[i].previous,
                   digest |-> s[i].digest, hash |-> s[i].hash]
        /\ s[i].sequence \in Nat \ {0}

Ascending(s) == \A i, j \in DOMAIN s : i < j => s[i].sequence < s[j].sequence

Sealed ==
    \/ root = <<>>
    \/ /\ written # <<>>
       /\ root = <<[count |-> Len(written), hash |-> TailHash(written)]>>

Tables == IsTable(written) /\ Consistent(written) /\ IsTable(table) /\ Ascending(table) /\ Sealed

\* A row is in its place, after its predecessor, and has the hash of its contents.
Fits(s, i) ==
    /\ s[i].sequence = i
    /\ s[i].previous = IF i = 1 THEN Zero ELSE s[i - 1].hash
    /\ s[i].hash = HashOf(s[i].previous, s[i].digest)

Clean == missing = {} /\ reordered = {} /\ changed = {}

\* What the loop knows of the rows before the next one.
Expecting ==
    /\ next \in 1..(Len(table) + 1)
    /\ expectedSequence = IF next = 1 THEN 1 ELSE table[next - 1].sequence + 1
    /\ expectedPrevious = IF next = 1 THEN Zero ELSE table[next - 1].hash
Reporting ==
    /\ missing = (1..(expectedSequence - 1)) \ {table[i].sequence : i \in 1..(next - 1)}
    /\ Clean <=> \A i \in 1..(next - 1) : Fits(table, i)

Stages ==
    /\ step \in {"open", "verifying", "done"}
    /\ step = "open" => next = 1
    /\ step = "done" =>
        /\ next = Len(table) + 1
        /\ mismatch = (root # <<>> /\ RootDisagrees(root[1]))

VerifierInv == Tables /\ Expecting /\ Reporting /\ Stages
-----------------------------------------------------------------------------
(* Tables *)

\* A non-empty set of bounded numbers has a largest one.
LEMMA LargestNumber ==
    ASSUME NEW n \in Nat, NEW S \in SUBSET (1..n), S # {}
    PROVE  \E m \in S : \A k \in S : k <= m
<1> DEFINE From(k) == k..n
           T == {From(k) : k \in S}
<1>1. IsWellFoundedOn(StrictSubsetOrdering(1..n), FiniteSubsetsOf(1..n))
  BY FS_StrictSubsetOrderingWellFounded
<1>2. T \subseteq FiniteSubsetsOf(1..n)
  <2> SUFFICES ASSUME NEW k \in S
               PROVE  From(k) \in FiniteSubsetsOf(1..n)
    OBVIOUS
  <2>1. From(k) \subseteq 1..n
    OBVIOUS
  <2>2. IsFiniteSet(1..n)
    BY FS_Interval
  <2> QED BY <2>1, <2>2, FS_Subset DEF FiniteSubsetsOf
<1>3. T # {}
  OBVIOUS
<1>4. PICK x \in T : \A y \in T : ~(<<y, x>> \in StrictSubsetOrdering(1..n))
  <2> HIDE DEF T
  <2> QED BY <1>1, <1>2, <1>3, WFMin
<1>5. PICK m \in S : x = From(m)
  OBVIOUS
<1>6. ASSUME NEW k \in S, k > m PROVE FALSE
  <2>1. From(k) \subseteq From(m) /\ From(k) # From(m)
    <3>1. m \in From(m) /\ m \notin From(k)
      BY <1>6
    <3> QED BY <3>1, <1>6
  <2>2. From(k) \in SUBSET (1..n) /\ From(m) \in SUBSET (1..n)
    OBVIOUS
  <2>3. <<From(k), From(m)>> \in StrictSubsetOrdering(1..n)
    BY <2>1, <2>2 DEF StrictSubsetOrdering
  <2> QED BY <2>3, <1>4, <1>5
<1> QED
  <2>1. S \subseteq Int
    OBVIOUS
  <2> QED BY <1>6, <2>1

\* Of a finite set of numbers, the least.
LEMMA SmallestNumber ==
    ASSUME NEW S \in SUBSET Nat, S # {}
    PROVE  \E m \in S : \A k \in S : m <= k
<1>1. PICK n \in S : TRUE
  OBVIOUS
<1> DEFINE T == {n + 1 - k : k \in {x \in S : x <= n}}
<1>2. T \in SUBSET (1..(n + 1)) /\ T # {} /\ n + 1 \in Nat
  BY <1>1
<1>3. PICK l \in T : \A k \in T : k <= l
  <2> HIDE DEF T
  <2> QED BY <1>2, LargestNumber
<1>4. PICK m \in {x \in S : x <= n} : l = n + 1 - m
  BY <1>3
<1>5. ASSUME NEW k \in S PROVE m <= k
  <2>1. CASE k <= n
    <3>1. n + 1 - k \in T
      BY <2>1
    <3>2. n + 1 - k <= n + 1 - m
      BY <3>1, <1>3, <1>4
    <3> QED BY <3>2, <1>4
  <2>2. CASE ~(k <= n)
    BY <2>2, <1>1, <1>4
  <2> QED BY <2>1, <2>2
<1> QED BY <1>4, <1>5

\* A sequence is one of its own elements.
LEMMA OwnElements ==
    ASSUME NEW S, NEW s \in Seq(S)
    PROVE  s \in Seq({s[i] : i \in DOMAIN s})
  OBVIOUS

\* A table has a length.
LEMMA TableLength ==
    ASSUME NEW s, IsTable(s)
    PROVE  Len(s) \in Nat /\ DOMAIN s = 1..Len(s) /\ (s = <<>> <=> Len(s) = 0)
  BY DEF IsTable

\* Two consistent chains of one length and with one last hash are the same: a hash fixes
\* the contents of its row and the hash of the row before.
LEMMA TailFixesChain ==
    ASSUME NEW s, NEW t, IsTable(s), IsTable(t), Consistent(s), Consistent(t),
           Len(s) = Len(t), TailHash(s) = TailHash(t)
    PROVE  s = t
<1>1. Len(s) \in Nat /\ DOMAIN s = 1..Len(s) /\ DOMAIN t = 1..Len(s)
  BY TableLength
<1> DEFINE Bad == {i \in 1..Len(s) : s[i] # t[i]}
<1>2. ASSUME NEW i \in 1..Len(s), s[i].hash = t[i].hash
      PROVE  s[i] = t[i]
  <2>1. s[i].sequence = t[i].sequence
    BY <1>1 DEF Consistent
  <2>2. HashOf(s[i].previous, s[i].digest) = HashOf(t[i].previous, t[i].digest)
    BY <1>1, <1>2 DEF Consistent
  <2>3. s[i].previous = t[i].previous /\ s[i].digest = t[i].digest
    BY <2>2 DEF HashOf
  <2> QED BY <2>1, <2>3, <1>1, <1>2 DEF IsTable
<1>3. CASE Bad = {}
  <2>1. \A i \in 1..Len(s) : s[i] = t[i]
    BY <1>3
  <2>2. s = [i \in 1..Len(s) |-> s[i]] /\ t = [i \in 1..Len(s) |-> t[i]]
    BY <1>1 DEF IsTable
  <2> QED BY <2>1, <2>2
<1>4. CASE Bad # {}
  <2>1. PICK m \in Bad : \A k \in Bad : k <= m
    BY <1>1, <1>4, LargestNumber
  <2>2. CASE m = Len(s)
    <3>1. s # <<>> /\ t # <<>>
      BY <2>1, <1>1, TableLength
    <3>2. s[m].hash = t[m].hash
      BY <2>2, <3>1 DEF TailHash
    <3> QED BY <3>2, <2>1, <1>2
  <2>3. CASE m # Len(s)
    <3> HIDE DEF Bad
    <3>1. m \in 1..Len(s)
      BY <2>1 DEF Bad
    <3>2. m + 1 \in 1..Len(s)
      <4>1. Len(s) \in Nat /\ m # Len(s)
        BY <1>1, <2>3
      <4> QED BY <3>1, <4>1
    <3>3. s[m + 1] = t[m + 1]
      <4>1. m + 1 \notin Bad
        BY <3>1, <2>1
      <4> QED BY <4>1, <3>2 DEF Bad
    <3>4. s[m + 1].previous = s[m].hash /\ t[m + 1].previous = t[m].hash
      BY <3>1, <3>2, <1>1 DEF Consistent
    <3>5. s[m].hash = t[m].hash
      BY <3>3, <3>4
    <3> QED BY <3>1, <3>5, <2>1, <1>2 DEF Bad
  <2> QED BY <2>2, <2>3
<1> QED BY <1>3, <1>4
-----------------------------------------------------------------------------
(* Steps of the writer, the damage and the loop *)

\* A table without rows is a chain.
LEMMA VerifierInitInv == Init => VerifierInv
  BY DEF Init, VerifierInv, Tables, IsTable, Consistent, Ascending, Sealed, Expecting, Reporting,
         Stages, Clean, Fits

\* An appended row goes on from the last one.
LEMMA AppendKeeps ==
    ASSUME VerifierInv, NEW d \in Digests, AppendEntry(d)
    PROVE  VerifierInv'
<1> DEFINE n == Len(written)
           e == [sequence |-> n + 1, previous |-> TailHash(written), digest |-> d,
                 hash |-> HashOf(TailHash(written), d)]
<1>1. n \in Nat /\ DOMAIN written = 1..n /\ (written = <<>> <=> n = 0)
  BY TableLength DEF VerifierInv, Tables
<1>2. written' = Append(written, e) /\ table' = written' /\ root' = root /\ root = <<>>
  BY DEF AppendEntry
<1> HIDE DEF e
<1>3. /\ written' \in Seq({written[i] : i \in DOMAIN written} \cup {e}) /\ Len(written') = n + 1
      /\ written'[n + 1] = e /\ \A i \in 1..n : written'[i] = written[i]
  BY <1>1, <1>2 DEF VerifierInv, Tables, IsTable
<1>4. DOMAIN written' = 1..(n + 1)
  BY <1>3, <1>1
<1>5. IsTable(written')
  <2>1. written' \in Seq({written'[i] : i \in DOMAIN written'})
    BY <1>3, OwnElements
  <2>2. ASSUME NEW i \in 1..(n + 1)
        PROVE  /\ written'[i] = [sequence |-> written'[i].sequence,
                     previous |-> written'[i].previous,
                     digest |-> written'[i].digest, hash |-> written'[i].hash]
               /\ written'[i].sequence \in Nat \ {0}
    <3>1. CASE i = n + 1
      BY <3>1, <1>3, <1>1 DEF e
    <3>2. CASE i # n + 1
      <4>1. i \in 1..n
        BY <3>2, <1>1
      <4> QED BY <4>1, <1>3, <1>1 DEF VerifierInv, Tables, IsTable
    <3> QED BY <3>1, <3>2
  <2> QED BY <2>1, <2>2, <1>4 DEF IsTable
<1>6. Consistent(written')
  <2> SUFFICES ASSUME NEW i \in 1..(n + 1)
               PROVE  /\ written'[i].sequence = i
                      /\ written'[i].previous = IF i = 1 THEN Zero ELSE written'[i - 1].hash
                      /\ written'[i].hash = HashOf(written'[i].previous, written'[i].digest)
    BY <1>4 DEF Consistent
  <2>1. CASE i = n + 1
    <3>1. TailHash(written) = IF i = 1 THEN Zero ELSE written'[i - 1].hash
      BY <2>1, <1>1, <1>3 DEF TailHash
    <3> QED BY <2>1, <3>1, <1>3 DEF e
  <2>2. CASE i # n + 1
    <3>1. i \in 1..n /\ (i # 1 => i - 1 \in 1..n)
      BY <2>2, <1>1
    <3> QED BY <3>1, <1>3, <1>1 DEF VerifierInv, Tables, Consistent
  <2> QED BY <2>1, <2>2
<1>7. Ascending(table')
  BY <1>2, <1>4, <1>6 DEF Ascending, Consistent
<1>8. Tables'
  BY <1>2, <1>5, <1>6, <1>7 DEF Tables, Sealed, VerifierInv
<1>9. Expecting' /\ Reporting' /\ Stages'
  <2>1. next = 1 /\ step = "open" /\ UNCHANGED <<step, next, expectedPrevious, expectedSequence,
                                               missing, reordered, changed, mismatch>>
    BY DEF AppendEntry, VerifierInv, Stages, loop, report
  <2>2. Len(table') \in Nat
    BY <1>2, <1>3, <1>1
  <2> QED BY <2>1, <2>2 DEF VerifierInv, Expecting, Reporting, Stages, Clean
<1> QED BY <1>8, <1>9 DEF VerifierInv

\* A finalized root is that of what was written.
LEMMA FinalizeKeeps ==
    ASSUME VerifierInv, Finalize
    PROVE  VerifierInv'
  BY DEF Finalize, VerifierInv, Tables, Sealed, Expecting, Reporting, Stages, Clean, loop, report

\* Damage leaves the loop where it is, before the first row.
LEMMA DamageKeeps ==
    ASSUME VerifierInv, NEW s, Damage(s), IsTable(s), Ascending(s)
    PROVE  VerifierInv'
<1>1. table' = s /\ next = 1 /\ step = "open"
      /\ UNCHANGED <<written, root, step, next, expectedPrevious, expectedSequence,
                     missing, reordered, changed, mismatch>>
  BY DEF Damage, VerifierInv, Stages, loop, report
<1>2. Len(s) \in Nat
  BY TableLength
<1>3. Tables'
  BY <1>1 DEF VerifierInv, Tables, Sealed
<1> QED BY <1>1, <1>2, <1>3 DEF VerifierInv, Expecting, Reporting, Stages, Clean

\* Rows removed by a damage leave the others ascending.
LEMMA RemoveKeeps ==
    ASSUME VerifierInv, NEW k \in DOMAIN table, RemoveRow(k)
    PROVE  VerifierInv'
<1> DEFINE s == [j \in 1..(Len(table) - 1) |-> table[IF j < k THEN j ELSE j + 1]]
<1>1. Len(table) \in Nat /\ DOMAIN table = 1..Len(table)
  BY TableLength DEF VerifierInv, Tables
<1>2. Len(table) - 1 \in Nat /\ k \in 1..Len(table)
  BY <1>1
<1>3. \A j \in 1..(Len(table) - 1) : (IF j < k THEN j ELSE j + 1) \in 1..Len(table)
  BY <1>1
<1>4. s \in Seq({table[i] : i \in DOMAIN table})
  BY <1>1, <1>2, <1>3
<1>5. DOMAIN s = 1..(Len(table) - 1)
  OBVIOUS
<1>6. IsTable(s)
  <2>1. s \in Seq({s[i] : i \in DOMAIN s})
    <3> HIDE DEF s
    <3> QED BY <1>4, OwnElements
  <2> QED BY <2>1, <1>1, <1>3, <1>5 DEF IsTable, VerifierInv, Tables
<1>7. Ascending(s)
  <2> SUFFICES ASSUME NEW i \in 1..(Len(table) - 1), NEW j \in 1..(Len(table) - 1), i < j
               PROVE  s[i].sequence < s[j].sequence
    BY <1>5 DEF Ascending
  <2>1. PICK x \in 1..Len(table), y \in 1..Len(table) :
          x < y /\ s[i] = table[x] /\ s[j] = table[y]
    BY <1>2, <1>3
  <2> QED BY <2>1, <1>1 DEF VerifierInv, Tables, Ascending
<1> QED BY <1>6, <1>7, DamageKeeps DEF RemoveRow

\* A row that moves stays between its neighbours.
LEMMA RenumberKeeps ==
    ASSUME VerifierInv, NEW k \in DOMAIN table, NEW n \in 1..(MaxLength + 1), Renumber(k, n)
    PROVE  VerifierInv'
<1> DEFINE s == [table EXCEPT ![k].sequence = n]
<1>1. Len(table) \in Nat /\ DOMAIN table = 1..Len(table) /\ k \in 1..Len(table)
  BY TableLength DEF VerifierInv, Tables
<1>2. DOMAIN s = 1..Len(table) /\ \A i \in 1..Len(table) : i # k => s[i] = table[i]
  BY <1>1
<1>3. s[k] = [sequence |-> n, previous |-> table[k].previous, digest |-> table[k].digest,
              hash |-> table[k].hash]
  <2>1. PICK row : /\ row = table[k]
                   /\ row = [sequence |-> row.sequence, previous |-> row.previous,
                             digest |-> row.digest, hash |-> row.hash]
    BY <1>1 DEF VerifierInv, Tables, IsTable
  <2>2. s[k] = [row EXCEPT !.sequence = n]
    BY <2>1, <1>1
  <2>3. [row EXCEPT !.sequence = n] = [sequence |-> n, previous |-> row.previous,
                                       digest |-> row.digest, hash |-> row.hash]
    BY <2>1
  <2> QED BY <2>1, <2>2, <2>3
<1>4. s \in Seq({table[i] : i \in DOMAIN table} \cup {s[k]})
  <2>1. table \in Seq({table[i] : i \in DOMAIN table})
    BY DEF VerifierInv, Tables, IsTable
  <2>2. PICK e : e = [table[k] EXCEPT !.sequence = n]
    OBVIOUS
  <2>3. s = [table EXCEPT ![k] = e] /\ s[k] = e
    BY <1>1, <2>2
  <2> HIDE DEF s
  <2>4. [table EXCEPT ![k] = e] \in Seq({table[i] : i \in DOMAIN table} \cup {e})
    BY <1>1, <2>1
  <2> QED BY <2>3, <2>4
<1>5. n \in Nat \ {0}
  BY BoundsAssumption
<1> HIDE DEF s
<1>6. IsTable(s)
  <2>1. s \in Seq({s[i] : i \in DOMAIN s})
    BY <1>4, OwnElements
  <2>2. ASSUME NEW i \in 1..Len(table)
        PROVE  /\ s[i] = [sequence |-> s[i].sequence, previous |-> s[i].previous,
                          digest |-> s[i].digest, hash |-> s[i].hash]
               /\ s[i].sequence \in Nat \ {0}
    <3>1. CASE i = k
      BY <3>1, <1>3, <1>5
    <3>2. CASE i # k
      BY <3>2, <1>1, <1>2 DEF VerifierInv, Tables, IsTable
    <3> QED BY <3>1, <3>2
  <2> QED BY <2>1, <2>2, <1>2 DEF IsTable
<1>7. Ascending(s)
  <2> SUFFICES ASSUME NEW i \in 1..Len(table), NEW j \in 1..Len(table), i < j
               PROVE  s[i].sequence < s[j].sequence
    BY <1>2 DEF Ascending
  <2>1. /\ \A x, y \in 1..Len(table) : x < y => table[x].sequence < table[y].sequence
        /\ \A x \in 1..Len(table) : table[x].sequence \in Nat
    BY <1>1 DEF VerifierInv, Tables, Ascending, IsTable
  <2>2. CASE i # k /\ j # k
    BY <2>1, <2>2, <1>2
  <2>3. CASE j = k
    <3>1. k > 1 /\ k - 1 \in 1..Len(table) /\ i <= k - 1
      BY <2>3, <1>1
    <3>2. table[k - 1].sequence < n
      BY <3>1 DEF Renumber
    <3>3. table[i].sequence <= table[k - 1].sequence
      BY <3>1, <2>1
    <3> QED BY <3>1, <3>2, <3>3, <2>1, <2>3, <1>2, <1>3, <1>5
  <2>4. CASE i = k
    <3>1. k < Len(table) /\ k + 1 \in 1..Len(table) /\ k + 1 <= j
      BY <2>4, <1>1
    <3>2. n < table[k + 1].sequence
      BY <3>1 DEF Renumber
    <3>3. table[k + 1].sequence <= table[j].sequence
      BY <3>1, <2>1
    <3> QED BY <3>1, <3>2, <3>3, <2>1, <2>4, <1>2, <1>3, <1>5
  <2> QED BY <2>2, <2>3, <2>4
<1>8. Damage(s)
  BY DEF Renumber, s
<1> QED BY <1>6, <1>7, <1>8, DamageKeeps

\* A column that is overwritten leaves the rows where they are.
LEMMA RowReplaced ==
    ASSUME VerifierInv, NEW k \in DOMAIN table, NEW e, Damage([table EXCEPT ![k] = e]),
           e = [sequence |-> table[k].sequence, previous |-> e.previous,
                digest |-> e.digest, hash |-> e.hash]
    PROVE  VerifierInv'
<1> DEFINE s == [table EXCEPT ![k] = e]
<1>1. Len(table) \in Nat /\ DOMAIN table = 1..Len(table) /\ k \in 1..Len(table)
  BY TableLength DEF VerifierInv, Tables
<1>2. /\ DOMAIN s = 1..Len(table) /\ s[k] = e
      /\ \A i \in 1..Len(table) : i # k => s[i] = table[i]
  BY <1>1
<1>3. s \in Seq({table[i] : i \in DOMAIN table} \cup {e})
  BY <1>1, <1>2 DEF VerifierInv, Tables, IsTable
<1>4. Damage(s)
  OBVIOUS
<1> HIDE DEF s
<1>5. s \in Seq({s[i] : i \in DOMAIN s})
  BY <1>3, OwnElements
<1>6. e.sequence = table[k].sequence
  OBVIOUS
<1>7. \A i \in 1..Len(table) : s[i].sequence = table[i].sequence
  BY <1>2, <1>6
<1>8. IsTable(s)
  BY <1>1, <1>2, <1>5, <1>7 DEF IsTable, VerifierInv, Tables
<1>9. Ascending(s)
  BY <1>1, <1>2, <1>7 DEF Ascending, VerifierInv, Tables
<1> QED BY <1>4, <1>8, <1>9, DamageKeeps

\* A row overwritten by another keeps its number.
LEMMA OverwriteKeeps ==
    ASSUME VerifierInv, NEW k \in DOMAIN table, Overwrite(k)
    PROVE  VerifierInv'
<1>1. Len(table) \in Nat /\ DOMAIN table = 1..Len(table)
  BY TableLength DEF VerifierInv, Tables
<1>2. PICK row : /\ row = table[k]
                 /\ row = [sequence |-> table[k].sequence, previous |-> row.previous,
                           digest |-> row.digest, hash |-> row.hash]
  BY <1>1 DEF VerifierInv, Tables, IsTable
<1>3. ASSUME NEW d \in Digests, Damage([table EXCEPT ![k].digest = d])
      PROVE  VerifierInv'
  <2>1. [table EXCEPT ![k].digest = d] = [table EXCEPT ![k] = [row EXCEPT !.digest = d]]
    BY <1>2
  <2>2. [row EXCEPT !.digest = d] = [sequence |-> table[k].sequence, previous |-> row.previous,
                                     digest |-> d, hash |-> row.hash]
    BY <1>2
  <2> QED BY <2>1, <2>2, <1>3, RowReplaced
<1>4. ASSUME NEW h, Damage([table EXCEPT ![k].previous = h])
      PROVE  VerifierInv'
  <2>1. [table EXCEPT ![k].previous = h] = [table EXCEPT ![k] = [row EXCEPT !.previous = h]]
    BY <1>2
  <2>2. [row EXCEPT !.previous = h] = [sequence |-> table[k].sequence, previous |-> h,
                                       digest |-> row.digest, hash |-> row.hash]
    BY <1>2
  <2> QED BY <2>1, <2>2, <1>4, RowReplaced
<1>5. ASSUME NEW h, Damage([table EXCEPT ![k].hash = h])
      PROVE  VerifierInv'
  <2>1. [table EXCEPT ![k].hash = h] = [table EXCEPT ![k] = [row EXCEPT !.hash = h]]
    BY <1>2
  <2>2. [row EXCEPT !.hash = h] = [sequence |-> table[k].sequence, previous |-> row.previous,
                                   digest |-> row.digest, hash |-> h]
    BY <1>2
  <2> QED BY <2>1, <2>2, <1>5, RowReplaced
<1> QED BY <1>3, <1>4, <1>5 DEF Overwrite

\* A verification begins before the first row, having found nothing.
LEMMA StartKeeps ==
    ASSUME VerifierInv, StartVerify
    PROVE  VerifierInv'
  BY DEF StartVerify, VerifierInv, Tables, Sealed, Expecting, Reporting, Stages, Clean, loop,
         report

\* The loop looks at one row more; the rows before it are as they were.
LEMMA VerifyEntryKeeps ==
    ASSUME VerifierInv, VerifyEntry
    PROVE  VerifierInv'
<1> DEFINE e == table[next]
<1>1. Len(table) \in Nat /\ DOMAIN table = 1..Len(table)
  BY TableLength DEF VerifierInv, Tables
<1>2. next \in 1..Len(table)
  BY <1>1 DEF VerifyEntry, VerifierInv, Expecting
<1>3. /\ \A x, y \in 1..Len(table) : x < y => table[x].sequence < table[y].sequence
      /\ \A x \in 1..Len(table) : table[x].sequence \in Nat \ {0}
  BY <1>1 DEF VerifierInv, Tables, Ascending, IsTable
<1>4. /\ missing' = missing \cup Skipped(e)
      /\ reordered' = IF Misplaced(e) THEN reordered \cup {e.sequence} ELSE reordered
      /\ changed' = IF Rewritten(e) THEN changed \cup {e.sequence} ELSE changed
      /\ expectedPrevious' = e.hash /\ expectedSequence' = e.sequence + 1 /\ next' = next + 1
      /\ table' = table /\ UNCHANGED <<written, root, step, mismatch>> /\ step = "verifying"
  BY DEF VerifyEntry
<1>5. expectedSequence \in Nat \ {0} /\ expectedSequence <= e.sequence
  <2>1. CASE next = 1
    BY <2>1, <1>2, <1>3 DEF VerifierInv, Expecting
  <2>2. CASE next # 1
    <3>1. next - 1 \in 1..Len(table) /\ next - 1 < next
      BY <2>2, <1>2, <1>1
    <3>2. table[next - 1].sequence < e.sequence
      BY <3>1, <1>2, <1>3
    <3> QED BY <2>2, <3>1, <3>2, <1>2, <1>3 DEF VerifierInv, Expecting
  <2> QED BY <2>1, <2>2
<1>6. Expecting'
  BY <1>1, <1>2, <1>4 DEF Expecting
<1> DEFINE Seen(n) == {table[i].sequence : i \in 1..(n - 1)}
<1>7. missing' = (1..(expectedSequence' - 1)) \ Seen(next')
  <2>1. missing = (1..(expectedSequence - 1)) \ Seen(next)
    BY DEF VerifierInv, Reporting
  <2>2. 1..(expectedSequence' - 1) = (1..(expectedSequence - 1)) \cup Skipped(e) \cup {e.sequence}
    BY <1>2, <1>3, <1>4, <1>5 DEF Skipped
  <2>3. Seen(next') = Seen(next) \cup {e.sequence}
    <3>1. 1..(next' - 1) = (1..(next - 1)) \cup {next}
      BY <1>1, <1>2, <1>4
    <3> QED BY <3>1
  <2>4. e.sequence \notin missing \cup Skipped(e)
    BY <2>1, <1>2, <1>3, <1>5 DEF Skipped
  <2>5. \A i \in 1..(next - 1) : table[i].sequence \notin Skipped(e)
    <3> SUFFICES ASSUME NEW i \in 1..(next - 1)
                 PROVE  table[i].sequence \notin Skipped(e)
      OBVIOUS
    <3>1. next # 1 /\ next - 1 \in 1..Len(table) /\ i \in 1..Len(table) /\ i <= next - 1
      BY <1>1, <1>2
    <3>2. table[i].sequence <= table[next - 1].sequence
      BY <3>1, <1>3
    <3>3. expectedSequence = table[next - 1].sequence + 1
      BY <3>1 DEF VerifierInv, Expecting
    <3> QED BY <3>1, <3>2, <3>3, <1>3, <1>5 DEF Skipped
  <2>6. Skipped(e) \cap Seen(next) = {}
    BY <2>5
  <2>7. missing' = missing \cup Skipped(e)
    BY <1>4
  <2> HIDE DEF Seen, e
  <2> QED BY <2>1, <2>2, <2>3, <2>4, <2>6, <2>7
<1>8. Clean' <=> \A i \in 1..(next' - 1) : Fits(table, i)
  <2>1. 1..(next' - 1) = (1..(next - 1)) \cup {next}
    BY <1>1, <1>2, <1>4
  <2>2. Clean <=> \A i \in 1..(next - 1) : Fits(table, i)
    BY DEF VerifierInv, Reporting
  <2>3. Clean' <=> Clean /\ Skipped(e) = {} /\ ~Misplaced(e) /\ ~Rewritten(e)
    BY <1>4 DEF Clean
  <2>4. ASSUME Clean
        PROVE  (Skipped(e) = {} /\ ~Misplaced(e) /\ ~Rewritten(e)) <=> Fits(table, next)
    <3>1. expectedSequence = next
      <4>1. CASE next = 1
        BY <4>1 DEF VerifierInv, Expecting
      <4>2. CASE next # 1
        <5>1. next - 1 \in 1..(next - 1)
          BY <4>2, <1>2, <1>1
        <5>2. table[next - 1].sequence = next - 1
          BY <5>1, <2>2, <2>4 DEF Fits
        <5> QED BY <4>2, <5>2, <1>2, <1>1 DEF VerifierInv, Expecting
      <4> QED BY <4>1, <4>2
    <3>2. Skipped(e) = {} <=> e.sequence = next
      BY <3>1, <1>2, <1>3, <1>5 DEF Skipped
    <3>3. Misplaced(e) <=> e.previous # expectedPrevious
      BY <1>2, <1>3, <1>5 DEF Misplaced
    <3>4. expectedPrevious = IF next = 1 THEN Zero ELSE table[next - 1].hash
      BY DEF VerifierInv, Expecting
    <3> QED BY <3>2, <3>3, <3>4 DEF Fits, Rewritten
  <2> QED BY <2>1, <2>2, <2>3, <2>4
<1>9. Tables' /\ Stages'
  BY <1>4 DEF VerifierInv, Tables, Sealed, Stages
<1> QED BY <1>4, <1>6, <1>7, <1>8, <1>9 DEF VerifierInv, Reporting

\* At the end of the rows, the root is compared with the last hash.
LEMMA VerifyRootKeeps ==
    ASSUME VerifierInv, VerifyRoot
    PROVE  VerifierInv'
<1>1. Len(table) \in Nat
  BY TableLength DEF VerifierInv, Tables
<1>2. /\ UNCHANGED <<written, table, root, next, expectedPrevious, expectedSequence,
                     missing, reordered, changed>>
      /\ step' = "done" /\ next > Len(table)
      /\ mismatch' = (root # <<>> /\ RootDisagrees(root[1]))
  BY DEF VerifyRoot, loop
<1>3. next = Len(table) + 1
  BY <1>1, <1>2 DEF VerifierInv, Expecting
<1>4. Tables' /\ Expecting' /\ Reporting'
  BY <1>2 DEF VerifierInv, Tables, Sealed, Expecting, Reporting, Clean
<1>5. Stages'
  BY <1>2, <1>3 DEF Stages, RootDisagrees
<1> QED BY <1>4, <1>5 DEF VerifierInv

\* Every step of a writer, a damage or the verifier keeps the invariant.
LEMMA StepKeepsVerifierInv == VerifierInv /\ [Next]_vars => VerifierInv'
<1> SUFFICES ASSUME VerifierInv, [Next]_vars PROVE VerifierInv'
  OBVIOUS
<1>1. CASE Next
  BY <1>1, AppendKeeps, FinalizeKeeps, RemoveKeeps, RenumberKeeps, OverwriteKeeps, StartKeeps,
     VerifyEntryKeeps, VerifyRootKeeps DEF Next
<1>2. CASE UNCHANGED vars
  BY <1>2 DEF vars, loop, report, VerifierInv, Tables, Sealed, Expecting, Reporting, Stages, Clean,
              RootDisagrees
<1> QED BY <1>1, <1>2
-----------------------------------------------------------------------------
(* What the report says when the loop is over *)

\* A report without complaint is one of a consistent chain.
LEMMA CleanMeansConsistent ==
    ASSUME VerifierInv, step = "done"
    PROVE  Clean <=> Consistent(table)
<1>1. Len(table) \in Nat /\ DOMAIN table = 1..Len(table)
  BY TableLength DEF VerifierInv, Tables
<1>2. 1..(next - 1) = DOMAIN table
  BY <1>1 DEF VerifierInv, Stages
<1> QED BY <1>2 DEF VerifierInv, Reporting, Consistent, Fits

\* What the loop has found is what the report may say.
LEMMA VerifierInvExact ==
    ASSUME VerifierInv
    PROVE  ReportExact
<1>1. Len(table) \in Nat /\ DOMAIN table = 1..Len(table) /\ (table = <<>> <=> Len(table) = 0)
  BY TableLength DEF VerifierInv, Tables
<1>2. Len(written) \in Nat /\ (written = <<>> <=> Len(written) = 0)
  BY TableLength DEF VerifierInv, Tables
<1> SUFFICES ASSUME step = "done"
             PROVE  ReportExact
  BY DEF ReportExact, VerdictExact, MissingExact, FinalizedDamageReported
<1>3. root # <<>> =>
        root[1].count = Len(written) /\ root[1].hash = TailHash(written) /\ Len(written) # 0
  BY <1>2 DEF VerifierInv, Tables, Sealed
<1>4. ASSUME Consistent(table)
      PROVE  LastSequence(table) = Len(table)
  BY <1>1, <1>4 DEF LastSequence, Consistent
<1>5. ASSUME Consistent(table), root # <<>>
      PROVE  RootDisagrees(root[1]) <=>
               ~(root[1].count = Len(table) /\ root[1].hash = TailHash(table))
  BY <1>1, <1>3, <1>4, <1>5 DEF RootDisagrees
<1>6. mismatch = (root # <<>> /\ RootDisagrees(root[1]))
  BY DEF VerifierInv, Stages
<1>7. Valid <=> Clean /\ ~mismatch
  BY DEF Valid, Clean
<1>8. VerdictExact
  BY <1>5, <1>6, <1>7, CleanMeansConsistent DEF VerdictExact
<1>9. MissingExact
  <2>1. next = Len(table) + 1
    BY DEF VerifierInv, Stages
  <2>2. expectedSequence - 1 = LastSequence(table)
    <3>1. CASE table = <<>>
      BY <3>1, <2>1, <1>1 DEF VerifierInv, Expecting, LastSequence
    <3>2. CASE table # <<>>
      BY <3>2, <2>1, <1>1 DEF VerifierInv, Expecting, LastSequence, Tables, IsTable
    <3> QED BY <3>1, <3>2
  <2>3. 1..(next - 1) = DOMAIN table
    BY <2>1, <1>1
  <2> QED BY <2>2, <2>3 DEF MissingExact, VerifierInv, Reporting
<1>10. FinalizedDamageReported
  <2> SUFFICES ASSUME root # <<>>, Valid
               PROVE  table = written
    BY DEF FinalizedDamageReported
  <2>1. Consistent(table) /\ root[1].count = Len(table) /\ root[1].hash = TailHash(table)
    BY <1>8 DEF VerdictExact
  <2> QED BY <2>1, <1>3, TailFixesChain DEF VerifierInv, Tables
<1> QED BY <1>8, <1>9, <1>10 DEF ReportExact

\* The invariant of the verifier holds throughout.
LEMMA VerifierInvHolds == Spec => []VerifierInv
  BY VerifierInitInv, StepKeepsVerifierInv, PTL DEF Spec

\* The verdict on a chain of any length, after any damage to its table, is exact: it is
\* valid exactly when every row is in its place, carries the hash of its predecessor and of
\* its contents, and agrees with the finalized root; what is reported missing is
\* missing; and a finalized chain that is reported valid is the one that was written
\* (agenttraceback-crypto/src/chain.rs, verify; store/lib.rs, verify_chain_sync).
THEOREM VerdictsAreExact == Spec => []ReportExact
  BY VerifierInvHolds, VerifierInvExact, PTL
-----------------------------------------------------------------------------
(* HookInstallation: the inductive invariant *)

HookRequest ==
    {NoRequest}
    \cup [phase : {"lookup", "unmerge"}]
    \cup [phase : {"replan", "read"}, plan : Settings]
    \cup [phase : {"copy", "rename", "save"}, plan : Settings, output : Settings, seen : Settings]
    \cup [phase : {"rename", "delete"}, output : Settings, seen : Settings]

HookTypes ==
    /\ file \in Settings \cup {None} /\ approved \in Settings \cup {None}
    /\ receipt \in BOOLEAN /\ uncertain \in BOOLEAN
    /\ request \in [Requests -> HookRequest]

\* Whoever tags an entry puts the command into it.
Tagged(f) == \A e \in HookEvents : \A h \in f.hooks[e] : h.managed => h.ours

HasPlan(r) == "plan" \in DOMAIN request[r]

\* What a request is going to write.
Prepared(r) ==
    /\ request[r].phase \in {"copy", "rename"} => Tagged(request[r].output)
    /\ request[r].phase \in {"copy", "rename"} /\ HasPlan(r) =>
        /\ request[r].output = Merged(request[r].plan)
        /\ Present(request[r].output)
    /\ request[r].phase = "rename" /\ HasPlan(r) => request[r].seen \in backups
    /\ request[r].phase = "rename" /\ ~HasPlan(r) =>
        /\ request[r].output = Removed(request[r].seen)
        /\ ~Present(request[r].output)

\* Undisturbed, one request is at work; what it has written waits for its receipt.
Alone == ~uncertain => \A r, q \in Working : r = q
Receipted ==
    ~uncertain =>
        /\ \A r \in Requests :
            /\ request[r].phase = "save" => Present(file)
            /\ request[r].phase = "delete" => ~Present(file)
        /\ (\A r \in Requests : request[r].phase \notin {"save", "delete"}) =>
            (receipt <=> Present(file))

HookInv ==
    /\ HookTypes
    /\ file # None => Tagged(file)
    /\ \A r \in Requests : Prepared(r)
    /\ Alone /\ Receipted
-----------------------------------------------------------------------------
(* Settings *)

\* What is read of a file, or in its absence, are settings.
LEMMA ReadSettings ==
    ASSUME HookInv
    PROVE  ReadOptional \in Settings /\ Tagged(ReadOptional)
  BY DEF HookInv, HookTypes, ReadOptional, Empty, Settings, Hooks, NoHooks, Tagged

\* The hooks are in what is merged, as they are in what has a tag.
LEMMA MergedHasHooks ==
    ASSUME NEW f \in Settings, Tagged(f)
    PROVE  Merged(f) \in Settings /\ Tagged(Merged(f)) /\ Present(Merged(f))
<1> DEFINE o == IF f.kind = "object" THEN f ELSE Empty
           m == [e \in HookEvents |-> IF AlreadyPresent(o.hooks[e]) THEN o.hooks[e]
                                      ELSE o.hooks[e] \cup {OurEntry}]
<1>1. /\ o \in Settings /\ o.kind = "object"
      /\ \A e \in HookEvents : \A h \in o.hooks[e] : h.managed => h.ours
  BY DEF Empty, Settings, Hooks, NoHooks, Tagged
<1>2. OurEntry \in Entry /\ OurEntry.ours
  BY DEF OurEntry, Entry
<1>3. m \in Hooks
  BY <1>1, <1>2 DEF Hooks, Settings
<1>4. Merged(f) = [o EXCEPT !.hooks = m]
  BY DEF Merged
<1> HIDE DEF o, m
<1>5. Merged(f) \in Settings /\ Merged(f).kind = "object" /\ Merged(f).hooks = m
  BY <1>1, <1>3, <1>4 DEF Settings
<1>6. ASSUME NEW e \in HookEvents
      PROVE  (\E h \in m[e] : h.ours) /\ \A h \in m[e] : h.managed => h.ours
  BY <1>1, <1>2 DEF m, AlreadyPresent
<1>7. Merged(f) # None
  BY <1>5, HookAssumption
<1> QED BY <1>5, <1>6, <1>7, HookAssumption DEF Tagged, Present

\* What an uninstall leaves of an entry is not ours.
LEMMA CleanedEntries ==
    ASSUME NEW S \in SUBSET Entry
    PROVE  /\ Cleaned(S) \in SUBSET Entry
           /\ \A h \in Cleaned(S) : ~h.managed /\ ~h.ours
           /\ (\E h \in Cleaned(S) : h.theirs) <=> (\E h \in S : h.theirs)
<1> DEFINE user == [managed |-> FALSE, ours |-> FALSE, theirs |-> TRUE]
<1>1. user \in Entry /\ ~user.managed /\ ~user.ours /\ user.theirs
  BY DEF Entry
<1>2. Cleaned(S) = {user : h \in {x \in S : x.theirs}}
  BY DEF Cleaned
<1> HIDE DEF user
<1>3. ASSUME NEW h \in Cleaned(S)
      PROVE  h = user /\ \E x \in S : x.theirs
  BY <1>2
<1>4. ASSUME NEW x \in S, x.theirs
      PROVE  user \in Cleaned(S)
  BY <1>2, <1>4
<1> QED BY <1>1, <1>3, <1>4

\* What is removed leaves the user's settings, but for a text, which is no settings.
LEMMA RemovedHasNone ==
    ASSUME NEW f \in Settings, Tagged(f)
    PROVE  /\ Removed(f) \in Settings /\ Tagged(Removed(f)) /\ ~Present(Removed(f))
           /\ f.kind # "text" => Theirs(Removed(f)) = Theirs(f)
<1>1. CASE f.kind = "text"
  BY <1>1 DEF Removed, Empty, Settings, Hooks, NoHooks, Tagged, Present
<1>2. CASE f.kind = "value"
  BY <1>2 DEF Removed, Present
<1>3. CASE f.kind = "object"
  <2> DEFINE c == [e \in HookEvents |-> Cleaned(f.hooks[e])]
  <2>1. \A e \in HookEvents : f.hooks[e] \in SUBSET Entry
    BY DEF Settings, Hooks
  <2>2. c \in Hooks
    BY <2>1, CleanedEntries DEF Hooks
  <2>3. Removed(f) = [f EXCEPT !.hooks = c]
    BY <1>3 DEF Removed
  <2>4. \A e \in HookEvents :
          /\ \A h \in c[e] : ~h.managed /\ ~h.ours
          /\ (\E h \in c[e] : h.theirs) <=> (\E h \in f.hooks[e] : h.theirs)
    BY <2>1, CleanedEntries
  <2> HIDE DEF c
  <2>5. /\ Removed(f) \in Settings /\ Removed(f).hooks = c /\ Removed(f).user = f.user
    BY <2>2, <2>3 DEF Settings
  <2> QED BY <2>4, <2>5 DEF Tagged, Present, Theirs
<1> QED BY <1>1, <1>2, <1>3 DEF Settings
-----------------------------------------------------------------------------
(* Steps of the requests, of the user and of others *)

\* At the start, no request is under way.
LEMMA HookInitInv == HookInit => HookInv
<1> SUFFICES ASSUME HookInit PROVE HookInv
  OBVIOUS
<1>1. NoRequest \in HookRequest /\ NoRequest.phase = "idle"
  BY DEF NoRequest, HookRequest
<1>2. NoHooks \in Hooks /\ \A e \in HookEvents : NoHooks[e] = {}
  BY DEF NoHooks, Hooks
<1>3. HookTypes
  BY <1>1, <1>2 DEF HookInit, HookTypes, Settings
<1>4. file # None => Tagged(file)
  BY <1>2 DEF HookInit, Tagged
<1>5. ~Present(file) /\ receipt = FALSE
  BY <1>2 DEF HookInit, Present
<1> QED BY <1>1, <1>3, <1>4, <1>5 DEF HookInv, HookInit, Prepared, Alone, Receipted, Working

\* A request that goes on, or ends, without writing.
LEMMA RequestGoes ==
    ASSUME HookInv, NEW r \in Requests, NEW x \in HookRequest,
           request' = [request EXCEPT ![r] = x], UNCHANGED <<file, receipt, approved>>,
           backups \subseteq backups', uncertain' \in BOOLEAN,
           uncertain => uncertain',
           ~uncertain' => x.phase = "idle" \/ \A q \in Working : q = r,
           ~uncertain' => request[r].phase \notin {"save", "delete"},
           x.phase \notin {"save", "delete"}, Prepared(r)'
    PROVE  HookInv'
<1>1. HookTypes'
  BY DEF HookInv, HookTypes
<1>2. /\ \A q \in Requests : q # r => request'[q] = request[q]
      /\ request'[r] = x
  BY DEF HookInv, HookTypes
<1>3. ASSUME NEW q \in Requests PROVE Prepared(q)'
  <2>1. CASE q # r
    BY <2>1, <1>2 DEF HookInv, Prepared, HasPlan
  <2> QED BY <2>1
<1>4. Alone'
  BY <1>2 DEF HookInv, Alone, Working
<1>5. Receipted'
  BY <1>2 DEF HookInv, Receipted
<1> QED BY <1>1, <1>3, <1>4, <1>5 DEF HookInv, Tagged

\* A request that begins has written nothing.
LEMMA BeginKeeps ==
    ASSUME HookInv, NEW r \in Requests, NEW x \in HookRequest, Begin(r, x),
           x.phase \in {"replan", "lookup"}
    PROVE  HookInv'
<1>1. request[r].phase = "idle"
  BY DEF Begin, NoRequest
<1>2. Prepared(r)'
  BY DEF Begin, Prepared, HookInv, HookTypes
<1>3. uncertain' \in BOOLEAN
  BY DEF Begin, HookInv, HookTypes
<1>4. ~uncertain' => \A q \in Working : q = r
  BY DEF Begin
<1> QED BY <1>1, <1>2, <1>3, <1>4, RequestGoes DEF Begin

\* A request that ended is one that has not begun.
LEMMA RequestEnds == NoRequest \in HookRequest /\ NoRequest.phase = "idle"
  BY DEF NoRequest, HookRequest

\* A request that is at work is alone while nothing disturbs.
LEMMA WorkingAlone ==
    ASSUME HookInv, NEW r \in Requests, request[r].phase # "idle"
    PROVE  ~uncertain => \A q \in Working : q = r
  BY DEF HookInv, Alone, Working

\* The fields of a request follow from where it is.
LEMMA RequestShape ==
    ASSUME HookTypes, NEW r \in Requests
    PROVE  /\ request[r].phase \in {"idle", "lookup", "unmerge", "replan", "read", "copy",
                                    "rename", "save", "delete"}
           /\ request[r].phase \in {"replan", "read"} =>
                request[r] \in [phase : {"replan", "read"}, plan : Settings]
           /\ request[r].phase \in {"lookup", "unmerge"} =>
                request[r] \in [phase : {"lookup", "unmerge"}]
           /\ request[r].phase \in {"copy", "save"} \/ (request[r].phase = "rename" /\ HasPlan(r)) =>
                /\ HasPlan(r)
                /\ request[r] \in [phase : {"copy", "rename", "save"}, plan : Settings,
                                   output : Settings, seen : Settings]
           /\ request[r].phase = "delete" \/ (request[r].phase = "rename" /\ ~HasPlan(r)) =>
                /\ ~HasPlan(r)
                /\ request[r] \in [phase : {"rename", "delete"}, output : Settings,
                                   seen : Settings]
<1> DEFINE x == request[r]
<1>1. x \in HookRequest
  BY DEF HookTypes
<1> HIDE DEF x
<1>2. CASE x = NoRequest
  BY <1>2 DEF NoRequest, x
<1>3. CASE x \in [phase : {"lookup", "unmerge"}]
  BY <1>3 DEF x
<1>4. CASE x \in [phase : {"replan", "read"}, plan : Settings]
  BY <1>4 DEF x
<1>5. CASE x \in [phase : {"copy", "rename", "save"}, plan : Settings, output : Settings,
                  seen : Settings]
  <2>1. HasPlan(r) /\ x.phase \in {"copy", "rename", "save"}
    BY <1>5 DEF x, HasPlan
  <2> QED BY <1>5, <2>1 DEF x
<1>6. CASE x \in [phase : {"rename", "delete"}, output : Settings, seen : Settings]
  <2>1. ~HasPlan(r) /\ x.phase \in {"rename", "delete"}
    BY <1>6 DEF x, HasPlan
  <2> QED BY <1>6, <2>1 DEF x
<1> QED BY <1>1, <1>2, <1>3, <1>4, <1>5, <1>6 DEF HookRequest

\* An approved plan begins an install.
LEMMA InstallKeeps ==
    ASSUME HookInv, NEW r \in Requests, InstallHook(r)
    PROVE  HookInv'
<1> DEFINE x == [phase |-> "replan", plan |-> approved]
<1>1. x \in HookRequest /\ x.phase = "replan"
  BY DEF InstallHook, HookInv, HookTypes, HookRequest
<1>2. Begin(r, x)
  BY DEF InstallHook
<1> HIDE DEF x
<1> QED BY <1>1, <1>2, BeginKeeps

\* An uninstall needs no plan.
LEMMA UninstallKeeps ==
    ASSUME HookInv, NEW r \in Requests, UninstallHook(r)
    PROVE  HookInv'
<1> DEFINE x == [phase |-> "lookup"]
<1>1. x \in HookRequest /\ x.phase = "lookup"
  BY DEF HookRequest
<1>2. Begin(r, x)
  BY DEF UninstallHook
<1> HIDE DEF x
<1> QED BY <1>1, <1>2, BeginKeeps

\* A plan that no longer fits the file is refused.
LEMMA ReplanKeeps ==
    ASSUME HookInv, NEW r \in Requests, Replan(r)
    PROVE  HookInv'
<1>1. request[r].phase = "replan" /\ uncertain' = uncertain /\ uncertain \in BOOLEAN
      /\ UNCHANGED <<file, receipt, approved>> /\ backups' = backups
  BY DEF Replan, HookInv, HookTypes
<1>2. request[r] \in [phase : {"replan", "read"}, plan : Settings]
  BY <1>1, RequestShape DEF HookInv
<1>3. request \in [Requests -> HookRequest]
  BY DEF HookInv, HookTypes
<1>4. CASE Goes(r, "read")
  <2>1. PICK x : x = [request[r] EXCEPT !.phase = "read"]
    OBVIOUS
  <2>2. x \in HookRequest /\ x.phase = "read"
    BY <1>2, <2>1 DEF HookRequest
  <2>3. request' = [request EXCEPT ![r] = x]
    BY <1>4, <2>1 DEF Goes
  <2>4. Prepared(r)'
    BY <2>2, <2>3, <1>3 DEF Prepared
  <2> QED BY <1>1, <2>2, <2>3, <2>4, WorkingAlone, RequestGoes
<1>5. CASE Ends(r)
  <2>1. request' = [request EXCEPT ![r] = NoRequest]
    BY <1>5 DEF Ends
  <2>2. Prepared(r)'
    BY <2>1, <1>3, RequestEnds DEF Prepared
  <2> QED BY <1>1, <2>1, <2>2, RequestEnds, RequestGoes
<1> QED BY <1>4, <1>5 DEF Replan

\* What is merged is what is read, with our hooks.
LEMMA ReadForInstallKeeps ==
    ASSUME HookInv, NEW r \in Requests, ReadForInstall(r)
    PROVE  HookInv'
<1>1. request[r].phase = "read" /\ uncertain' = uncertain /\ uncertain \in BOOLEAN
      /\ UNCHANGED <<file, receipt, approved>> /\ backups' = backups
  BY DEF ReadForInstall, HookInv, HookTypes
<1>2. request \in [Requests -> HookRequest]
      /\ request[r] \in [phase : {"replan", "read"}, plan : Settings]
  BY <1>1, RequestShape DEF HookInv, HookTypes
<1>3. CASE HashUnchanged(r)
  <2>1. PICK x : x = [phase |-> "copy", plan |-> request[r].plan,
                      output |-> Merged(ReadOptional), seen |-> ReadOptional]
    OBVIOUS
  <2>2. /\ ReadOptional \in Settings /\ Merged(ReadOptional) \in Settings
        /\ Tagged(Merged(ReadOptional)) /\ Present(Merged(ReadOptional))
    BY ReadSettings, MergedHasHooks
  <2>3. x \in HookRequest /\ x.phase = "copy"
    BY <2>1, <2>2, <1>2 DEF HookRequest
  <2>4. request' = [request EXCEPT ![r] = x]
    BY <1>3, <2>1 DEF ReadForInstall
  <2>5. request'[r] = x
    BY <2>4, <1>2
  <2>6. x.output = Merged(x.plan) /\ Tagged(x.output) /\ Present(x.output)
    BY <1>3, <2>1, <2>2 DEF HashUnchanged
  <2>7. Prepared(r)'
    BY <2>3, <2>5, <2>6 DEF Prepared, Tagged, Present
  <2> QED BY <1>1, <2>3, <2>4, <2>7, WorkingAlone, RequestGoes
<1>4. CASE ~HashUnchanged(r)
  <2>1. request' = [request EXCEPT ![r] = NoRequest]
    BY <1>4 DEF ReadForInstall
  <2>2. Prepared(r)'
    BY <2>1, <1>2, RequestEnds DEF Prepared
  <2> QED BY <1>1, <2>1, <2>2, RequestEnds, RequestGoes
<1> QED BY <1>3, <1>4

\* The backup is that of the file that was there.
LEMMA CopyKeeps ==
    ASSUME HookInv, NEW r \in Requests, Copy(r)
    PROVE  HookInv'
<1>1. request[r].phase = "copy" /\ uncertain' = uncertain /\ uncertain \in BOOLEAN
      /\ UNCHANGED <<file, receipt, approved>> /\ backups' = backups \cup {ReadOptional}
  BY DEF Copy, BackupContent, HookInv, HookTypes
<1>2. /\ request \in [Requests -> HookRequest] /\ HasPlan(r)
      /\ request[r] \in [phase : {"copy", "rename", "save"}, plan : Settings,
                         output : Settings, seen : Settings]
  <2>1. HookTypes
    BY DEF HookInv
  <2>2. request \in [Requests -> HookRequest]
    BY <2>1 DEF HookTypes
  <2>3. request[r].phase \in {"copy", "save"}
    BY <1>1
  <2>4. HasPlan(r) /\ request[r] \in [phase : {"copy", "rename", "save"}, plan : Settings,
                                     output : Settings, seen : Settings]
    BY <2>1, <2>3, RequestShape
  <2> QED BY <2>2, <2>4
<1>3. PICK x : x = [request[r] EXCEPT !.phase = "rename", !.seen = ReadOptional]
  OBVIOUS
<1>4. /\ x \in HookRequest /\ x.phase = "rename" /\ x.seen = ReadOptional
      /\ x.output = request[r].output /\ x.plan = request[r].plan /\ "plan" \in DOMAIN x
  BY <1>2, <1>3, ReadSettings DEF HookRequest
<1>5. request' = [request EXCEPT ![r] = x]
  BY <1>2, <1>3 DEF Copy
<1>6. request'[r] = x
  BY <1>5, <1>2
<1>7. Prepared(r)
  BY DEF HookInv
<1>8. Prepared(r)'
  BY <1>1, <1>2, <1>4, <1>6, <1>7 DEF Prepared, HasPlan, Tagged, Present
<1> QED BY <1>1, <1>4, <1>5, <1>8, WorkingAlone, RequestGoes

\* Without a receipt there is nothing to undo.
LEMMA LookUpKeeps ==
    ASSUME HookInv, NEW r \in Requests, LookUpReceipt(r)
    PROVE  HookInv'
<1>1. request[r].phase = "lookup" /\ uncertain' = uncertain /\ uncertain \in BOOLEAN
      /\ UNCHANGED <<file, receipt, approved>> /\ backups' = backups
  BY DEF LookUpReceipt, HookInv, HookTypes
<1>2. request \in [Requests -> HookRequest]
      /\ request[r] \in [phase : {"lookup", "unmerge"}]
  BY <1>1, RequestShape DEF HookInv, HookTypes
<1>3. CASE Goes(r, "unmerge")
  <2>1. PICK x : x = [request[r] EXCEPT !.phase = "unmerge"]
    OBVIOUS
  <2>2. x \in HookRequest /\ x.phase = "unmerge"
    BY <1>2, <2>1 DEF HookRequest
  <2>3. request' = [request EXCEPT ![r] = x]
    BY <1>3, <2>1 DEF Goes
  <2>4. Prepared(r)'
    BY <2>2, <2>3, <1>2 DEF Prepared
  <2> QED BY <1>1, <2>2, <2>3, <2>4, WorkingAlone, RequestGoes
<1>4. CASE Ends(r)
  <2>1. request' = [request EXCEPT ![r] = NoRequest]
    BY <1>4 DEF Ends
  <2>2. Prepared(r)'
    BY <2>1, <1>2, RequestEnds DEF Prepared
  <2> QED BY <1>1, <2>1, <2>2, RequestEnds, RequestGoes
<1> QED BY <1>3, <1>4 DEF LookUpReceipt

\* What is written is what is read, without our hooks.
LEMMA ReadForUninstallKeeps ==
    ASSUME HookInv, NEW r \in Requests, ReadForUninstall(r)
    PROVE  HookInv'
<1>1. request[r].phase = "unmerge" /\ uncertain' = uncertain /\ uncertain \in BOOLEAN
      /\ UNCHANGED <<file, receipt, approved>> /\ backups' = backups
  BY DEF ReadForUninstall, HookInv, HookTypes
<1>2. request \in [Requests -> HookRequest]
  BY DEF HookInv, HookTypes
<1>3. PICK x : x = [phase |-> "rename", output |-> Removed(ReadOptional), seen |-> ReadOptional]
  OBVIOUS
<1>4. /\ ReadOptional \in Settings /\ Removed(ReadOptional) \in Settings
      /\ Tagged(Removed(ReadOptional)) /\ ~Present(Removed(ReadOptional))
  BY ReadSettings, RemovedHasNone
<1>5. x \in HookRequest /\ x.phase = "rename" /\ "plan" \notin DOMAIN x
  BY <1>3, <1>4 DEF HookRequest
<1>6. request' = [request EXCEPT ![r] = x]
  BY <1>3 DEF ReadForUninstall
<1>7. request'[r] = x
  BY <1>6, <1>2
<1>8. x.output = Removed(x.seen) /\ Tagged(x.output) /\ ~Present(x.output)
  BY <1>3, <1>4
<1>9. Prepared(r)'
  BY <1>5, <1>7, <1>8 DEF Prepared, HasPlan, Tagged, Present, Removed, Empty, NoHooks, Cleaned
<1> QED BY <1>1, <1>5, <1>6, <1>9, WorkingAlone, RequestGoes

\* What is written waits for the receipt to follow.
LEMMA RenameKeeps ==
    ASSUME HookInv, NEW r \in Requests, Rename(r)
    PROVE  HookInv'
<1>1. /\ request[r].phase = "rename" /\ file' = request[r].output
      /\ Goes(r, IF HasPlan(r) THEN "save" ELSE "delete")
      /\ UNCHANGED <<backups, receipt, approved, uncertain>>
  BY DEF Rename, HasPlan
<1>2. request \in [Requests -> HookRequest] /\ Prepared(r)
  BY DEF HookInv, HookTypes
<1>3. PICK x : x = [request[r] EXCEPT !.phase = IF HasPlan(r) THEN "save" ELSE "delete"]
  OBVIOUS
<1>4. x \in HookRequest /\ x.phase = (IF HasPlan(r) THEN "save" ELSE "delete")
      /\ request[r].output \in Settings
  <2>1. CASE HasPlan(r)
    BY <1>1, <1>3, <2>1, RequestShape DEF HookRequest, HookInv
  <2>2. CASE ~HasPlan(r)
    BY <1>1, <1>3, <2>2, RequestShape DEF HookRequest, HookInv
  <2> QED BY <2>1, <2>2
<1>5. request' = [request EXCEPT ![r] = x]
  BY <1>1, <1>3 DEF Goes
<1>6. /\ \A q \in Requests : q # r => request'[q] = request[q]
      /\ request'[r] = x
  BY <1>5, <1>2
<1>7. HookTypes'
  BY <1>1, <1>4, <1>5 DEF HookInv, HookTypes
<1>8. Tagged(file')
  BY <1>1, <1>2 DEF Prepared
<1>9. ASSUME NEW q \in Requests PROVE Prepared(q)'
  <2>1. CASE q # r
    BY <2>1, <1>1, <1>6 DEF HookInv, Prepared, HasPlan, Tagged, Present
  <2>2. CASE q = r
    BY <2>2, <1>4, <1>6 DEF Prepared
  <2> QED BY <2>1, <2>2
<1>10. ~uncertain => \A q \in Working : q = r
  BY <1>1, WorkingAlone
<1>11. Alone'
  BY <1>1, <1>6, <1>10 DEF Alone, Working
<1>12. Present(file') <=> HasPlan(r)
  BY <1>1, <1>2 DEF Prepared
<1>13. Receipted'
  <2> SUFFICES ASSUME ~uncertain PROVE Receipted'
    BY <1>1 DEF Receipted
  <2>1. \A q \in Requests : q # r => request[q].phase = "idle"
    BY <1>10 DEF Working
  <2>2. request'[r].phase \in {"save", "delete"}
    BY <1>4, <1>6
  <2> QED BY <1>4, <1>6, <1>12, <2>1, <2>2 DEF Receipted
<1> QED BY <1>7, <1>8, <1>9, <1>11, <1>13 DEF HookInv, Tagged

\* The receipt, and then nothing: the request was the only one to know that it was due.
LEMMA ReceiptKeeps ==
    ASSUME HookInv, NEW r \in Requests, SaveReceipt(r) \/ DeleteReceipt(r)
    PROVE  HookInv'
<1>1. /\ request' = [request EXCEPT ![r] = NoRequest]
      /\ UNCHANGED <<file, backups, approved, uncertain>>
      /\ receipt' = (request[r].phase = "save") /\ request[r].phase \in {"save", "delete"}
  BY DEF SaveReceipt, DeleteReceipt, ReceiptAfterUninstall, Ends
<1>2. request \in [Requests -> HookRequest]
  BY DEF HookInv, HookTypes
<1>3. /\ \A q \in Requests : q # r => request'[q] = request[q]
      /\ request'[r] = NoRequest
  BY <1>1, <1>2
<1>4. HookTypes'
  BY <1>1, RequestEnds DEF HookInv, HookTypes
<1>5. ASSUME NEW q \in Requests PROVE Prepared(q)'
  <2>1. CASE q # r
    BY <2>1, <1>1, <1>3 DEF HookInv, Prepared, HasPlan, Tagged, Present
  <2>2. CASE q = r
    BY <2>2, <1>3, RequestEnds DEF Prepared
  <2> QED BY <2>1, <2>2
<1>6. ~uncertain => \A q \in Working : q = r
  BY <1>1, WorkingAlone
<1>7. Alone'
  BY <1>1, <1>3, <1>6, RequestEnds DEF Alone, Working
<1>8. Receipted'
  <2> SUFFICES ASSUME ~uncertain PROVE Receipted'
    BY <1>1 DEF Receipted
  <2>1. \A q \in Requests : q # r => request[q].phase = "idle"
    BY <1>6 DEF Working
  <2>2. (request[r].phase = "save") <=> Present(file)
    BY <1>1 DEF HookInv, Receipted
  <2>3. Present(file') <=> Present(file)
    BY <1>1
  <2> QED BY <1>1, <1>3, <2>1, <2>2, <2>3, RequestEnds DEF Receipted
<1> QED BY <1>1, <1>4, <1>5, <1>7, <1>8 DEF HookInv, Tagged

\* A request that fails leaves what it has written.
LEMMA HookFailsKeeps ==
    ASSUME HookInv, NEW r \in Requests, HookFails(r)
    PROVE  HookInv'
<1>1. /\ request' = [request EXCEPT ![r] = NoRequest] /\ request[r].phase # "idle"
      /\ UNCHANGED <<file, backups, receipt, approved>>
      /\ uncertain' = (uncertain \/ request[r].phase \in {"save", "delete"})
  BY DEF HookFails, Ends
<1>2. uncertain \in BOOLEAN /\ uncertain' \in BOOLEAN
  BY <1>1 DEF HookInv, HookTypes
<1>3. Prepared(r)'
  BY <1>1, RequestEnds DEF Prepared, HookInv, HookTypes
<1> QED BY <1>1, <1>2, <1>3, RequestEnds, RequestGoes

\* A crash ends all requests, wherever they are.
LEMMA HookCrashKeeps ==
    ASSUME HookInv, HookCrash
    PROVE  HookInv'
<1>1. /\ request' = [r \in Requests |-> NoRequest]
      /\ UNCHANGED <<file, backups, receipt, approved>>
      /\ uncertain' = (uncertain \/ \E r \in Requests : request[r].phase \in {"save", "delete"})
  BY DEF HookCrash
<1>2. uncertain' \in BOOLEAN
  BY <1>1
<1>3. HookTypes'
  BY <1>1, <1>2, RequestEnds DEF HookInv, HookTypes
<1>4. ASSUME NEW r \in Requests PROVE Prepared(r)' /\ request'[r].phase = "idle"
  BY <1>1, RequestEnds DEF Prepared
<1>5. Alone' /\ Receipted'
  BY <1>1, <1>4 DEF Alone, Receipted, Working, HookInv
<1> QED BY <1>1, <1>3, <1>4, <1>5 DEF HookInv, Tagged

\* A command of the user put into an entry leaves ours and the tags.
LEMMA SharedHooks ==
    ASSUME NEW hooks \in Hooks, NEW g \in Shared(hooks),
           \A e \in HookEvents : \A h \in hooks[e] : h.managed => h.ours
    PROVE  /\ g \in Hooks
           /\ \A e \in HookEvents : \A h \in g[e] : h.managed => h.ours
<1> DEFINE own == [managed |-> FALSE, ours |-> FALSE, theirs |-> TRUE]
<1>1. own \in Entry /\ ~own.managed
  BY DEF Entry
<1>2. ASSUME NEW e \in HookEvents, NEW h \in hooks[e],
             g = [hooks EXCEPT ![e] = (@ \ {h}) \cup {[h EXCEPT !.theirs = TRUE]}]
      PROVE  /\ g \in Hooks
             /\ \A d \in HookEvents : \A x \in g[d] : x.managed => x.ours
  <2>1. PICK x : x = [h EXCEPT !.theirs = TRUE]
    OBVIOUS
  <2>2. h \in Entry
    BY DEF Hooks
  <2>3. x \in Entry /\ (x.managed => x.ours)
    BY <2>1, <2>2 DEF Entry
  <2>4. g = [hooks EXCEPT ![e] = (hooks[e] \ {h}) \cup {x}]
    BY <1>2, <2>1
  <2> QED BY <2>3, <2>4 DEF Hooks
<1>3. ASSUME NEW e \in HookEvents, g = [hooks EXCEPT ![e] = @ \cup {own}]
      PROVE  /\ g \in Hooks
             /\ \A d \in HookEvents : \A x \in g[d] : x.managed => x.ours
  <2> HIDE DEF own
  <2>1. /\ g[e] = hooks[e] \cup {own}
        /\ \A d \in HookEvents : d # e => g[d] = hooks[d]
    BY <1>3 DEF Hooks
  <2>2. g \in Hooks
    BY <1>1, <1>3 DEF Hooks
  <2>3. ASSUME NEW d \in HookEvents, NEW x \in g[d], x.managed
        PROVE  x.ours
    <3>1. x # own
      BY <1>1, <2>3
    <3>2. x \in hooks[d]
      BY <2>1, <2>3, <3>1
    <3> QED BY <2>3, <3>2
  <2> QED BY <2>2, <2>3
<1> QED BY <1>2, <1>3 DEF Shared

\* An edit that brings or takes our hooks makes the receipt uncertain.
LEMMA EditKeeps ==
    ASSUME HookInv, Edit
    PROVE  HookInv'
<1> DEFINE now == ReadOptional
           hooks == IF now.kind = "object" THEN now.hooks ELSE NoHooks
<1>1. /\ uncertain' = (uncertain \/ Present(file) # Present(file'))
      /\ UNCHANGED <<backups, receipt, approved, request>>
      /\ \/ \E k \in {"text", "value", "object"}, u \in Users :
              file' = [kind |-> k, user |-> u, hooks |-> IF k = "object" THEN hooks ELSE NoHooks]
         \/ \E h \in Shared(hooks) : file' = [kind |-> "object", user |-> now.user, hooks |-> h]
         \/ file' = None
  BY DEF Edit
<1>2. now \in Settings /\ Tagged(now)
  BY ReadSettings
<1> HIDE DEF now
<1>3. /\ hooks \in Hooks /\ now.user \in Users \cup {None} /\ NoHooks \in Hooks
      /\ \A e \in HookEvents : NoHooks[e] = {}
  BY <1>2 DEF Settings, NoHooks, Hooks
<1>4. \A e \in HookEvents : \A h \in hooks[e] : h.managed => h.ours
  BY <1>2, <1>3 DEF Tagged
<1> HIDE DEF hooks
<1>5. file' \in Settings \cup {None} /\ (file' # None => Tagged(file'))
  <2>1. ASSUME NEW k \in {"text", "value", "object"}, NEW u \in Users,
               file' = [kind |-> k, user |-> u, hooks |-> IF k = "object" THEN hooks ELSE NoHooks]
        PROVE  file' \in Settings /\ Tagged(file')
    BY <2>1, <1>3, <1>4 DEF Settings, Tagged
  <2>2. ASSUME NEW h \in Shared(hooks),
               file' = [kind |-> "object", user |-> now.user, hooks |-> h]
        PROVE  file' \in Settings /\ Tagged(file')
    <3>1. h \in Hooks /\ \A e \in HookEvents : \A x \in h[e] : x.managed => x.ours
      BY <1>3, <1>4, SharedHooks
    <3> QED BY <2>2, <3>1, <1>3 DEF Settings, Tagged
  <2> QED BY <1>1, <2>1, <2>2
<1>6. HookTypes'
  BY <1>1, <1>5 DEF HookInv, HookTypes
<1>7. \A r \in Requests : Prepared(r)'
  BY <1>1 DEF HookInv, Prepared, HasPlan, Tagged, Present
<1>8. Alone' /\ Receipted'
  <2>1. ~uncertain' => ~uncertain /\ (Present(file') <=> Present(file))
    BY <1>1
  <2> QED BY <1>1, <2>1 DEF HookInv, Alone, Receipted, Working
<1> QED BY <1>5, <1>6, <1>7, <1>8 DEF HookInv, Tagged

\* A plan is of settings that carry our tag.
LEMMA PlanKeeps ==
    ASSUME HookInv, Plan
    PROVE  HookInv'
<1>1. HookTypes'
  BY ReadSettings DEF Plan, HookInv, HookTypes
<1> QED BY <1>1 DEF Plan, HookInv, Prepared, HasPlan, Tagged, Present, Alone, Receipted, Working

\* Every step of a request, a crash or a user keeps the invariant.
LEMMA StepKeepsHookInv == HookInv /\ [HookNext]_hookVars => HookInv'
<1> SUFFICES ASSUME HookInv, [HookNext]_hookVars PROVE HookInv'
  OBVIOUS
<1>1. CASE HookNext
  BY <1>1, PlanKeeps, HookCrashKeeps, EditKeeps, InstallKeeps, UninstallKeeps, ReplanKeeps,
     ReadForInstallKeeps, CopyKeeps, RenameKeeps, ReceiptKeeps, LookUpKeeps,
     ReadForUninstallKeeps, HookFailsKeeps DEF HookNext, Step
<1>2. CASE UNCHANGED hookVars
  BY <1>2 DEF hookVars, HookInv, HookTypes, Prepared, HasPlan, Tagged, Present, Alone, Receipted,
              Working
<1> QED BY <1>1, <1>2

\* The invariant of the hooks holds throughout.
LEMMA HookInvHolds == HookSpec => []HookInv
  BY HookInitInv, StepKeepsHookInv, PTL DEF HookSpec

\* For any number of requests and hooks: unless requests overlapped or were cut short, or
\* others edited the hooks, there is a receipt exactly while hooks of ours are in the
\* settings, whatever else was edited (adapters/claude.rs, install_hook, uninstall_hook;
\* api/lib.rs, install_adapter_hook, uninstall_adapter_hook).
THEOREM ReceiptsAgree == HookSpec => []ReceiptAgrees
<1>1. ASSUME HookInv PROVE ReceiptAgrees
  <2> SUFFICES ASSUME Working = {}, ~uncertain PROVE receipt <=> Present(file)
    BY DEF ReceiptAgrees
  <2>1. \A r \in Requests : request[r].phase = "idle"
    BY DEF Working
  <2> QED BY <1>1, <2>1 DEF HookInv, Receipted
<1> QED BY <1>1, HookInvHolds, PTL

\* Only a rename goes on to the receipt.
LEMMA OnlyRenameWrites ==
    ASSUME HookInv, [HookNext]_hookVars, NEW r \in Requests,
           request[r].phase = "rename", request'[r].phase \in {"save", "delete"}
    PROVE  Rename(r)
<1>1. request \in [Requests -> HookRequest]
  BY DEF HookInv, HookTypes
<1>2. HookNext /\ request' # request
  BY DEF hookVars
<1>3. ~Plan /\ ~Edit
  BY <1>2 DEF Plan, Edit
<1>4. ~HookCrash
  BY RequestEnds DEF HookCrash
<1>5. PICK q \in Requests : Step(q)
  BY <1>2, <1>3, <1>4 DEF HookNext
<1>6. \E x : request' = [request EXCEPT ![q] = x]
  BY <1>5 DEF Step, InstallHook, UninstallHook, Begin, Replan, ReadForInstall, Copy, Rename,
              SaveReceipt, LookUpReceipt, ReadForUninstall, DeleteReceipt, HookFails, Goes, Ends
<1>7. q = r
  BY <1>1, <1>6
<1>8. ~InstallHook(r) /\ ~UninstallHook(r)
  BY RequestEnds DEF InstallHook, UninstallHook, Begin
<1>9. ~HookFails(r)
  BY <1>1, RequestEnds DEF HookFails, Ends
<1>10. /\ ~Replan(r) /\ ~ReadForInstall(r) /\ ~Copy(r) /\ ~SaveReceipt(r)
       /\ ~LookUpReceipt(r) /\ ~ReadForUninstall(r) /\ ~DeleteReceipt(r)
  BY DEF Replan, ReadForInstall, Copy, SaveReceipt, LookUpReceipt, ReadForUninstall, DeleteReceipt
<1> QED BY <1>5, <1>7, <1>8, <1>9, <1>10 DEF Step

\* The rename puts in place what was read, with or without our hooks.
LEMMA RenameIsSafe ==
    ASSUME HookInv, NEW r \in Requests, Rename(r)
    PROVE  SettingsKept(r) /\ OnlyApproved(r)
<1>1. /\ request[r].phase = "rename" /\ file' = request[r].output /\ Prepared(r)
      /\ Goes(r, IF HasPlan(r) THEN "save" ELSE "delete")
  BY DEF Rename, HasPlan, HookInv
<1>2. request'[r].phase = IF HasPlan(r) THEN "save" ELSE "delete"
  <2>1. request \in [Requests -> HookRequest]
    BY DEF HookInv, HookTypes
  <2>2. PICK x : x = [request[r] EXCEPT !.phase = IF HasPlan(r) THEN "save" ELSE "delete"]
    OBVIOUS
  <2>3. x.phase = IF HasPlan(r) THEN "save" ELSE "delete"
    <3>1. CASE HasPlan(r)
      BY <1>1, <2>2, <3>1, RequestShape DEF HookInv
    <3>2. CASE ~HasPlan(r)
      BY <1>1, <2>2, <3>2, RequestShape DEF HookInv
    <3> QED BY <3>1, <3>2
  <2> QED BY <1>1, <2>1, <2>2, <2>3 DEF Goes
<1>3. OnlyApproved(r)
  BY <1>1, <1>2 DEF OnlyApproved, Prepared
<1>4. SettingsKept(r)
  <2> SUFFICES ASSUME file # None, file = request[r].seen, file \notin backups,
                      file.kind # "text" \/ HasPlan(r)
               PROVE  Kept(file, file')
    BY <1>2 DEF SettingsKept, Kept
  <2>1. ~HasPlan(r) /\ file' = Removed(file)
    BY <1>1 DEF Prepared
  <2>2. file \in Settings /\ Tagged(file)
    BY DEF HookInv, HookTypes
  <2> QED BY <2>1, <2>2, RemovedHasNone DEF Kept
<1> QED BY <1>3, <1>4

\* For any number of requests, users and hooks: a request that replaces the settings keeps
\* the user's part, in the file or in a backup, and installs what was approved, whatever
\* other requests, edits and crashes come between its steps (adapters/claude.rs,
\* install_hook, uninstall_hook, atomic_write_json).
THEOREM SettingsAreSafe == HookSpec => SettingsSafe
<1>1. HookInv /\ [HookNext]_hookVars =>
        [\A r \in Requests :
           (request[r].phase = "rename" /\ request'[r].phase \in {"save", "delete"}) =>
             SettingsKept(r) /\ OnlyApproved(r)]_hookVars
  BY OnlyRenameWrites, RenameIsSafe
<1> QED BY <1>1, HookInvHolds, PTL DEF HookSpec, SettingsSafe
-----------------------------------------------------------------------------
(* LocalApi: the inductive invariant of the demo dataset and its export *)

\* Where an install is that has created the session, in order.
WritesEvents == {"events"}
WritesVersions == {"file", "before", "after", "snapshots"}
WritesFindings == {"pair", "finding"}
HasAll == {"complete", "finalize", "installed"}
Inside == WritesEvents \cup WritesVersions \cup WritesFindings \cup HasAll

DemoTypes ==
    /\ session \in {"none", "active", "complete"} /\ rootRow \in BOOLEAN
    /\ eventsOf \in SUBSET Installs /\ pairs \in SUBSET Installs /\ findings \in SUBSET Installs
    /\ versions \in SUBSET [role : Roles, of : Installs] /\ snapshots \in SUBSET Roles
    /\ installing \in [Installs -> Inside \cup
                         {"idle", "project", "session", "present", "failed", "removed"}]
    /\ removals \in Nat

NoDemoRows ==
    eventsOf = {} /\ versions = {} /\ snapshots = {} /\ pairs = {} /\ findings = {} /\ ~rootRow

\* What the database has when the install that created the session has come so far.
WrittenBy(i) ==
    /\ session = IF installing[i] \in {"finalize", "installed"} THEN "complete" ELSE "active"
    /\ eventsOf = IF installing[i] = "events" THEN {} ELSE {i}
    /\ installing[i] \in {"events", "file", "before"} => versions = {}
    /\ installing[i] = "after" => versions = {Version("before", i)}
    /\ installing[i] \in {"snapshots"} \cup WritesFindings \cup HasAll =>
        versions = {Version("before", i), Version("after", i)}
    /\ snapshots = IF installing[i] \in WritesFindings \cup HasAll THEN Roles ELSE {}
    /\ pairs = IF installing[i] \in {"finding"} \cup HasAll THEN {i} ELSE {}
    /\ findings = IF installing[i] \in HasAll THEN {i} ELSE {}
    /\ rootRow <=> installing[i] = "installed"

\* A complete session has everything of one install.
Full ==
    /\ \E i \in Installs : eventsOf = {i} /\ findings = {i}
    /\ {v.role : v \in versions} = Roles

\* Where no removal overlapped an install, the rows are those of one install.
OneOwner ==
    disturbed = {} =>
        /\ \A i, j \in Installs : installing[i] \in Inside /\ installing[j] \in Inside => i = j
        /\ \A i \in Installs : installing[i] \in Inside => WrittenBy(i)
        /\ session = "none" => NoDemoRows
        /\ session = "complete" => Full

Exportable == Installs \cup Roles \cup (Installs \X (1..DemoEvents))
ExportTypes ==
    /\ export \in {Idle, Over} \cup
        [at : {"reading", "written"}, session : {"active", "complete"}, since : Nat,
         parts : [Parts -> SUBSET Exportable], left : SUBSET Parts]
    /\ export \notin {Idle, Over} => export.since <= removals

\* What an export of a session that install i completed has of each part.
Earliest(i) == {i} \X {n \in 1..DemoEvents : n <= ExportLimit}
Wanted(i, part) == CASE part = "events" -> Earliest(i)
                     [] part = "versions" -> Roles
                     [] part = "findings" -> {i}

WholeOf(i, parts) == \A part \in Parts : parts[part] = Wanted(i, part)
Whole(b) ==
    b.session = "complete" /\ ~b.overlapped => \E i \in Installs : WholeOf(i, b.parts)

\* The session that the summary called complete is there, and with it what has been read.
Undisturbed ==
    /\ export.at = "reading" /\ export.session = "complete"
    /\ removals = export.since /\ disturbed = {}
Reads ==
    Undisturbed =>
        /\ session = "complete"
        /\ \E i \in Installs :
              /\ eventsOf = {i} /\ findings = {i}
              /\ \A part \in Parts \ export.left : export.parts[part] = Wanted(i, part)
Exported == \A b \in exported.temporary \cup exported.final : Whole(b)

DemoInv == DemoTypes /\ OneOwner /\ ExportTypes /\ Reads /\ Exported
-----------------------------------------------------------------------------
(* Steps of an install, of a removal and of the export *)

\* Before the first install there is nothing.
LEMMA DemoInitInv == ApiInit => DemoInv
<1> SUFFICES ASSUME ApiInit PROVE DemoInv
  OBVIOUS
<1>1. \A i \in Installs : installing[i] = "idle" /\ installing[i] \notin Inside
  BY DEF ApiInit, Inside, WritesEvents, WritesVersions, WritesFindings, HasAll
<1>2. DemoTypes
  BY DEF ApiInit, DemoTypes
<1>3. OneOwner
  BY <1>1 DEF ApiInit, OneOwner, NoDemoRows
<1>4. export = Idle /\ export.at = "idle"
  BY DEF ApiInit, Idle
<1>5. ExportTypes /\ Reads /\ Exported
  BY <1>4 DEF ApiInit, ExportTypes, Reads, Undisturbed, Exported
<1> QED BY <1>2, <1>3, <1>5 DEF DemoInv

\* An install that is past the creation of the session writes the next of its rows.
OwnStep(i) ==
    \/ AppendDemoEvents(i) \/ UpsertFile(i)
    \/ InsertVersion(i, "before", "after") \/ InsertVersion(i, "after", "snapshots")
    \/ SaveSnapshots(i) \/ SavePair(i) \/ SaveFinding(i) \/ CompleteDemo(i) \/ FinalizeDemo(i)

\* Each write of an install adds its own rows and takes none away.
LEMMA OwnStepEffect ==
    ASSUME DemoInv, NEW i \in Installs, OwnStep(i)
    PROVE  /\ DemoTypes'
           /\ installing[i] \in Inside /\ installing'[i] \in Inside
           /\ \A j \in Installs : j # i => installing'[j] = installing[j]
           /\ session # "none" => session' # "none"
           /\ session = "complete" => session' = "complete"
           /\ eventsOf \subseteq eventsOf' /\ versions \subseteq versions'
           /\ findings \subseteq findings'
           /\ WrittenBy(i) => WrittenBy(i)'
           /\ UNCHANGED <<disturbed, removals, export, exported>>
<1> USE DEF Goto, Inside, WritesEvents, WritesVersions, WritesFindings, HasAll
<1>1. DemoTypes /\ installing \in [Installs -> Inside \cup
                      {"idle", "project", "session", "present", "failed", "removed"}]
  BY DEF DemoInv, DemoTypes
<1>2. CASE AppendDemoEvents(i)
  <2>1. DemoTypes'
    BY <1>1, <1>2 DEF AppendDemoEvents, DemoTypes
  <2>2. WrittenBy(i) => WrittenBy(i)'
    BY <1>1, <1>2 DEF AppendDemoEvents, WrittenBy
  <2> QED BY <1>1, <1>2, <2>1, <2>2 DEF AppendDemoEvents
<1>3. CASE UpsertFile(i)
  <2>1. DemoTypes'
    BY <1>1, <1>3 DEF UpsertFile, DemoTypes
  <2>2. WrittenBy(i) => WrittenBy(i)'
    BY <1>1, <1>3 DEF UpsertFile, WrittenBy
  <2> QED BY <1>1, <1>3, <2>1, <2>2 DEF UpsertFile
<1>4. CASE InsertVersion(i, "before", "after")
  <2>1. DemoTypes'
    BY <1>1, <1>4 DEF InsertVersion, DemoTypes, Version, Roles
  <2>2. WrittenBy(i) => WrittenBy(i)'
    BY <1>1, <1>4 DEF InsertVersion, WrittenBy, Version, Roles
  <2> QED BY <1>1, <1>4, <2>1, <2>2 DEF InsertVersion
<1>5. CASE InsertVersion(i, "after", "snapshots")
  <2>1. DemoTypes'
    BY <1>1, <1>5 DEF InsertVersion, DemoTypes, Version, Roles
  <2>2. WrittenBy(i) => WrittenBy(i)'
    BY <1>1, <1>5 DEF InsertVersion, WrittenBy, Version, Roles
  <2> QED BY <1>1, <1>5, <2>1, <2>2 DEF InsertVersion
<1>6. CASE SaveSnapshots(i)
  <2>1. DemoTypes'
    BY <1>1, <1>6 DEF SaveSnapshots, DemoTypes, Roles
  <2>2. WrittenBy(i) => WrittenBy(i)'
    BY <1>1, <1>6 DEF SaveSnapshots, WrittenBy, Roles
  <2> QED BY <1>1, <1>6, <2>1, <2>2 DEF SaveSnapshots
<1>7. CASE SavePair(i)
  <2>1. DemoTypes'
    BY <1>1, <1>7 DEF SavePair, DemoTypes
  <2>2. WrittenBy(i) => WrittenBy(i)'
    BY <1>1, <1>7 DEF SavePair, WrittenBy
  <2> QED BY <1>1, <1>7, <2>1, <2>2 DEF SavePair
<1>8. CASE SaveFinding(i)
  <2>1. DemoTypes'
    BY <1>1, <1>8 DEF SaveFinding, DemoTypes
  <2>2. WrittenBy(i) => WrittenBy(i)'
    BY <1>1, <1>8 DEF SaveFinding, WrittenBy
  <2> QED BY <1>1, <1>8, <2>1, <2>2 DEF SaveFinding
<1>9. CASE CompleteDemo(i)
  <2>1. DemoTypes'
    BY <1>1, <1>9 DEF CompleteDemo, DemoTypes
  <2>2. WrittenBy(i) => WrittenBy(i)'
    BY <1>1, <1>9 DEF CompleteDemo, WrittenBy
  <2> QED BY <1>1, <1>9, <2>1, <2>2 DEF CompleteDemo
<1>10. CASE FinalizeDemo(i)
  <2>1. DemoTypes'
    BY <1>1, <1>10 DEF FinalizeDemo, DemoTypes
  <2>2. WrittenBy(i) => WrittenBy(i)'
    BY <1>1, <1>10 DEF FinalizeDemo, WrittenBy
  <2> QED BY <1>1, <1>10, <2>1, <2>2 DEF FinalizeDemo
<1> QED BY <1>2, <1>3, <1>4, <1>5, <1>6, <1>7, <1>8, <1>9, <1>10 DEF OwnStep

\* While an install owns the session, its writes keep the invariant.
LEMMA OwnStepKeeps ==
    ASSUME DemoInv, NEW i \in Installs, OwnStep(i)
    PROVE  DemoInv'
<1>1. /\ DemoTypes'
      /\ installing[i] \in Inside /\ installing'[i] \in Inside
      /\ \A j \in Installs : j # i => installing'[j] = installing[j]
      /\ session = "complete" => session' = "complete"
      /\ WrittenBy(i) => WrittenBy(i)'
      /\ UNCHANGED <<disturbed, removals, export, exported>>
  BY OwnStepEffect
<1>2. OneOwner'
  <2> SUFFICES ASSUME disturbed = {} PROVE OneOwner'
    BY <1>1 DEF OneOwner
  <2>1. /\ \A j \in Installs : installing[j] \in Inside => i = j
        /\ WrittenBy(i)'
    BY <1>1 DEF DemoInv, OneOwner
  <2>2. \A j \in Installs : installing'[j] \in Inside => i = j
    BY <1>1, <2>1
  <2>3. session' # "none"
    BY <2>1 DEF WrittenBy
  <2>4. ASSUME session' = "complete" PROVE Full'
    <3>1. installing'[i] \in {"finalize", "installed"}
      BY <2>1, <2>4 DEF WrittenBy
    <3>2. /\ eventsOf' = {i} /\ findings' = {i}
          /\ versions' = {Version("before", i), Version("after", i)}
      BY <2>1, <3>1 DEF WrittenBy, HasAll
    <3>3. {v.role : v \in versions'} = Roles
      BY <3>2 DEF Version, Roles
    <3> QED BY <3>2, <3>3 DEF Full
  <2> QED BY <2>1, <2>2, <2>3, <2>4 DEF OneOwner
<1>3. ExportTypes' /\ Exported'
  BY <1>1 DEF DemoInv, ExportTypes, Exported, Whole
<1>4. Reads'
  <2> SUFFICES ASSUME Undisturbed PROVE Reads'
    BY <1>1 DEF Reads, Undisturbed
  <2>1. session = "complete" /\ session' = "complete" /\ WrittenBy(i) /\ WrittenBy(i)'
    BY <1>1 DEF DemoInv, Reads, OneOwner, Undisturbed
  <2>2. eventsOf = {i} /\ findings = {i} /\ eventsOf' = {i} /\ findings' = {i}
    BY <2>1 DEF WrittenBy, HasAll
  <2>3. PICK j \in Installs :
            /\ eventsOf = {j}
            /\ \A part \in Parts \ export.left : export.parts[part] = Wanted(j, part)
    BY DEF DemoInv, Reads
  <2>4. \A part \in Parts \ export.left : export.parts[part] = Wanted(i, part)
    BY <2>2, <2>3
  <2> QED BY <1>1, <2>1, <2>2, <2>4 DEF Reads
<1> QED BY <1>1, <1>2, <1>3, <1>4 DEF DemoInv

\* What happens outside the rows: a look, the project's row, a failure.
LEMMA LeavesRowsKeeps ==
    ASSUME DemoInv, NEW i \in Installs, Lookup(i) \/ UpsertProject(i) \/ Fail(i)
    PROVE  DemoInv'
<1>1. PICK x \in {"present", "project", "session", "failed"} :
        installing' = [installing EXCEPT ![i] = x]
  BY DEF Lookup, UpsertProject, Fail, Goto
<1>2. UNCHANGED <<session, eventsOf, versions, snapshots, pairs, findings, rootRow, disturbed,
                 removals, export, exported>>
  BY DEF Lookup, UpsertProject, Fail, Goto, rows
<1>3. x \notin Inside
  BY <1>1 DEF Inside, WritesEvents, WritesVersions, WritesFindings, HasAll
<1>4. /\ installing'[i] \notin Inside
      /\ \A j \in Installs : j # i => installing'[j] = installing[j]
  BY <1>1, <1>3 DEF DemoInv, DemoTypes
<1>5. DemoTypes'
  BY <1>1, <1>2 DEF DemoInv, DemoTypes
<1>6. \A j \in Installs : installing'[j] \in Inside =>
        installing[j] \in Inside /\ (WrittenBy(j) => WrittenBy(j)')
  BY <1>2, <1>4 DEF WrittenBy
<1>7. OneOwner'
  <2> SUFFICES ASSUME disturbed = {} PROVE OneOwner'
    BY <1>2 DEF OneOwner
  <2>1. /\ session' = "none" => NoDemoRows'
        /\ session' = "complete" => Full'
    BY <1>2 DEF DemoInv, OneOwner, NoDemoRows, Full
  <2> QED BY <1>6, <2>1 DEF DemoInv, OneOwner
<1>8. ExportTypes' /\ Reads' /\ Exported'
  BY <1>2 DEF DemoInv, ExportTypes, Reads, Undisturbed, Exported, Whole
<1> QED BY <1>5, <1>7, <1>8 DEF DemoInv

\* The session is inserted once: whoever does has the rows for itself.
LEMMA CreateDemoKeeps ==
    ASSUME DemoInv, NEW i \in Installs, CreateDemoSession(i)
    PROVE  DemoInv'
<1>1. /\ session = "none" /\ session' = "active" /\ installing[i] = "session"
      /\ installing' = [installing EXCEPT ![i] = "events"]
      /\ UNCHANGED <<eventsOf, versions, snapshots, pairs, findings, rootRow, disturbed,
                     removals, export, exported>>
  BY DEF CreateDemoSession, NewSession, Goto
<1>2. /\ installing'[i] = "events"
      /\ \A j \in Installs : j # i => installing'[j] = installing[j]
  BY <1>1 DEF DemoInv, DemoTypes
<1>3. DemoTypes'
  BY <1>1 DEF DemoInv, DemoTypes, Inside, WritesEvents
<1>4. OneOwner'
  <2> SUFFICES ASSUME disturbed = {} PROVE OneOwner'
    BY <1>1 DEF OneOwner
  <2>1. NoDemoRows /\ \A j \in Installs : installing[j] \notin Inside
    BY <1>1 DEF DemoInv, OneOwner, WrittenBy
  <2>2. \A j \in Installs : installing'[j] \in Inside => j = i
    BY <1>2, <2>1
  <2>3. WrittenBy(i)'
    BY <1>1, <1>2, <2>1 DEF WrittenBy, NoDemoRows, WritesFindings, HasAll
  <2> QED BY <1>1, <2>2, <2>3 DEF OneOwner
<1>5. ExportTypes' /\ Reads' /\ Exported'
  BY <1>1 DEF DemoInv, ExportTypes, Reads, Undisturbed, Exported, Whole
<1> QED BY <1>3, <1>4, <1>5 DEF DemoInv

\* A removal that nobody is in the middle of leaves nothing and nobody.
LEMMA RemoveDemoKeeps ==
    ASSUME DemoInv, RemoveDemo
    PROVE  DemoInv'
<1>1. /\ session' = "none" /\ eventsOf' = {} /\ versions' = {} /\ snapshots' = {} /\ pairs' = {}
      /\ findings' = {} /\ rootRow' = FALSE /\ removals' = removals + 1
      /\ disturbed' = disturbed \cup Pending
      /\ installing' = [i \in Installs |->
                          IF installing[i] = "installed" THEN "removed" ELSE installing[i]]
      /\ UNCHANGED <<export, exported>>
  BY DEF RemoveDemo
<1>2. DemoTypes'
  <2>1. installing' \in [Installs -> Inside \cup
          {"idle", "project", "session", "present", "failed", "removed"}]
    BY <1>1 DEF DemoInv, DemoTypes
  <2>2. removals' \in Nat
    BY <1>1 DEF DemoInv, DemoTypes
  <2> QED BY <1>1, <2>1, <2>2 DEF DemoTypes
<1>3. OneOwner'
  <2> SUFFICES ASSUME disturbed' = {} PROVE OneOwner'
    BY DEF OneOwner
  <2>1. NoDemoRows'
    BY <1>1 DEF NoDemoRows
  <2>2. ASSUME NEW i \in Installs PROVE installing'[i] \notin Inside
    <3>1. i \notin Pending
      BY <1>1
    <3>2. installing[i] \in {"idle", "installed", "present", "failed", "removed"}
      BY <3>1 DEF Pending
    <3> QED BY <1>1, <3>2 DEF Inside, WritesEvents, WritesVersions, WritesFindings, HasAll
  <2> QED BY <1>1, <2>1, <2>2 DEF OneOwner
<1>4. removals \in Nat /\ (export \notin {Idle, Over} => export.since <= removals)
  BY DEF DemoInv, DemoTypes, ExportTypes
<1>5. export \notin {Idle, Over} => export.since \in Nat
  BY DEF DemoInv, ExportTypes
<1>6. ExportTypes'
  BY <1>1, <1>4, <1>5 DEF DemoInv, ExportTypes
<1>7. Reads' /\ Exported'
  <2>1. export \in {Idle, Over} => export.at # "reading"
    BY DEF Idle, Over
  <2> QED BY <1>1, <1>4, <1>5, <2>1 DEF DemoInv, Reads, Undisturbed, Exported, Whole
<1> QED BY <1>2, <1>3, <1>6, <1>7 DEF DemoInv

\* An export begins with the summary of the session.
LEMMA StartExportKeeps ==
    ASSUME DemoInv, StartExport
    PROVE  DemoInv'
<1>1. /\ session # "none" /\ UNCHANGED <<session, eventsOf, versions, snapshots, pairs, findings,
                                        rootRow, installing, disturbed, removals, exported>>
      /\ export' = [at |-> "reading", session |-> session, since |-> removals,
                    parts |-> [p \in Parts |-> {}], left |-> Parts]
  BY DEF StartExport, rows, demo
<1>2. session \in {"active", "complete"} /\ removals \in Nat
  BY <1>1 DEF DemoInv, DemoTypes
<1>3. DemoTypes' /\ OneOwner'
  BY <1>1 DEF DemoInv, DemoTypes, OneOwner, WrittenBy, NoDemoRows, Full
<1>4. ExportTypes'
  BY <1>1, <1>2 DEF ExportTypes
<1>5. Exported'
  BY <1>1 DEF DemoInv, Exported, Whole
<1>6. Reads'
  <2> SUFFICES ASSUME session = "complete", disturbed = {} PROVE Reads'
    BY <1>1 DEF Reads, Undisturbed
  <2>1. PICK i \in Installs : eventsOf = {i} /\ findings = {i}
    BY DEF DemoInv, OneOwner, Full
  <2>2. Parts \ export'.left = {}
    BY <1>1
  <2> QED BY <1>1, <2>1, <2>2 DEF Reads
<1> QED BY <1>3, <1>4, <1>5, <1>6 DEF DemoInv

\* What a limited read returns of the events of one install: the earliest that fit.
LEMMA EarliestRead ==
    ASSUME NEW i \in Installs, eventsOf = {i}, NEW E \in FirstEvents
    PROVE  E = Earliest(i)
<1> DEFINE D == {n \in 1..DemoEvents : <<i, n>> \in E}
<1>1. /\ E \subseteq {i} \X (1..DemoEvents)
      /\ \A x \in E : \A n \in 1..x[2] : <<x[1], n>> \in E
      /\ Cardinality(E) <= ExportLimit
      /\ E = {i} \X (1..DemoEvents) \/ Cardinality(E) = ExportLimit
  BY DEF FirstEvents, SessionEvents
<1>2. E = {i} \X D
  BY <1>1
<1>3. DemoEvents \in Nat /\ ExportLimit \in Nat
  BY LimitsAssumption
<1>4. IsFiniteSet(D) /\ D \subseteq 1..DemoEvents
  <2>1. IsFiniteSet(1..DemoEvents)
    BY <1>3, FS_Interval
  <2>2. D \in SUBSET (1..DemoEvents)
    OBVIOUS
  <2> HIDE DEF D
  <2> QED BY <2>1, <2>2, FS_Subset
<1>5. Cardinality(E) = Cardinality(D)
  <2> DEFINE F == [n \in D |-> <<i, n>>]
  <2> HIDE DEF D
  <2>1. F \in [D -> E]
    BY <1>2
  <2>2. \A m, n \in D : F[m] = F[n] => m = n
    OBVIOUS
  <2>3. \A x \in E : \E n \in D : F[n] = x
    BY <1>2
  <2>4. DOMAIN F = D
    OBVIOUS
  <2> HIDE DEF F
  <2>5. F \in Bijection(D, E)
    BY <2>1, <2>2, <2>3, <2>4 DEF Bijection, Injection, Surjection, IsInjective
  <2>6. ExistsBijection(D, E)
    BY <2>5 DEF ExistsBijection
  <2> QED BY <1>4, <2>6, FS_Bijection
<1>6. ASSUME NEW n \in D PROVE 1..n \subseteq D /\ n \in Nat
  <2>1. <<i, n>> \in E /\ n \in 1..DemoEvents
    BY <1>6
  <2>2. \A k \in 1..n : <<i, k>> \in E
    BY <1>1, <2>1
  <2> QED BY <2>1, <2>2, <1>3
<1> HIDE DEF D
<1>7. ASSUME NEW n \in D PROVE n <= Cardinality(D)
  <2>1. Cardinality(1..n) = n /\ n \in Nat
    BY <1>6, <1>7, FS_Interval
  <2>2. Cardinality(1..n) <= Cardinality(D)
    BY <1>4, <1>6, <1>7, FS_Subset
  <2> QED BY <2>1, <2>2
<1>8. D = {n \in 1..DemoEvents : n <= ExportLimit}
  <2>1. CASE E = {i} \X (1..DemoEvents)
    <3>1. D = 1..DemoEvents
      BY <2>1 DEF D
    <3>2. DemoEvents \in D /\ DemoEvents # 0
      BY <3>1, LimitsAssumption
    <3>3. Cardinality(D) \in Nat
      BY <1>4, FS_CardinalityType
    <3>4. DemoEvents <= ExportLimit
      BY <1>1, <1>3, <1>5, <1>7, <3>2, <3>3
    <3> QED BY <1>3, <3>1, <3>4
  <2>2. CASE Cardinality(E) = ExportLimit
    <3>1. Cardinality(D) = ExportLimit
      BY <1>5, <2>2
    <3>2. D \subseteq 1..ExportLimit
      BY <1>3, <1>4, <1>7, <3>1
    <3>3. IsFiniteSet(1..ExportLimit) /\ Cardinality(1..ExportLimit) = ExportLimit
      BY <1>3, FS_Interval
    <3>4. D = 1..ExportLimit
      BY <3>1, <3>2, <3>3, FS_Subset
    <3> QED BY <1>3, <1>4, <3>4
  <2> QED BY <1>1, <2>1, <2>2
<1> QED BY <1>2, <1>8 DEF Earliest

\* A part that is read while the session is complete is whole.
LEMMA ReadPartKeeps ==
    ASSUME DemoInv, NEW part \in Parts, ReadPart(part)
    PROVE  DemoInv'
<1>1. /\ export.at = "reading" /\ part \in export.left
      /\ UNCHANGED <<session, eventsOf, versions, snapshots, pairs, findings,
                     rootRow, installing, disturbed, removals, exported>>
  BY DEF ReadPart, rows, demo
<1>2. export \in [at : {"reading", "written"}, session : {"active", "complete"}, since : Nat,
                  parts : [Parts -> SUBSET Exportable], left : SUBSET Parts]
      /\ export.since <= removals
  <2>1. export \notin {Idle, Over}
    BY <1>1 DEF Idle, Over
  <2> QED BY <2>1 DEF DemoInv, ExportTypes
<1>3. PICK found \in PartOf(part) :
        export' = [export EXCEPT !.parts[part] = found, !.left = export.left \ {part},
                                 !.session = SummaryOf(part)]
  BY DEF ReadPart
<1>4. PICK parts : parts = [export.parts EXCEPT ![part] = found]
  OBVIOUS
<1>a. found \in SUBSET Exportable
  <2>1. FirstEvents \subseteq SUBSET Exportable
    BY DEF FirstEvents, SessionEvents, Exportable, DemoInv, DemoTypes
  <2>2. findings \subseteq Exportable /\ {v.role : v \in versions} \subseteq Exportable
    BY DEF Exportable, DemoInv, DemoTypes
  <2> QED BY <1>3, <2>1, <2>2 DEF PartOf, Parts
<1>5. /\ parts \in [Parts -> SUBSET Exportable]
      /\ parts[part] = found
      /\ \A p \in Parts : p # part => parts[p] = export.parts[p]
  BY <1>2, <1>a, <1>4
<1>6. export' = [at |-> "reading", session |-> export.session, since |-> export.since,
                 parts |-> parts, left |-> export.left \ {part}]
  BY <1>1, <1>2, <1>3, <1>4 DEF SummaryOf
<1>7. DemoTypes' /\ OneOwner'
  BY <1>1 DEF DemoInv, DemoTypes, OneOwner, WrittenBy, NoDemoRows, Full
<1>8. ExportTypes'
  BY <1>1, <1>2, <1>5, <1>6 DEF ExportTypes
<1>9. Reads'
  <2> SUFFICES ASSUME export.session = "complete", removals = export.since, disturbed = {}
               PROVE  Reads'
    BY <1>1, <1>6 DEF Reads, Undisturbed
  <2>1. session = "complete" /\ Full
    BY <1>1 DEF DemoInv, Reads, Undisturbed, OneOwner
  <2>2. PICK i \in Installs :
            /\ eventsOf = {i} /\ findings = {i}
            /\ \A p \in Parts \ export.left : export.parts[p] = Wanted(i, p)
    BY <1>1 DEF DemoInv, Reads, Undisturbed
  <2>3. found = Wanted(i, part)
    <3>1. CASE part = "events"
      BY <1>3, <2>2, <3>1, EarliestRead DEF PartOf, Wanted
    <3>2. CASE part = "versions"
      BY <1>3, <2>1, <3>2 DEF PartOf, Wanted, Full
    <3>3. CASE part = "findings"
      BY <1>3, <2>2, <3>3 DEF PartOf, Wanted
    <3> QED BY <3>1, <3>2, <3>3 DEF Parts
  <2>4. \A p \in Parts \ export'.left : export'.parts[p] = Wanted(i, p)
    BY <1>5, <1>6, <2>2, <2>3
  <2> QED BY <1>1, <2>1, <2>2, <2>4 DEF Reads, Wanted, Earliest
<1>10. Exported'
  BY <1>1 DEF DemoInv, Exported, Whole
<1> QED BY <1>7, <1>8, <1>9, <1>10 DEF DemoInv

\* A bundle whose parts were all read after its summary is sound.
LEMMA WriteTemporaryKeeps ==
    ASSUME DemoInv, WriteTemporary
    PROVE  DemoInv'
<1>1. /\ export.at = "reading" /\ export.left = {}
      /\ UNCHANGED <<session, eventsOf, versions, snapshots, pairs, findings,
                     rootRow, installing, disturbed, removals>>
      /\ export' = [export EXCEPT !.at = "written"]
      /\ exported' = [exported EXCEPT !.temporary = {Bundle}]
  BY DEF WriteTemporary, rows, demo
<1>2. export \in [at : {"reading", "written"}, session : {"active", "complete"}, since : Nat,
                  parts : [Parts -> SUBSET Exportable], left : SUBSET Parts]
      /\ export.since <= removals /\ removals \in Nat
  <2>1. export \notin {Idle, Over}
    BY <1>1 DEF Idle, Over
  <2> QED BY <2>1 DEF DemoInv, ExportTypes, DemoTypes
<1>3. DemoTypes' /\ OneOwner'
  BY <1>1 DEF DemoInv, DemoTypes, OneOwner, WrittenBy, NoDemoRows, Full
<1>4. ExportTypes' /\ export'.at = "written"
  BY <1>1, <1>2 DEF ExportTypes
<1>5. Whole(Bundle)
  <2>1. /\ Bundle.session = export.session /\ Bundle.parts = export.parts
        /\ ~Bundle.overlapped => removals = export.since /\ disturbed = {}
    <3>1. PICK o \in BOOLEAN : o <=> (removals > export.since \/ disturbed # {})
      OBVIOUS
    <3>2. Bundle = [session |-> export.session, parts |-> export.parts, overlapped |-> o]
      BY <3>1 DEF Bundle
    <3>3. ~o => removals = export.since /\ disturbed = {}
      BY <3>1, <1>2
    <3> QED BY <3>2, <3>3
  <2> SUFFICES ASSUME export.session = "complete", removals = export.since, disturbed = {}
               PROVE  \E i \in Installs : WholeOf(i, export.parts)
    BY <2>1 DEF Whole
  <2> QED BY <1>1 DEF DemoInv, Reads, Undisturbed, WholeOf
<1>6. \A b \in exported'.temporary \cup exported'.final :
        b = Bundle \/ b \in exported.temporary \cup exported.final
  BY <1>1
<1>7. Exported'
  BY <1>5, <1>6 DEF DemoInv, Exported, Whole
<1> QED BY <1>3, <1>4, <1>7 DEF DemoInv, Reads, Undisturbed

\* The rename puts in place what was written.
LEMMA EndExportKeeps ==
    ASSUME DemoInv, RenameExport \/ AbandonExport
    PROVE  DemoInv'
<1>1. /\ UNCHANGED <<session, eventsOf, versions, snapshots, pairs, findings,
                     rootRow, installing, disturbed, removals>>
      /\ export' = Over
      /\ exported' \in {exported, [temporary |-> {}, final |-> exported.temporary]}
  BY DEF RenameExport, AbandonExport, rows, demo
<1>2. DemoTypes' /\ OneOwner'
  BY <1>1 DEF DemoInv, DemoTypes, OneOwner, WrittenBy, NoDemoRows, Full
<1>3. ExportTypes' /\ Reads'
  BY <1>1 DEF ExportTypes, Reads, Undisturbed, Over
<1>4. exported'.temporary \cup exported'.final \subseteq exported.temporary \cup exported.final
  BY <1>1
<1>5. Exported'
  BY <1>4 DEF DemoInv, Exported, Whole
<1> QED BY <1>2, <1>3, <1>5 DEF DemoInv

\* Every step of an install, a removal or an export keeps the invariant.
LEMMA StepKeepsDemoInv == DemoInv /\ [DemoNext \/ TimelineNext]_apiVars => DemoInv'
<1> SUFFICES ASSUME DemoInv, [DemoNext \/ TimelineNext]_apiVars PROVE DemoInv'
  OBVIOUS
<1>1. ASSUME NEW i \in Installs, Install(i) PROVE DemoInv'
  BY <1>1, OwnStepKeeps, LeavesRowsKeeps, CreateDemoKeeps DEF Install, OwnStep
<1>2. CASE DemoNext
  BY <1>1, <1>2, RemoveDemoKeeps, StartExportKeeps, ReadPartKeeps, WriteTemporaryKeeps,
     EndExportKeeps DEF DemoNext
<1>3. CASE TimelineNext \/ UNCHANGED apiVars
  <2>1. UNCHANGED <<rows, demo, export, exported>>
    BY <1>3 DEF TimelineNext, Clear, ReadPage, Arrive, apiVars
  <2>2. UNCHANGED <<session, eventsOf, versions, snapshots, pairs, findings, rootRow,
                    installing, disturbed, removals, export, exported>>
    BY <2>1 DEF rows, demo
  <2> QED BY <2>2 DEF DemoInv, DemoTypes, OneOwner, WrittenBy, NoDemoRows, Full, ExportTypes,
                      Reads, Undisturbed, Exported, Whole
<1> QED BY <1>2, <1>3

\* The invariant of the dataset holds throughout.
LEMMA DemoInvHolds == ApiSpec => []DemoInv
  BY DemoInitInv, StepKeepsDemoInv, PTL DEF ApiSpec

\* For any number of installs of the demo dataset: where no removal overlapped one, an install
\* that got to its end has left the whole dataset, all of it its own, until it is
\* removed; the constraints of the schema make all others fail
\* (agenttraceback-api/src/lib.rs, install_demo, remove_demo).
THEOREM DemosAreWhole == ApiSpec => []InstalledIsWhole
<1>1. ASSUME DemoInv PROVE InstalledIsWhole
  <2> SUFFICES ASSUME NEW i \in Installs, disturbed = {}, installing[i] = "installed"
               PROVE  /\ session = "complete" /\ rootRow
                      /\ versions = {Version(role, i) : role \in Roles} /\ snapshots = Roles
                      /\ pairs = {i} /\ findings = {i}
    BY DEF InstalledIsWhole
  <2>1. WrittenBy(i)
    BY <1>1 DEF DemoInv, OneOwner, Inside, HasAll
  <2>2. versions = {Version("before", i), Version("after", i)}
    BY <2>1 DEF WrittenBy, HasAll
  <2>3. versions = {Version(role, i) : role \in Roles}
    BY <2>2 DEF Roles
  <2> QED BY <2>1, <2>3 DEF WrittenBy, HasAll
<1> QED BY <1>1, DemoInvHolds, PTL

\* An export that says the session was complete has the versions, the finding and the events of
\* the one install that completed it, of the events exactly the earliest when they are more
\* than the read's limit, whatever the limit, in whatever order the parts were read and
\* whatever was installed meanwhile, unless a removal overlapped the export or an install
\* (agenttraceback-api/src/lib.rs, create_export).
THEOREM ExportsAreSound == ApiSpec => []ExportSound
<1>1. ASSUME DemoInv PROVE ExportSound
  <2> SUFFICES ASSUME NEW b \in exported.final, b.session = "complete", ~b.overlapped
               PROVE  /\ b.parts.versions = Roles
                      /\ \E i \in Installs :
                            b.parts.findings = {i} /\ b.parts.events = Earliest(i)
    BY DEF ExportSound, Earliest
  <2>1. PICK i \in Installs : WholeOf(i, b.parts)
    BY <1>1 DEF DemoInv, Exported, Whole
  <2> QED BY <2>1 DEF WholeOf, Wanted, Parts
<1> QED BY <1>1, DemoInvHolds, PTL
-----------------------------------------------------------------------------
(* LocalApi: the pages of a timeline *)

Rank(S, n) == Cardinality({m \in S : m < n})

PageTypes ==
    /\ timeline \in SUBSET Occurrences /\ IsFiniteSet(timeline)
    /\ pages \in [got : SUBSET Occurrences, offset : Nat, more : BOOLEAN]

\* What was there when the reading began is read up to the offset, wherever what has
\* arrived since has moved it.
PagesInv ==
    /\ PageTypes
    /\ ~cleared =>
        /\ begun \subseteq timeline
        /\ \A n \in begun : Rank(timeline, n) < pages.offset => n \in pages.got
        /\ \A n \in pages.got, m \in begun : m < n => m \in pages.got
        /\ ~pages.more => begun \subseteq pages.got \/ pages.offset >= TimelineLimit
    /\ pages.offset = 0 => pages.got = {}

\* A rank is a number.
LEMMA RankTyped ==
    ASSUME NEW S \in SUBSET Nat, IsFiniteSet(S), NEW n \in Nat
    PROVE  /\ IsFiniteSet({m \in S : m < n})
           /\ Rank(S, n) \in Nat
<1>1. IsFiniteSet({m \in S : m < n})
  BY FS_Subset
<1> QED BY <1>1, FS_CardinalityType DEF Rank

\* Ranks grow with the elements,
LEMMA RankGrows ==
    ASSUME NEW S \in SUBSET Nat, IsFiniteSet(S), NEW m \in S, NEW n \in S, m < n
    PROVE  Rank(S, m) < Rank(S, n)
<1> DEFINE A == {k \in S : k < m}
           B == {k \in S : k < n}
<1>1. IsFiniteSet(A) /\ IsFiniteSet(B) /\ Cardinality(A) \in Nat /\ Cardinality(B) \in Nat
  BY RankTyped DEF Rank
<1>2. A \cup {m} \subseteq B /\ m \notin A
  <2>1. m \in Nat /\ n \in Nat /\ m \in B /\ m \notin A
    OBVIOUS
  <2>2. ASSUME NEW k \in A PROVE k \in B
    <3>1. k \in S /\ k \in Nat /\ k < m
      OBVIOUS
    <3>2. k < n
      BY <2>1, <3>1
    <3> QED BY <3>1, <3>2
  <2> HIDE DEF A, B
  <2> QED BY <2>1, <2>2
<1> HIDE DEF A, B
<1>3. Cardinality(A \cup {m}) = Cardinality(A) + 1
  BY <1>1, <1>2, FS_AddElement
<1>4. Cardinality(A \cup {m}) <= Cardinality(B)
  BY <1>1, <1>2, FS_Subset
<1>5. Cardinality(A) < Cardinality(B)
  BY <1>1, <1>3, <1>4
<1> QED BY <1>5 DEF Rank, A, B

\* so there are no more elements than ranks.
LEMMA RanksCount ==
    ASSUME NEW S \in SUBSET Nat, IsFiniteSet(S), NEW T \in SUBSET S,
           NEW a \in Nat, NEW d \in Nat, \A n \in T : Rank(S, n) \in a..(a + d - 1)
    PROVE  Cardinality(T) \in Nat /\ Cardinality(T) <= d
<1> DEFINE f == [n \in T |-> Rank(S, n)]
<1>1. \A m, n \in T : m # n => Rank(S, m) # Rank(S, n)
  <2> SUFFICES ASSUME NEW m \in T, NEW n \in T, m # n PROVE Rank(S, m) # Rank(S, n)
    OBVIOUS
  <2>1. Rank(S, m) \in Nat /\ Rank(S, n) \in Nat
    BY RankTyped
  <2>2. CASE m < n
    BY <2>1, <2>2, RankGrows
  <2>3. CASE n < m
    BY <2>1, <2>3, RankGrows
  <2> QED BY <2>2, <2>3
<1>2. f \in Injection(T, a..(a + d - 1))
  BY <1>1 DEF Injection, IsInjective
<1>3. /\ IsFiniteSet(a..(a + d - 1))
      /\ Cardinality(a..(a + d - 1)) = IF a > a + d - 1 THEN 0 ELSE (a + d - 1) - a + 1
  BY FS_Interval
<1>4. Cardinality(a..(a + d - 1)) = d
  BY <1>3
<1> HIDE DEF f
<1>5. Cardinality(T) <= Cardinality(a..(a + d - 1)) /\ IsFiniteSet(T)
  BY <1>2, <1>3, FS_Injection
<1> QED BY <1>4, <1>5, FS_CardinalityType

\* The ranks of a set have no gaps: an element beyond d others is preceded by the one of
\* rank d.
LEMMA RankTaken ==
    ASSUME NEW S \in SUBSET Nat, IsFiniteSet(S), NEW d \in Nat, NEW n \in S, d <= Rank(S, n)
    PROVE  \E m \in S : Rank(S, m) = d
<1> DEFINE Beyond == {m \in S : d <= Rank(S, m)}
<1>1. \A m \in S : Rank(S, m) \in Nat
  BY RankTyped
<1>2. PICK m \in Beyond : \A k \in Beyond : m <= k
  <2>1. Beyond \in SUBSET Nat /\ Beyond # {}
    OBVIOUS
  <2> HIDE DEF Beyond
  <2> QED BY <2>1, SmallestNumber
<1>3. \A k \in {k \in S : k < m} : Rank(S, k) \in 0..(0 + d - 1)
  BY <1>1, <1>2
<1>4. Rank(S, m) <= d
  BY <1>3, RanksCount DEF Rank
<1> QED BY <1>1, <1>2, <1>4

\* A page has no more events than asked for, and one with fewer is the last.
LEMMA PageCount ==
    ASSUME NEW S \in SUBSET Nat, IsFiniteSet(S), NEW a \in Nat, NEW P,
           P = {n \in S : Rank(S, n) \in a..(a + PageSize - 1)}
    PROVE  /\ Cardinality(P) \in Nat /\ Cardinality(P) <= PageSize
           /\ Cardinality(P) < PageSize => \A n \in S : Rank(S, n) < a + Cardinality(P)
<1>1. Cardinality(P) \in Nat /\ Cardinality(P) <= PageSize
  BY RanksCount, ApiAssumption
<1>2. \A k \in S : k \in Nat /\ Rank(S, k) \in Nat
  BY RankTyped
<1>3. ASSUME Cardinality(P) < PageSize, NEW n \in S, ~(Rank(S, n) < a + Cardinality(P))
      PROVE  FALSE
  <2>1. PICK d \in Nat : d = a + Cardinality(P)
    <3>1. PICK c \in Nat : c = Cardinality(P)
      BY <1>1
    <3>2. a + c \in Nat
      OBVIOUS
    <3> QED BY <3>1, <3>2
  <2>2. PICK m \in S : Rank(S, m) = d
    <3>1. Rank(S, n) \in Nat /\ ~(Rank(S, n) < d)
      BY <1>2, <1>3, <2>1
    <3>2. d <= Rank(S, n)
      BY <3>1
    <3> QED BY <3>2, RankTaken
  <2> DEFINE B == {k \in S : k < m}
             L == {k \in B \cup {m} : Rank(S, k) < a}
             U == {k \in B \cup {m} : ~(Rank(S, k) < a)}
  <2>3. IsFiniteSet(B) /\ Cardinality(B) = d
    BY <1>2, <2>2, RankTyped DEF Rank
  <2>4. m \notin B /\ B \cup {m} \subseteq S /\ B \cup {m} = L \cup U /\ L \cap U = {}
    BY <1>2
  <2>5. \A k \in U : Rank(S, k) \in a..(a + PageSize - 1)
    <3> SUFFICES ASSUME NEW k \in U PROVE Rank(S, k) <= d
      <4>1. PICK c \in Nat : c = Cardinality(P)
        BY <1>1
      <4>2. d <= a + PageSize - 1
        BY <1>3, <2>1, <4>1, ApiAssumption
      <4>3. ASSUME NEW k \in U PROVE Rank(S, k) \in Nat /\ ~(Rank(S, k) < a)
        <5>1. k \in S
          BY <2>4
        <5> QED BY <1>2, <5>1
      <4> HIDE DEF U
      <4> QED BY <4>2, <4>3, ApiAssumption
    <3>1. CASE k = m
      BY <2>2, <3>1
    <3>2. CASE k # m
      <4>1. k \in S /\ k < m
        BY <3>2
      <4>2. Rank(S, k) < Rank(S, m)
        BY <4>1, RankGrows
      <4> QED BY <1>2, <2>2, <4>1, <4>2
    <3> QED BY <3>1, <3>2
  <2>6. \A k \in L : Rank(S, k) \in 0..(0 + a - 1)
    BY <1>2, <2>4
  <2> HIDE DEF B, L, U
  <2>7. IsFiniteSet(B \cup {m}) /\ Cardinality(B \cup {m}) = d + 1
    BY <2>3, <2>4, FS_AddElement
  <2>8. IsFiniteSet(L) /\ IsFiniteSet(U) /\ L \in SUBSET S /\ U \in SUBSET S
    BY <2>4, FS_Subset
  <2>9. Cardinality(L) \in Nat /\ Cardinality(L) <= a
    BY <2>6, <2>8, RanksCount
  <2>10. U \subseteq P
    BY <2>5, <2>8
  <2>11. IsFiniteSet(P)
    BY FS_Subset
  <2>12. Cardinality(U) \in Nat /\ Cardinality(U) <= Cardinality(P)
    BY <2>8, <2>10, <2>11, FS_Subset, FS_CardinalityType
  <2>13. Cardinality(L \cup U) = Cardinality(L) + Cardinality(U)
    <3>1. Cardinality(L \cup U) = Cardinality(L) + Cardinality(U) - Cardinality(L \cap U)
      BY <2>8, FS_Union
    <3>2. Cardinality(L \cap U) = 0
      BY <2>4, FS_EmptySet
    <3>3. PICK l \in Nat, u \in Nat : l = Cardinality(L) /\ u = Cardinality(U)
      BY <2>9, <2>12
    <3> QED BY <3>1, <3>2, <3>3
  <2>14. PICK l \in Nat, u \in Nat, c \in Nat :
              l = Cardinality(L) /\ u = Cardinality(U) /\ c = Cardinality(P)
    BY <1>1, <2>9, <2>12
  <2>15. l <= a /\ u <= c /\ d = a + c
    BY <2>1, <2>9, <2>12, <2>14
  <2>16. d + 1 = l + u
    <3>1. Cardinality(B \cup {m}) = Cardinality(L \cup U)
      BY <2>4
    <3> QED BY <2>7, <2>13, <2>14, <3>1
  <2> QED BY <2>15, <2>16
<1> QED BY <1>1, <1>2, <1>3

\* A page takes what was there at the offset up to the next offset.
LEMMA ReadPageKeeps ==
    ASSUME PagesInv, ReadPage
    PROVE  PagesInv'
<1>1. PICK P : P = Page(pages.offset)
  OBVIOUS
<1>2. /\ UNCHANGED <<timeline, cleared>> /\ pages.more
      /\ begun' = IF pages.offset = 0 THEN timeline ELSE begun
      /\ pages' = [got |-> pages.got \cup P, offset |-> pages.offset + Cardinality(P),
                   more |-> ~LastPage(P) /\ pages.offset + Cardinality(P) < TimelineLimit]
  BY <1>1 DEF ReadPage
<1>3. /\ timeline \in SUBSET Nat /\ timeline \subseteq Occurrences /\ IsFiniteSet(timeline)
      /\ pages.offset \in Nat /\ pages.got \in SUBSET Occurrences
  BY ApiAssumption DEF PagesInv, PageTypes
<1>4. P = {n \in timeline : Rank(timeline, n) \in pages.offset..(pages.offset + PageSize - 1)}
  BY <1>1 DEF Page, Before, Rank
<1>5. /\ Cardinality(P) \in Nat /\ Cardinality(P) <= PageSize
      /\ Cardinality(P) < PageSize =>
           \A n \in timeline : Rank(timeline, n) < pages.offset + Cardinality(P)
  BY <1>3, <1>4, PageCount
<1>6. \A n \in timeline : Rank(timeline, n) \in Nat
  BY <1>3, RankTyped
<1>7. PICK more \in BOOLEAN :
        more <=> ~LastPage(P) /\ pages.offset + Cardinality(P) < TimelineLimit
  OBVIOUS
<1>8. pages' = [got |-> pages.got \cup P, offset |-> pages.offset + Cardinality(P), more |-> more]
  BY <1>2, <1>7
<1>9. PageTypes'
  <2>1. PICK got \in SUBSET Occurrences : got = pages.got \cup P
    BY <1>3, <1>4
  <2>2. PICK offset \in Nat : offset = pages.offset + Cardinality(P)
    BY <1>3, <1>5
  <2>3. pages' \in [got : SUBSET Occurrences, offset : Nat, more : BOOLEAN]
    BY <1>7, <1>8, <2>1, <2>2
  <2> QED BY <1>2, <1>3, <2>3 DEF PageTypes
<1>10. ASSUME ~cleared
       PROVE  /\ begun' \subseteq timeline
              /\ \A n \in begun' : Rank(timeline, n) < pages'.offset => n \in pages'.got
              /\ \A n \in pages'.got, m \in begun' : m < n => m \in pages'.got
              /\ ~pages'.more =>
                    begun' \subseteq pages'.got \/ pages'.offset >= TimelineLimit
  <2>1. begun' \subseteq timeline
    BY <1>2, <1>10 DEF PagesInv
  <2>2. ASSUME NEW n \in begun', Rank(timeline, n) < pages.offset + Cardinality(P)
        PROVE  n \in pages.got \cup P
    <3>1. CASE Rank(timeline, n) < pages.offset
      <4>1. pages.offset # 0 /\ n \in begun
        BY <1>2, <1>3, <1>6, <2>1, <3>1
      <4> QED BY <1>10, <3>1, <4>1 DEF PagesInv
    <3>2. CASE ~(Rank(timeline, n) < pages.offset)
      <4>1. n \in timeline /\ Rank(timeline, n) \in Nat
        BY <1>6, <2>1
      <4>2. Rank(timeline, n) \in pages.offset..(pages.offset + PageSize - 1)
        BY <1>3, <1>5, <2>2, <3>2, <4>1, ApiAssumption
      <4> QED BY <1>4, <4>1, <4>2
    <3> QED BY <3>1, <3>2
  <2>3. ~more => \/ \A n \in begun' : Rank(timeline, n) < pages.offset + Cardinality(P)
                 \/ pages.offset + Cardinality(P) >= TimelineLimit
    BY <1>3, <1>5, <1>7, <2>1, LimitsAssumption DEF LastPage
  <2>4. ASSUME NEW n \in pages.got \cup P, NEW m \in begun', m < n
        PROVE  m \in pages.got \cup P
    <3>1. CASE n \in P
      <4>1. n \in timeline /\ m \in timeline /\ Rank(timeline, n) \in Nat
            /\ Rank(timeline, m) \in Nat
        BY <1>4, <1>6, <2>1, <3>1
      <4>2. Rank(timeline, n) < pages.offset + Cardinality(P)
        <5>1. CASE Cardinality(P) < PageSize
          BY <1>5, <4>1, <5>1
        <5>2. CASE Cardinality(P) = PageSize
          BY <1>3, <1>4, <3>1, <4>1, <5>2, ApiAssumption
        <5> QED BY <1>5, <5>1, <5>2, ApiAssumption
      <4>3. Rank(timeline, m) < Rank(timeline, n)
        BY <1>3, <2>4, <4>1, RankGrows
      <4>4. Rank(timeline, m) < pages.offset + Cardinality(P)
        BY <1>3, <1>5, <4>1, <4>2, <4>3
      <4> QED BY <2>2, <4>4
    <3>2. CASE n \in pages.got
      <4>1. pages.offset # 0
        BY <3>2 DEF PagesInv
      <4>2. m \in begun
        BY <1>2, <4>1
      <4> QED BY <1>10, <2>4, <3>2, <4>2 DEF PagesInv
    <3> QED BY <3>1, <3>2
  <2> QED BY <1>8, <2>1, <2>2, <2>3, <2>4
<1>11. pages'.offset = 0 => pages'.got = {}
  <2> SUFFICES ASSUME pages.offset + Cardinality(P) = 0 PROVE pages.got \cup P = {}
    BY <1>8
  <2>1. pages.offset = 0 /\ Cardinality(P) = 0
    BY <1>3, <1>5
  <2>2. IsFiniteSet(P)
    BY <1>3, <1>4, FS_Subset
  <2> QED BY <2>1, <2>2, FS_EmptySet DEF PagesInv
<1> QED BY <1>2, <1>9, <1>10, <1>11 DEF PagesInv

\* An arrival moves ranks up, never below the offset.
LEMMA ArriveKeeps ==
    ASSUME PagesInv, NEW x \in Occurrences, Arrive(x)
    PROVE  PagesInv'
<1>1. timeline' = timeline \cup {x} /\ UNCHANGED <<cleared, pages, begun>>
  BY DEF Arrive
<1>2. timeline \in SUBSET Nat /\ IsFiniteSet(timeline) /\ x \in Nat
  BY ApiAssumption DEF PagesInv, PageTypes
<1>3. IsFiniteSet(timeline \cup {x})
  BY <1>2, FS_AddElement
<1>4. PageTypes'
  BY <1>1, <1>3 DEF PagesInv, PageTypes
<1>5. ASSUME NEW n \in timeline
      PROVE  /\ Rank(timeline, n) \in Nat /\ Rank(timeline \cup {x}, n) \in Nat
             /\ Rank(timeline, n) <= Rank(timeline \cup {x}, n)
  <2>1. /\ IsFiniteSet({m \in timeline \cup {x} : m < n})
        /\ Rank(timeline, n) \in Nat /\ Rank(timeline \cup {x}, n) \in Nat
    BY <1>2, <1>3, RankTyped
  <2>2. {m \in timeline : m < n} \subseteq {m \in timeline \cup {x} : m < n}
    OBVIOUS
  <2>3. Cardinality({m \in timeline : m < n}) <= Cardinality({m \in timeline \cup {x} : m < n})
    BY <2>1, <2>2, FS_Subset
  <2> QED BY <2>1, <2>3 DEF Rank
<1>6. ~cleared => \A n \in begun : Rank(timeline \cup {x}, n) < pages.offset => n \in pages.got
  <2> SUFFICES ASSUME ~cleared, NEW n \in begun, Rank(timeline \cup {x}, n) < pages.offset
               PROVE  n \in pages.got
    OBVIOUS
  <2>1. n \in timeline /\ pages.offset \in Nat
    BY DEF PagesInv, PageTypes
  <2>2. Rank(timeline, n) < pages.offset
    BY <1>5, <2>1
  <2> QED BY <2>2 DEF PagesInv
<1> QED BY <1>1, <1>4, <1>6 DEF PagesInv

\* Every step keeps what was read up to the offset.
LEMMA StepKeepsPages == PagesInv /\ [DemoNext \/ TimelineNext]_apiVars => PagesInv'
<1> SUFFICES ASSUME PagesInv, [DemoNext \/ TimelineNext]_apiVars PROVE PagesInv'
  OBVIOUS
<1>1. CASE Clear
  <2>1. PageTypes'
    BY <1>1, FS_EmptySet DEF Clear, PagesInv, PageTypes
  <2> QED BY <1>1, <2>1 DEF Clear, PagesInv
<1>2. CASE DemoNext \/ UNCHANGED apiVars
  <2>1. UNCHANGED <<timeline, cleared, pages, begun>>
    BY <1>2 DEF DemoNext, Install, Lookup, UpsertProject, CreateDemoSession, AppendDemoEvents,
                UpsertFile, InsertVersion, SaveSnapshots, SavePair, SaveFinding, CompleteDemo,
                FinalizeDemo, Fail, Goto, RemoveDemo, StartExport, ReadPart, WriteTemporary,
                RenameExport, AbandonExport, reading, apiVars
  <2> QED BY <2>1 DEF PagesInv, PageTypes
<1> QED BY <1>1, <1>2, ReadPageKeeps, ArriveKeeps DEF TimelineNext

\* For any number of events, any page size and any limit: what the desktop has read is all
\* that was there before the last event of it when it began, though events arrived before the
\* offset meanwhile, and all that was there at all when it has read its last page below the
\* limit, unless the project was deleted (apps/desktop/src-tauri/src/lib.rs, session_events).
THEOREM NothingIsSkipped == ApiSpec => []PagesSkipNothing
<1>1. ApiInit => PagesInv
  BY FS_EmptySet DEF ApiInit, PagesInv, PageTypes
<1>2. PagesInv => PagesSkipNothing
  BY DEF PagesInv, PagesSkipNothing
<1> QED BY <1>1, <1>2, StepKeepsPages, PTL DEF ApiSpec
=============================================================================
