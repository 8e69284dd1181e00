----------------------------- MODULE ChainVerifier -----------------------------
(***************************************************************************)
(* ChainVerifier::verify (crates/agenttraceback-crypto/src/chain.rs) over  *)
(* a chain table that may have been damaged since it was written, and the  *)
(* comparison with the finalized root that verify_chain_sync adds.  The    *)
(* kind and the two digests of an entry are one value, its digest; SHA-256 *)
(* is the injective HashOf.  The table's primary key keeps the sequence    *)
(* numbers of a damaged chain distinct, and the query sorts by them.       *)
(***************************************************************************)
EXTENDS Naturals, Sequences, FiniteSets

CONSTANTS
    Digests,            \* what entries say
    MaxLength,          \* bound on the entries appended
    MaxDamage           \* bound on the columns overwritten and rows removed

ASSUME BoundsAssumption == MaxLength \in Nat /\ MaxDamage \in Nat

Zero == <<>>
HashOf(previous, digest) == <<previous, digest>>

VARIABLES
    written,    \* the entries as the writer appended them
    table,      \* the entries as they are stored now
    root,       \* the finalized root: <<>>, or one record
    damage,     \* the number of overwritten columns and removed rows
    step,       \* "open", "verifying", "root" or "done"
    next,       \* the entry the loop is at
    expectedPrevious, expectedSequence,
    missing, reordered, changed,    \* the sequence numbers reported
    mismatch                        \* root_mismatch

report == <<missing, reordered, changed, mismatch>>
loop == <<next, expectedPrevious, expectedSequence>>
vars == <<written, table, root, damage, step, loop, report>>

\* A value no entry hashes to.
Garbage == <<"garbage">>

Init ==
    /\ written = <<>> /\ table = <<>> /\ root = <<>> /\ damage = 0
    /\ step = "open"
    /\ next = 1 /\ expectedPrevious = Zero /\ expectedSequence = 1
    /\ missing = {} /\ reordered = {} /\ changed = {} /\ mismatch = FALSE
-----------------------------------------------------------------------------
(* The chain, as the writer builds it and as time damages it *)

TailHash(rows) == IF rows = <<>> THEN Zero ELSE rows[Len(rows)].hash

AppendEntry(digest) ==
    /\ step = "open" /\ damage = 0 /\ root = <<>>
    /\ Len(written) < MaxLength
    /\ LET previous == TailHash(written)
       IN written' = Append(written, [sequence |-> Len(written) + 1, previous |-> previous,
                                      digest |-> digest, hash |-> HashOf(previous, digest)])
    /\ table' = written'
    /\ UNCHANGED <<root, damage, step, loop, report>>

Finalize ==
    /\ step = "open" /\ damage = 0 /\ root = <<>> /\ written # <<>>
    /\ root' = <<[count |-> Len(written), hash |-> TailHash(written)]>>
    /\ UNCHANGED <<written, table, damage, step, loop, report>>

Damage(rows) ==
    /\ step = "open" /\ damage < MaxDamage
    /\ damage' = damage + 1
    /\ table' = rows
    /\ UNCHANGED <<written, root, step, loop, report>>

KnownHashes == {Zero, Garbage} \cup {written[i].hash : i \in DOMAIN written}

RemoveRow(i) ==
    Damage([j \in 1..(Len(table) - 1) |-> table[IF j < i THEN j ELSE j + 1]])

\* A row moves to a free sequence number between those of its neighbours.
Renumber(i, n) ==
    /\ i > 1 => table[i - 1].sequence < n
    /\ i < Len(table) => n < table[i + 1].sequence
    /\ Damage([table EXCEPT ![i].sequence = n])

Overwrite(i) ==
    \/ \E d \in Digests : Damage([table EXCEPT ![i].digest = d])
    \/ \E h \in KnownHashes : \/ Damage([table EXCEPT ![i].previous = h])
                              \/ Damage([table EXCEPT ![i].hash = h])
    \/ Damage([table EXCEPT ![i].hash = HashOf(table[i].previous, table[i].digest)])
-----------------------------------------------------------------------------
(* The verifier *)

StartVerify ==
    /\ step = "open"
    /\ step' = "verifying"
    /\ UNCHANGED <<written, table, root, damage, loop, report>>

\* The entry is out of place: a number already passed, or another predecessor.
Misplaced(entry) ==
    \/ entry.sequence < expectedSequence
    \/ entry.previous # expectedPrevious

\* The numbers the inner loop counts through to reach the entry's.
Skipped(entry) == expectedSequence..(entry.sequence - 1)

\* Faulty variant: no hash is recomputed.
Unhashed(entry) == FALSE

\* The stored hash is not that of the stored contents.
Rewritten(entry) == HashOf(entry.previous, entry.digest) # entry.hash

VerifyEntry ==
    /\ step = "verifying" /\ next <= Len(table)
    /\ LET entry == table[next]
       IN /\ missing' = missing \cup Skipped(entry)
          /\ reordered' = IF Misplaced(entry) THEN reordered \cup {entry.sequence}
                          ELSE reordered
          /\ changed' = IF Rewritten(entry) THEN changed \cup {entry.sequence}
                        ELSE changed
          /\ expectedPrevious' = entry.hash
          /\ expectedSequence' = entry.sequence + 1
    /\ next' = next + 1
    /\ UNCHANGED <<written, table, root, damage, step, mismatch>>

LastSequence(rows) == IF rows = <<>> THEN 0 ELSE rows[Len(rows)].sequence

\* The count or the hash of the root is not that of the last entry.
RootDisagrees(finalized) ==
    \/ finalized.count # LastSequence(table)
    \/ table = <<>>
    \/ finalized.hash # TailHash(table)

VerifyRoot ==
    /\ step = "verifying" /\ next > Len(table)
    /\ step' = "done"
    /\ mismatch' = (root # <<>> /\ RootDisagrees(root[1]))
    /\ UNCHANGED <<written, table, root, damage, loop, missing, reordered, changed>>

Next ==
    \/ \E d \in Digests : AppendEntry(d)
    \/ Finalize
    \/ \E i \in DOMAIN table : \/ RemoveRow(i)
                               \/ \E n \in 1..(MaxLength + 1) : Renumber(i, n)
                               \/ Overwrite(i)
    \/ StartVerify
    \/ VerifyEntry
    \/ VerifyRoot

Spec == Init /\ [][Next]_vars
-----------------------------------------------------------------------------
(* Correctness *)

Valid == missing = {} /\ reordered = {} /\ changed = {} /\ ~mismatch

\* What consistency means, without a loop.
Consistent(rows) ==
    \A i \in DOMAIN rows :
        /\ rows[i].sequence = i
        /\ rows[i].previous = IF i = 1 THEN Zero ELSE rows[i - 1].hash
        /\ rows[i].hash = HashOf(rows[i].previous, rows[i].digest)

\* The verdict is exact: a chain is reported valid exactly when it is
\* internally consistent and agrees with its root, if it has one.
VerdictExact ==
    step = "done" =>
        (Valid <=> /\ Consistent(table)
                   /\ root # <<>> => root[1].count = Len(table) /\ root[1].hash = TailHash(table))

\* The missing sequence numbers are exactly those that no row carries, up to
\* the last row; what is cut off behind it shows in the root alone.
MissingExact ==
    step = "done" =>
        missing = (1..LastSequence(table)) \ {table[i].sequence : i \in DOMAIN table}

\* In a finalized chain every damage that leaves the root alone is reported,
\* whatever columns were made to agree with each other.
FinalizedDamageReported ==
    step = "done" /\ root # <<>> /\ Valid => table = written

\* The report says what is wrong with a chain, no more and no less
\* (agenttraceback-crypto/src/chain.rs, verify).
ReportExact == VerdictExact /\ MissingExact /\ FinalizedDamageReported
=============================================================================
