--------------------------- MODULE ChainVerification ---------------------------
(***************************************************************************)
(* verify_chain_sync (crates/agenttraceback-store/src/lib.rs) while the    *)
(* writer runs.  The reader's connection is in autocommit mode, so each    *)
(* query sees the database as committed at that moment and the writer may  *)
(* commit between two queries: the entries of the scope are read once,     *)
(* then the target of each entry, its deletion marker or its payload, and  *)
(* last the root.                                                          *)
(***************************************************************************)
EXTENDS EvidenceStore, SequencesExt

VARIABLE reader     \* the verification in progress and its report

allVars == <<vars, reader>>

Reader == [step     : {"idle", "target", "marker", "payload", "done"},
           scope    : Scopes,
           rows     : Seq(Entry),       \* the entries as they were read
           next     : Nat \ {0},        \* the entry being looked at
           blob     : Blobs \cup {None},\* its payload
           missing  : SUBSET Nat,       \* missing_sequences
           payloads : SUBSET Nat,       \* missing_payloads
           mismatch : BOOLEAN]          \* root_mismatch

VerifyInit ==
    /\ Init
    /\ reader = [step |-> "idle", scope |-> None, rows |-> <<>>, next |-> 1,
                 blob |-> None, missing |-> {}, payloads |-> {}, mismatch |-> FALSE]
-----------------------------------------------------------------------------
ReadEntries(s) ==
    /\ reader.step \in {"idle", "done"}
    /\ reader' = [step |-> "target", scope |-> s, rows |-> db.chain[s], next |-> 1,
                  blob |-> None, missing |-> {}, payloads |-> {}, mismatch |-> FALSE]

Row == reader.rows[reader.next]

NextRow == [reader EXCEPT !.step = "target", !.next = @ + 1, !.blob = None]

\* Only source events have their target looked up.
SkipTarget ==
    /\ reader.step = "target"
    /\ reader.next <= Len(reader.rows)
    /\ Row.kind # "source_event"
    /\ reader' = NextRow

\* An event that is there has the digest of its entry, which stands for its id here:
\* no command updates an event.  So the comparison of the two is not a step.
ReadTarget ==
    /\ reader.step = "target"
    /\ reader.next <= Len(reader.rows)
    /\ Row.kind = "source_event"
    /\ \/ /\ ~HasEvent(db, Row.target)
          /\ reader' = [reader EXCEPT !.step = "marker"]
       \/ \E e \in db.events :
             /\ e.id = Row.target
             /\ reader' = IF e.blob = None THEN NextRow
                          ELSE [reader EXCEPT !.step = "payload", !.blob = e.blob]

\* Faulty variant: deletion markers are not consulted.
ReadNoMarker ==
    /\ reader.step = "marker"
    /\ reader' = [NextRow EXCEPT !.missing = @ \cup {Row.sequence}]

\* A row whose event is gone is missing unless the deletion left a marker.
ReadMarker ==
    /\ reader.step = "marker"
    /\ reader' = [NextRow EXCEPT !.missing = IF Row.target \in db.deleted THEN @
                                             ELSE @ \cup {Row.sequence}]

ReadPayload ==
    /\ reader.step = "payload"
    /\ reader' = [NextRow EXCEPT !.payloads = IF reader.blob \in db.recorded THEN @
                                              ELSE @ \cup {Row.sequence}]

\* The root, if there is one by now, against the last of the entries read.
ReadRoot ==
    /\ reader.step = "target"
    /\ reader.next > Len(reader.rows)
    /\ LET root == db.roots[reader.scope]
           tail == LastChainPosition(reader.rows)
       IN reader' = [reader EXCEPT
                       !.step = "done",
                       !.mismatch = /\ ChainRootExists(db, reader.scope)
                                    /\ \/ root.count # tail.sequence
                                       \/ root.hash # tail.hash]

Verify ==
    \/ \E s \in Scopes : ReadEntries(s)
    \/ SkipTarget
    \/ ReadTarget
    \/ ReadMarker
    \/ ReadPayload
    \/ ReadRoot

VerifyNext ==
    \/ Next /\ UNCHANGED reader
    \/ Verify /\ UNCHANGED vars

VerifySpec == VerifyInit /\ [][VerifyNext]_allVars
-----------------------------------------------------------------------------
(* Correctness *)

\* A verification reports a row or a payload as missing only when a deletion
\* has taken the chain away since its entries were read.  In particular none
\* ever does in the global chain, whose rows a concurrent deletion keeps: an
\* event that is found gone has its marker by the time the marker is read.
MissingOnlyIfDeleted == agreed =>
    (reader.missing \cup reader.payloads # {} =>
        ~IsPrefix(reader.rows, db.chain[reader.scope]))

\* A verification finds a root mismatch only when the chain has moved on since
\* its entries were read: a chain at rest is never reported.
MismatchOnlyIfMoved ==
    reader'.mismatch /\ ~reader.mismatch => reader.rows # db.chain[reader.scope]

\* Beside the writer, no step of a verification accuses a chain unless that
\* chain was deleted or has moved on since its entries were read.
AccusesOnlyMoved == [][MissingOnlyIfDeleted' /\ MismatchOnlyIfMoved]_allVars
=============================================================================
