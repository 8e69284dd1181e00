----------------------------- MODULE EvidenceLog -----------------------------
(***************************************************************************)
(* What the evidence store promises of its integrity chains, without       *)
(* hashes, rows or transactions: one log of target ids per scope (a        *)
(* session, or the daemon-global scope None).  A log only grows at its     *)
(* end, a sealed log never grows again, and the only other thing that can  *)
(* happen to a log is that an audited deletion takes the whole log of a    *)
(* session away.                                                           *)
(***************************************************************************)
EXTENDS Naturals, Sequences

CONSTANTS Sessions,     \* session identifiers
          None          \* the daemon-global scope

Scopes == Sessions \cup {None}
Ids == Nat \ {0}

VARIABLES log,          \* log[s]: the targets recorded in scope s, in order
          sealed        \* sealed[s]: a root over log[s] has been published

logVars == <<log, sealed>>

\* The ids recorded in some scope.
Recorded == UNION {{log[s][i] : i \in DOMAIN log[s]} : s \in Scopes}

\* new extends old at its end with ids no log holds yet.
Extends(old, new) ==
    /\ Len(old) <= Len(new)
    /\ \A i \in 1..Len(old) : new[i] = old[i]
    /\ \A i \in (Len(old) + 1)..Len(new) : new[i] \notin Recorded

LogInit ==
    /\ log = [s \in Scopes |-> <<>>]
    /\ sealed = [s \in Scopes |-> FALSE]

\* One committed batch: open logs grow, sealed ones stay.
Extend ==
    /\ \A s \in Scopes : IF sealed[s] THEN log'[s] = log[s]
                                      ELSE Extends(log[s], log'[s])
    /\ UNCHANGED sealed

\* A root is published over a log that is not empty.
Seal(s) ==
    /\ ~sealed[s]
    /\ log[s] # <<>>
    /\ sealed' = [sealed EXCEPT ![s] = TRUE]
    /\ UNCHANGED log

\* Audited deletion of whole sessions; the global log is never purged.
Purge(gone) ==
    /\ log' = [s \in Scopes |-> IF s \in gone THEN <<>> ELSE log[s]]
    /\ sealed' = [s \in Scopes |-> s \notin gone /\ sealed[s]]

LogNext ==
    \/ Extend
    \/ \E s \in Scopes : Seal(s)
    \/ \E gone \in SUBSET Sessions : Purge(gone)

LogSpec == LogInit /\ [][LogNext]_logVars
=============================================================================
