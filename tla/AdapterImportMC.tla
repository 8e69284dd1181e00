--------------------------- MODULE AdapterImportMC ---------------------------
(* A small instance of AdapterImport for TLC: a rollout with a header and a  *)
(* message, two that may replace it, one of them with the same beginning,    *)
(* and a watcher that observed the file each message is about.               *)
EXTENDS AdapterImport

CONSTANTS watcher, s1, s2, fileName, p, h1, m1, h2, m2, m3, t

MCProducers == {Importer, watcher}
MCRecords == {h1, m1, h2, m2, m3}
MCSessions == {s1, s2, fileName}
MCSources == (MCSessions \X (0..(MaxLength + 1))) \cup {<<watcher, 1>>, <<watcher, 2>>}

Reported(session, body, target, risky) ==
    [source |-> <<session, 0>>, session |-> session, project |-> p, body |-> body,
     risky |-> risky, class |-> "reported", sound |-> TRUE,
     family |-> IF target = None THEN "none" ELSE "file_mutation", target |-> target,
     hash |-> IF target = None THEN None ELSE body, subagent |-> FALSE, time |-> 0]

MCContent == [r \in MCRecords |->
    CASE r = h1 -> Reported(s1, h1, None, FALSE)
      [] r = m1 -> Reported(s1, m1, t, TRUE)
      [] r = h2 -> Reported(s2, h2, None, FALSE)
      [] r = m2 -> Reported(s2, m2, t, FALSE)
      [] r = m3 -> Reported(s1, m3, None, FALSE)]

MCHeaderOf == [r \in MCRecords |-> CASE r = h1 -> s1 [] r = h2 -> s2 [] OTHER -> None]

Observed(n, session, hash) ==
    [Reported(session, n, t, FALSE) EXCEPT !.source = <<watcher, n>>, !.class = "observed",
                                           !.hash = hash, !.time = 1]

\* What the watcher saw disagrees with m1 and agrees with m2.
MCDrafts == {Observed(1, s1, h1), Observed(2, s2, m2)}
MCBodies == MCRecords \cup {1, 2}
MCRollouts == {<<h1, End, NL>>, <<h2, End, NL>>, <<h1, End, NL, m3, End, NL>>}
=============================================================================
