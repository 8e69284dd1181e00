--------------------------- MODULE EvidenceStoreMC ---------------------------
(* Small instances of EvidenceStore for TLC. *)
EXTENDS EvidenceStore

CONSTANTS s1, p1, p2, b1

\* A source re-read with another body, from the session or from no session,
\* and a second source with a payload.
MCSources == {1, 2}
MCBodies == {1, 2}

Event(session, project, source, body, blob) ==
    [session |-> session, project |-> project, source |-> source,
     body |-> body, blob |-> blob]

SessionFirst == Event(s1, p1, 1, 1, None)
SessionChanged == Event(s1, p1, 1, 2, None)
GlobalChanged == Event(None, p2, 1, 1, None)
GlobalOther == Event(None, p2, 2, 1, b1)

MCEnvelopes == {SessionFirst, SessionChanged, GlobalChanged, GlobalOther}
MCBatches == {<<SessionFirst>>, <<SessionChanged>>, <<GlobalChanged, GlobalOther>>}
=============================================================================
