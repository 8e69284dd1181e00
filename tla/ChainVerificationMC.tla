-------------------------- MODULE ChainVerificationMC --------------------------
(* Small instances of ChainVerification for TLC. *)
EXTENDS ChainVerification

CONSTANTS s1, p1, b1

MCSources == {1, 2}
MCBodies == {1}

Event(session, source, blob) ==
    [session |-> session, project |-> p1, source |-> source, body |-> 1, blob |-> blob]

MCEnvelopes == {Event(s1, 1, b1), Event(None, 2, None)}
MCBatches == {<<Event(s1, 1, b1)>>, <<Event(None, 2, None)>>}
=============================================================================
