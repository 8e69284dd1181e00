------------------------- MODULE WrapperCoordinatorMC -------------------------
(* Small instances of WrapperCoordinator for TLC. *)
EXTENDS WrapperCoordinator

\* Turns are taken, and calls fail only when the observation has been left.
OrderlyMode ==
    [serialized |-> TRUE, timely |-> TRUE, changes |-> Changes,
     failures |-> {"ending", "posting", "finalizing", "closing"}]

\* Anything overlaps, any call may fail, any flush may be too slow: what matters is
\* which completions end, with or without changes.
FreeMode == [serialized |-> FALSE, timely |-> FALSE, changes |-> {}, failures |-> Fallible]

AllModes == {OrderlyMode, FreeMode}

\* A prepare overlaps a completion, and nothing else goes wrong.
OverlapModes == {[serialized |-> FALSE, timely |-> TRUE, changes |-> Changes, failures |-> {}]}
=============================================================================
