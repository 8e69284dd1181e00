SPECIFICATION Spec
CONSTANTS
    Sessions = {s1, s2, s3}
    Changes = {c1}
    None = None
    MaxObservations = 2
    FlushCapacity = 2
    Modes <- OverlapModes
INVARIANTS
    NeverFalselyLinked
CHECK_DEADLOCK FALSE
