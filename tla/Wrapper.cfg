SPECIFICATION MCSpec
CONSTANTS
    Sessions = {s1, s2}
    Changes = {c1}
    None = None
    MaxObservations = 2
    FlushCapacity = 1
    Modes <- AllModes
    r1 = r1
    r2 = r2
    a = a
    b = b
    Contents <- MCContents
    Fragile = {a}
    Writers <- MCWriters
    Runs <- MCRuns
    Files = {1, 2}
    Sensitive = {2}
    Missing = missing
    GitState = b
    Output <- MCOutput
    Unbased = {r2}
    Imported = {r2}
    MaxEdits = 1
    Trees <- MCTrees
    Circumstances <- MCCircumstances
CHECK_DEADLOCK FALSE
INVARIANTS
    AttributionSound
    RunningIsWatched
    ObservedIsStored
    RecordsComplete
    RecordsBacked
    OutputStored
PROPERTIES
    SessionsEnd
    RunsEnd
