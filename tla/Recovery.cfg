SPECIFICATION Spec
CONSTANTS
    a = a
    b = b
    Absent = Absent
    Link = Link
    Paths <- MCPaths
    Contents <- MCContents
    Snapshots <- MCSnapshots
    Selections <- MCSelections
    Damages <- MCDamages
    Gaps <- AnyGap
    MaxPlans = 3
    MaxRuns = 2
    MaxEdits = 1
    MaxRequests = 1
CHECK_DEADLOCK FALSE
INVARIANTS
    UndoPossible
    SucceededMeansRestored
PROPERTIES
    OverwritesOnlyBackedUp
    NoWriteFromDamagedPlan
