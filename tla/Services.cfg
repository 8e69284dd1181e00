CONSTANTS
    Digests = {"a", "b"}
    MaxLength = 3
    MaxDamage = 3
    Installs = {i, j}
    MaxRemovals = 1
    DemoEvents = 3
    ExportLimit = 2
    Occurrences = {1, 2, 3, 4, 5, 6}
    PageSize = 2
    TimelineLimit = 4
    Requests = {r1, r2}
    Users = {u1, u2}
    HookEvents = {start}
    None = None
    MaxEdits = 2
    MaxCalls = 3
SPECIFICATION MCSpec
SYMMETRY Symmetric
CHECK_DEADLOCK FALSE
INVARIANTS
    ReportExact
    InstalledIsWhole
    ExportSound
    PagesSkipNothing
    ReceiptAgrees
PROPERTIES
    SettingsSafe
