CONSTANTS
    b = b
    t = t
    Paths <- MCPaths
    Folder = folder
    Inside <- MCInside
    Ignored <- MCIgnored
    Tracked <- MCTracked
    Contents = {c1, c2}
    Absent = absent
    Unread = unread
    MaxChanges = 3
    MaxPrepares = 1
    Pids = {p, q, r}
    Outside = outside
    Wrapped = {s}
    NoPid = nopid
    MaxStarts = 3
SPECIFICATION MCSpec
CHECK_DEADLOCK FALSE
INVARIANT ExitsRecorded
