SPECIFICATION Spec
CONSTANTS
    opencode = opencode
    hermes = hermes
    gemini = gemini
    quiet = quiet
    o1 = o1
    h1 = h1
    h2 = h2
    g1 = g1
    w = w
    AdapterOrder <- MCAdapterOrder
    Installations <- MCInstallations
    Format <- MCFormat
    SessionsOf <- MCSessionsOf
    Wrappers <- MCWrappers
    AgentOf <- MCAgentOf
    Project = project
    TimeOf <- MCTimeOf
    StartOf <- MCStartOf
    EndOf <- MCEndOf
    Hour = 1
    None = None
    MaxBatch = 1
    MaxKey = 2
    MaxParts = 1
    MaxWrites <- MCMaxWrites
    MaxTurns = 2
CHECK_DEADLOCK FALSE
INVARIANTS
    NothingMissed
PROPERTIES
    SessionsMatched
    HistoryEnds
