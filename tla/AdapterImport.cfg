SPECIFICATION Spec
CONSTANTS
    None = None
    Importer = importer
    watcher = watcher
    s1 = s1
    s2 = s2
    fileName = fileName
    p = p
    h1 = h1
    m1 = m1
    h2 = h2
    m2 = m2
    m3 = m3
    t = t
    Bad = bad
    Producers <- MCProducers
    Sources <- MCSources
    Sessions <- MCSessions
    Projects = {p}
    Bodies <- MCBodies
    Targets = {t}
    QueueCapacity = 2
    Window = 1
    BatchWindow = 2
    CandidateLimit = 1
    Records <- MCRecords
    Content <- MCContent
    HeaderOf <- MCHeaderOf
    FileName = fileName
    Rollouts <- MCRollouts
    Drafts <- MCDrafts
    MaxLength = 6
    MaxTurns = 1
    MaxRecords = 1
    PrefixLimit = 3
INVARIANTS
    FindingsFollowEvents
    PairsSound
    NobodyForgotten
    ImportFaithful
PROPERTIES
    DrainsDiscovered
