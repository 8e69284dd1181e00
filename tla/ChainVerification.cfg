SPECIFICATION VerifySpec
CONSTANTS
    None = None
    s1 = s1
    p1 = p1
    b1 = b1
    Sessions = {s1}
    Projects = {p1}
    Blobs = {b1}
    Sources <- MCSources
    Bodies <- MCBodies
    Envelopes <- MCEnvelopes
    Batches <- MCBatches
    MaxIds = 3
PROPERTIES
    AccusesOnlyMoved
