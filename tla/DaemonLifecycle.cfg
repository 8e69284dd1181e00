CONSTANTS
    old = old
    new1 = new1
    new2 = new2
    cli = cli
    app = app
    Daemons <- MCDaemons
    Legacy <- MCLegacy
    Clients <- MCClients
    None = None
    Target = 2
    MaxContent = 1
    MaxOps = 2
SPECIFICATION Spec
CHECK_DEADLOCK FALSE
INVARIANTS
    OneStore
    KeyOpensBlobs
PROPERTIES
    DataKept
    StartsUnopposed
    Settles
