CONSTANTS
    c1 = c1
    c2 = c2
    d1 = d1
    d2 = d2
    k1 = k1
    k2 = k2
    r1 = r1
    r2 = r2
    NoDev = NoDev
    NoFile = NoFile
    Torn = Torn
    Nobody = Nobody
    Claims = {c1, c2}
    Cards = {d1, d2}
    VDevs = {0, 1}
    Requests = {r1}
    Results <- OwnCards
    Consumers = {k1, k2}
    Consumer <- TwoContainers
    Faults = {"save", "rmMark"}
    MaxCrashes = 1
SPECIFICATION Spec
CONSTRAINT NoIncident
INVARIANTS
    HandedVHCUsKept
    NoSharedVHCU
    HandedRemembered
    StateFileCurrent
    HandedSpecsRight
PROPERTIES
    UsesRegister
    ImplementsLedger
    OrphanCleanupSafe
