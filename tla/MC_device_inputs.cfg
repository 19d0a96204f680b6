CONSTANTS
    c1 = c1
    c2 = c2
    p1 = p1
    p2 = p2
    other = other
    Gone = Gone
    Nothing = Nothing
    ComputeUnits = 3
    MemoryBytes = 4194304
    DeviceSplitCount = 2
    Pods = {p1, p2}
    Containers = 2
    Domains = {0, 1}
    Buses = {"03:00.0"}
    Claims = {c1, c2}
    Asks <- Amounts
    PodKinds <- SomePods
    ReservedFor <- SomeLists
    Systems <- SomeSystems
    Reports <- SomeReports
SPECIFICATION Spec
SYMMETRY ClaimSymmetry
INVARIANTS
    TypeOK
    
    VHCUWorthItsCharge
    HolderUsesClaim
    SearchFinds
    EntryOfItsCard
