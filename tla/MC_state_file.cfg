CONSTANTS
    m0 = m0
    m1 = m1
    m2 = m2
    rpc = rpc
    maint = maint
    Nobody = Nobody
    Missing = Missing
    Blank = Blank
    Garbled = Garbled
    Maps = {m0, m1, m2}
    Empty = m0
    Writers = {rpc, maint}
SPECIFICATION Spec
INVARIANTS
    TypeOK
    NeverCorrupt
PROPERTIES
    ImplementsRegister
