\* Two requests for one artifact beside an older entry; aborts, faults, crashes.
CONSTANTS
    k1 = k1
    k2 = k2
    r1 = r1
    r2 = r2
    Keys = {k1, k2}
    Reqs = {r1, r2}
    KeyOf <- MCKeyOf2
    Size <- MCSize
    MaxCacheSize = 1
    MaxUpstreamFetches = 1
    IOFaults = {"read", "write"}
    Abortable = {r1, r2}
    MetadataBytes = {0, 1}
    MaxCrashes = 2
    MaxStores = 1
    Old = Old
    None = None
SPECIFICATION SafeSpec
SYMMETRY MCSymmetry
VIEW MCView
INVARIANTS
    TypeOK
    TempOwned
    PermitAccounting
    BoundWhenQuiet
