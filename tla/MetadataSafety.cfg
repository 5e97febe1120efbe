\* Two requests for one document, a third for another one, room for one entry.
CONSTANTS
    k1 = k1
    k2 = k2
    r1 = r1
    r2 = r2
    r3 = r3
    Keys = {k1, k2}
    Reqs = {r1, r2, r3}
    KeyOf <- MCKeyOf3
    Size <- MCSize
    MaxCacheSize = 1
    MaxUpstreamFetches = 2
    MaxArtifactFetches = 1
    IOFaults = {"write", "list", "remove"}
    MaxVersion <- MCOneChange
    Failed = Failed
    None = None
SPECIFICATION SafeSpec
SYMMETRY MCSymmetry
VIEW MCView
INVARIANTS
    TypeOK
    Freshness
    SingleFlight
    PermitAccounting
    LeftoversOnlyWhenCut
