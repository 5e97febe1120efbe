\* Two requests for two documents, room for one entry, no fault.
CONSTANTS
    k1 = k1
    k2 = k2
    r1 = r1
    r2 = r2
    r3 = r3
    Keys = {k1, k2}
    Reqs = {r1, r2}
    KeyOf <- MCKeyOf2
    Size <- MCSize
    MaxCacheSize = 1
    MaxUpstreamFetches = 2
    MaxArtifactFetches = 0
    IOFaults = {}
    MaxVersion <- MCNoChange
    Failed = Failed
    None = None
SPECIFICATION SafeSpec
INVARIANTS
    BoundWhenQuiet
