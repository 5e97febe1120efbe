\* Two requests for one artifact beside an older entry, two metadata stores that scan.
CONSTANTS
    k1 = k1
    k2 = k2
    r1 = r1
    r2 = r2
    Keys = {k1, k2}
    Reqs = {r1, r2}
    KeyOf <- MCKeyOf2
    Size <- MCSize
    MaxCacheSize = 1
    MaxUpstreamFetches = 2
    IOFaults = {"list", "remove"}
    Abortable = {}
    MetadataBytes = {0, 1}
    MaxCrashes = 0
    MaxStores = 2
    Old = Old
    None = None
SPECIFICATION SafeSpec
SYMMETRY MCSymmetry
VIEW MCView
INVARIANTS
    SingleFlight
    PinnedHandoff
