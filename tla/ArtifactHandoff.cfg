\* Two requests for one artifact beside an older entry.
CONSTANTS
    k1 = k1
    k2 = k2
    r1 = r1
    r2 = r2
    Keys = {k1, k2}
    Reqs = {r1, r2}
    KeyOf <- MCKeyOf2
    Size <- MCSize
    MaxCacheSize = 1
    MaxUpstreamFetches = 1
    IOFaults = {}
    Abortable = {}
    MetadataBytes = {0}
    MaxCrashes = 0
    MaxStores = 0
    Old = Old
    None = None
SPECIFICATION SafeSpec
INVARIANT PinnedThroughHandoff
