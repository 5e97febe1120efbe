\* Two requests for one artifact that exceeds the bound; one flight may be aborted.
CONSTANTS
    k1 = k1
    k2 = k2
    r1 = r1
    r2 = r2
    Keys = {k1}
    Reqs = {r1, r2}
    KeyOf <- MCKeyOf2
    Size <- MCOversize
    MaxCacheSize = 1
    MaxUpstreamFetches = 1
    IOFaults = {}
    Abortable = {r1}
    MetadataBytes = {0}
    MaxCrashes = 0
    MaxStores = 1
    Old = Old
    None = None
SPECIFICATION Spec
PROPERTIES
    EveryRequestEnds
    BoundRestored
