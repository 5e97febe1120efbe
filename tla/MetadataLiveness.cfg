\* Two requests for one document, a third for another one, two permits: two leaders
\* store at once, and every store evicts.
CONSTANTS
    k1 = k1
    k2 = k2
    r1 = r1
    r2 = r2
    r3 = r3
    Keys = {k1, k2}
    Reqs = {r1, r2, r3}
    KeyOf <- MCKeyOf3
    Size <- MCSizeOver
    MaxCacheSize = 1
    MaxUpstreamFetches = 2
    MaxArtifactFetches = 1
    IOFaults = {}
    MaxVersion <- MCNoChange
    Failed = Failed
    None = None
SPECIFICATION Spec
PROPERTIES
    EveryRequestEnds
