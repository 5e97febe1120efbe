SPECIFICATION SafeSpec
CONSTANTS
    a = a
    b = b
    m = m
    a1 = a1
    oa = oa
    ob = ob
    om = om
    m1 = m1
    None = None
    Janitor = Janitor
    Invalid = Invalid
    Keys = {a, b, m}
    Readers = {r1}
    Old = {oa, ob, om}
    Torn = {oa}
    Metas <- MCMetas
    Writers <- MCWriters
    KeyOf <- MCKeyOf
    Kind <- MCKind
    Meta <- MCMeta
    Body <- MCBody
    OldTimes <- MCOldTimes
    MaxCacheSize = 36
    DiskFails = TRUE
INVARIANTS
    TypeOK
    ReadsAreWhole
    MissesHaveReason
    BoundWhenUncut
PROPERTIES
    EvictsOnlyWhenOver
    OldestFirst
