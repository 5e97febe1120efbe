\* Bodies of at most 2 MiB, 4 MiB of memory, the rewrite of PyPI pages.
CONSTANTS
    m1 = m1
    m2 = m2
    s1 = s1
    a1 = a1
    h1 = h1
    Reqs = {m1, m2, s1, a1, h1}
    Kind <- MCKind
    Rewrite = "pypi"
    Growth = 1
    NpmFactor = 12
    MaxUpstreamFetches = 2
    Budget = 4
    MaxBody = 2
    None = None
SPECIFICATION SafeSpec
SYMMETRY MCSymmetry
VIEW MCView
INVARIANTS
    TypeOK
    MemoryBounded
    AllReturned
    SomebodyFits
