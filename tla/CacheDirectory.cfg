\* Two processes, two starts of each, one file of each class.
CONSTANTS
    p1 = p1
    p2 = p2
    entry = entry
    legacy = legacy
    temp = temp
    foreign = foreign
    Procs = {p1, p2}
    Files = {entry, legacy, temp, foreign}
    Class <- MCClass
    Marker = Marker
    MaxStarts = 2
    Ports = {1, 2, 3, 4, 5, 6}
    Settings <- MCSettings
    Mega = 10
    MaxU64 = 255
    None = None
SPECIFICATION SafeSpec
SYMMETRY MCSymmetry
INVARIANTS
    TypeOK
    LiveWritesKept
    UnownedUntouched
    ReadyBeforeClaim
PROPERTY ForeignKept
