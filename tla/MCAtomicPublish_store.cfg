CONSTANTS
    d1 = d1
    d2 = d2
    Writers = {w1, w2}
    Destinations = {d1, d2}
    FileNames = {"a.json"}
    FileName <- SameNames
    Contents = {c1, c2}
    Inodes = {i1, i2, i3, i4, i5, i6, i7, i8}
    Absent = Absent
    Retries = 2
    MaxCommands = 3
    MaxFaults = 3
CHECK_DEADLOCK FALSE
SPECIFICATION FairSpec
INVARIANTS
    TypeOK
    DestinationsAreWhole
    RetriesAbsorbInterference
PROPERTIES
    EventuallyPublished
    ImplementsAtomicStore
