CONSTANTS
    First = p1
    Second = p2
    Passes = {p1, p2}
    Definitions <- ConfigurationEdits
    NoFile = NoFile
    Garbage = Garbage
    MaxRaw = 2
    MaxDisturbances = 2
SPECIFICATION InstanceSpec
INVARIANTS
    TypeOK
    ReuseIsExact
PROPERTIES
    ReusableBytesAreKept
    PreprocessingConverges
