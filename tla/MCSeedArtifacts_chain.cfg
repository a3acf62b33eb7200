SPECIFICATION FairSpec
CONSTANTS
    Materializers = {c1}
    MaxDefinition = 2
    MaxVersion = 2
    Retries = 1
    None = None
    Garbage = Garbage
    MaxDisturbances = 3
INVARIANTS
    ChainInvariant
PROPERTIES
    ChainConverges
