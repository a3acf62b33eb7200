SPECIFICATION FairHarnessSpec
CONSTANTS
    ClientCounts <- MCClientCounts
    Seeds <- MCSeeds
    Machines = {"m1", "m2"}
    Materials = {"c1", "c2"}
    Semantics = {"s1", "s2"}
    Timings = {1, 2}
    None = None
    MaxUpsets = 3
INVARIANTS
    HarnessSafety
    PublishedAggregatesAreWhole
PROPERTIES
    HarnessConverges
