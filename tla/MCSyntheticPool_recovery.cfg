SPECIFICATION FairSpec
CONSTANTS
    None = None
    CellCount = 5
    DispatchOf <- MCShared
    Workers = 1
    Unreliable = {1}
    First <- MCFirst
    Losable = {2}
    Materials = {m1, m2}
    Semantics = {s1}
    MaxDisturbances = 2
INVARIANTS
    PoolInvariant
PROPERTIES
    ResumeNeverRecomputes
    CompletionIsPublishedLast
    PoolConverges
