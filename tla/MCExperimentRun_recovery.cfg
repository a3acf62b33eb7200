SPECIFICATION FairSpec
CONSTANTS
    emhi = emhi
    comparator = comparator
    m1 = m1
    s1 = s1
    s2 = s2
    None = None
    Runners = {r1, r2}
    EmhiCells = {emhi}
    ComparatorCells = {comparator}
    TaskOf <- MCTaskOf
    Confirmatory <- MCConfirmatory
    Pairs <- MCPairs
    Materials = {m1}
    CellsOf <- MCSameCells
    Semantics <- MCSemantics
    First <- MCFirst
    MaxUpstream = 2
    MaxDisturbances = 2
INVARIANTS
    RunInvariant
    ReportedEvidenceIsCurrent
PROPERTIES
    CompletedEmhiCellsAreKept
    ExperimentConverges
