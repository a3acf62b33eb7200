SPECIFICATION FairSpec
CONSTANTS
    Experiments <- MCExperiments
    StrongLocal <- MCStrongLocal
    EvaluationOf <- MCEvaluationOf
    AnalysisOf <- MCAnalysisOf
    Runners = {r1}
    Data = 3
    Testable = {1, 3}
    WithCampaigns = {1}
    MaxDisturbances = 3
    None = None
CHECK_DEADLOCK FALSE
INVARIANTS
    FamilyInvariant
PROPERTIES
    AcceptedEvidenceIsExported
