SPECIFICATION TimelineSpec
CONSTANTS
    Clients = {a, b}
    RecordEpochs = {0, 10, 11, 12, 13}
    MaxNonBenign = 4
    DetectorShare = 1
    NuisanceShare = 1
    CalibrationShare = 6
    Shares = 10
    Horizon = 3
    Warmup = 2
    MergeGap = 1
    ActivityWindow = 1
    MinimumDuration = 1
    MinimumClients = 1
SYMMETRY ClientSymmetry
CHECK_DEADLOCK FALSE
INVARIANT EligibleCampaignsAreEvaluated
