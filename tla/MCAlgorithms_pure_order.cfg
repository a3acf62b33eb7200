SPECIFICATION PureOrderSpec
CONSTANTS
    Expected = {1, 2, 3}
    Tolerance = 1
    Unit = 2
    Alpha <- MCAlpha
    MinimumRate = 1
    MinimumAdvantage = 1
    MinimumLead = 2
    Floor = 1
    None = None
    Clients = {1, 2, 3}
    Nuisance <- MCNuisance
    Lag = 1
    MinimumOutside = 1
    OutsideShare <- MCOutsideShare
    Bins = {0, 1}
    Cells = {0, 1}
    RowLimit = 3
    Support <- MCSupport
    CrossFolds = 2
    RidgeFolds = 2
    Nothing = Nothing
    NoMetric = NoMetric
    Folds = 2
    GridCells <- MCGridCells
    Scales <- MCScales
    Fractions <- MCFractions
    Nobody = Nobody
    Deviations <- MCDeviations
    MaxSample = 4
    PValues = {1, 2, 3, 8}
    MaxFamily = 4
    Scale = 8
    Studies <- MCStudies
    Windows <- MCWindows
    EventCounts = {0, 1}
    Scores = {1, 2, 3}
    MaxEpochs = 4
    Fits <- MCFits
    Errors = {0, 1, 2, 3, 4}
    Tolerances = {0, 1}
    MaxCandidates = 4
    Tasks <- MCTasks
    MaxTasks = 3
    NativeOrder <- MCNativeOrder
    Drift = 1
    Whole = 2
    AcceptedStops = 1
    AllowedStops = 1
    NoPolicy = NoPolicy
    FullFactor = 2
    Comparisons <- MCComparisons
    Factors = {1, 2, 4}
    Thresholds = {1, 3, 4, 6, 10}
    MaxHorizon = 4
    Candidates <- MCCandidates
    Policies <- MCPolicies
    Layouts <- MCLayouts
    Passes <- MCPasses
    Rows <- MCRows
    MaxRows = 4
    Density = 4
    ContextMethods = {"oracle", "exact", "inclusive", "leave_one_out", "partial"}
    ClientCounts = {4, 5}
    MeanUnit = 60
    Perturbations <- MCPerturbations
    MaximumOrder = 3
    Settling = 0
    Supports <- MCSupports
    OneFactorSupports <- MCOneFactorSupports
    MainSupport = 1
    Unset = Unset
    Development <- MCDevelopment
    HofdConditions <- MCHofdConditions
    Limits <- MCLimits
    Effects <- MCEffects
    Explanations <- MCExplanations
    Worlds <- MCWorlds
    Sizes <- MCSizes
    Dropouts <- MCDropouts
    Paths <- MCPaths
    Claims <- MCClaims
CHECK_DEADLOCK FALSE
INVARIANT LookedUpRanksAreThoseAsked
