SPECIFICATION Spec
CONSTANTS
    a = a
    b = b
    Clients = {a, b}
    Coalitions <- MCCoalitions
    MaximumOrder = 2
    Atoms = {0, 2}
    Abstained = Abstained
    None = None
    Candidates = {12, 30}
    AllowedFalseStops = 1
    TrailingWindow = 2
    MinimumClients = 2
    Policies <- MCPolicies
    Horizon = 4
    HorizonCount = 2
CHECK_DEADLOCK FALSE
INVARIANTS
    DecisionInvariant
    OnlineAgreesWithTrajectory
    CalibratedThresholdIsSharp
PROPERTIES
    VerdictsAreFinal
