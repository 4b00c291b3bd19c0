SPECIFICATION MetricsSpec
CONSTANTS
    NumWorks = 2
    NumBeads = 4
    WorkOf <- MCWorkOf
    NumAgents = 2
    TicksCap = 2
    MaxDuration = 2
    DurationChoices <- MCDurations
    MaxScripted = 2
    AreaOf <- MCAreaOf
    NoArea = "none"
    WarmupShare = 2
    Rework = {3}
    WeightSets <- MCWeights
INVARIANTS OneBeadPerAgent WorkConserving AgentTicksAccounted CollisionsAreOverlaps
    FinishedWorksCounted PoliciesServe
PROPERTIES RunEnds
CHECK_DEADLOCK FALSE
