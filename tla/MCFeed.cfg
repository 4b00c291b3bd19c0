SPECIFICATION FeedSpec
CONSTANTS
    b1 = b1
    b2 = b2
    a1 = a1
    a2 = a2
    NumWorks = 3
    Beads = {b1, b2}
    Rework = {b2}
    LastStage = 2
    DepChoices <- MCDeps
    FilterChoices <- MCFilters
    ArchivedChoices <- MCArchived
    FanOutWeight = 600
    MomentumWeight = 300
    ReworkWeight = 900
    CreationWeight = 6
    Agents = {a1, a2}
    Flags <- MCFlags
    MaxChanges = 1
    None = None
INVARIANTS EmptyMeansDone CriticalPathLongest
PROPERTIES FeedDrains
