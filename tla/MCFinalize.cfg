SPECIFICATION FinalizeSpec
CONSTANTS
    w1 = w1
    w2 = w2
    x = x
    y = y
    Works = {w1, w2}
    DependsOn <- MCDependsOn
    Files = {x, y}
    Required = {x}
    Drafts <- MCDrafts
    Branches = {main, b1, b2}
    Default = main
    None = None
    SpecPath = SpecPath
    Finalizers = {f1}
    MirrorIgnored = TRUE
    MaxCommits = 3
INVARIANTS RecordedOnBranch OneWorkPerCommit
