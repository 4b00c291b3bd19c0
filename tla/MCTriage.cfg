SPECIFICATION TriageSpec
CONSTANTS
    b1 = b1
    b2 = b2
    cohort = cohort
    work1 = work1
    work2 = work2
    loop1 = loop1
    other = other
    NumWorks = 2
    Beads = {b1, b2}
    Labels = {cohort, work1, work2}
    LabelSets <- MCLabelSets
    Tier1 = {cohort}
    Named <- MCNamed
    Containing <- MCContaining
    Fallback <- MCFallback
    Loop = loop1
    Others = {other}
    MaxChanges = 1
    Never = Never
INVARIANTS CleanIsTriaged
PROPERTIES LateChangesReported SuggestionHelps Converges
