SPECIFICATION TranscriptsSpec
CONSTANTS
    f1 = f1
    a1 = a1
    bead = bead
    subtask = subtask
    None = None
    Files = {f1}
    SubAgents = {a1}
    FileOf <- MCFileOf
    BeadOf <- MCBeadOf
    Beads = {bead, subtask}
    ParentOf <- MCParentOf
    Nexts = {n1, n2}
    Failing = {}
    Floor = 1
    Day = 0
    MaxClock = 1
SYMMETRY Symmetry
INVARIANTS CacheNeverStale NoFalseAlarm AbandonedReported
