SPECIFICATION FairReportsSpec
CONSTANTS
    NumWorks = 2
    Beads = {bead}
    Procs = {p1, p2}
    None = None
    Torn = Torn
    Garbled = Garbled
    Commands = {"resume", "pin"}
    Serial = FALSE
    Killable = {}
INVARIANTS ReportsHold
PROPERTIES CommandsEnd
CHECK_DEADLOCK FALSE
