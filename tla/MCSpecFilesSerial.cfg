SPECIFICATION ReportsSpec
CONSTANTS
    NumWorks = 2
    Beads = {bead1, bead2}
    Procs = {p1, p2}
    None = None
    Torn = Torn
    Garbled = Garbled
    Commands = {"resume", "shelve", "pin"}
    Serial = TRUE
    Killable = {"pin"}
SYMMETRY Symmetry
INVARIANTS NeverTorn SinglePinOwner ReportsHold
