SPECIFICATION LocalizeSpec
CONSTANTS
    w1 = w1
    w2 = w2
    w3 = w3
    Works = {w1, w2, w3}
    Localizers = {l1}
    Creators = {c1, c2}
    None = None
    MaxFaults = 2
    Archived = {w3}

PROPERTIES AreasKept
CHECK_DEADLOCK FALSE
