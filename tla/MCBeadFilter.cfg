SPECIFICATION FilterSpec
CONSTANTS
    b1 = b1
    b2 = b2
    plain = plain
    prefixed = prefixed
    default = default
    BeadIDs = {b1, b2}
    Labels = {plain, prefixed, default}
    Candidates = {plain, prefixed}
    DefaultLabel = default
    Clause = {plain, prefixed, templated}
    Templated = templated
    templated = templated
    Editors = {e1}
    Bootstrappers = {f1}
    Unknown = Unknown
    AbsoluteFloor = 2
    MemberFloor = 1
    MaxLeaves = 2
SYMMETRY Symmetry
INVARIANTS Canonical EditApplied BootstrapAttaches
PROPERTIES KeepsAttached
