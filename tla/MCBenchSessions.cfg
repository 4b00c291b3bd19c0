SPECIFICATION BenchSpec
CONSTANTS
  drafting = drafting
  ready = ready
  draft = draft
  Works = {w1}
  Statuses = {drafting, ready}
  InitialStatus = drafting
  Outputs <- MCOutputs
  SessionIds = {s1}
  Anonymous = anonymous
  NoSession = NoSession
  Beads = {}
  Artifacts = {draft}
  UserLabels = {}
  AutoLabel = auto
  PreRestore = prerestore
  SnapshotsEnabled = TRUE
  MaxSnapshots = 2
  MaxSessions = 2
  MaxClock = 1
  NoSpec = NoSpec
  NoSnap = NoSnap
  Absent = Absent
  Reused = {}
INVARIANTS TypeOK SessionsConsistent
PROPERTIES SessionLogGrows LeaseRefined PruneKeepsNewest
