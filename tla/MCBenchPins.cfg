SPECIFICATION BenchSpec
CONSTANTS
  drafting = drafting
  ready = ready
  draft = draft
  Works = {w1, w2}
  Statuses = {drafting}
  InitialStatus = drafting
  Outputs <- MCOutputs
  SessionIds = {}
  Anonymous = anonymous
  NoSession = NoSession
  Beads = {b1}
  Artifacts = {}
  UserLabels = {}
  AutoLabel = auto
  PreRestore = prerestore
  SnapshotsEnabled = TRUE
  MaxSnapshots = 2
  MaxSessions = 1
  MaxClock = 0
  NoSpec = NoSpec
  NoSnap = NoSnap
  Absent = Absent
  Reused = {w1}
PROPERTIES PinTakesOwnership ArchiveUntouched
