SPECIFICATION Spec
CONSTANTS
  None = None
  Recent = 1
  KeepDays = 0
  KeepMonths = 0
  DaysInMonth = 2
  Records = {r1, r2}
  Digests = {1, 2}
  Shards = {1, 2}
  ShardOf <- ShardOfMC
  Profiles = {"LARGE_LOCAL"}
  HardLimit = 2
  Days = {0, 1}
  MaxRevision = 4
  Roadmaps = {1, 2}
  MaxEvents = 1
  MaxUpdates = 3
  MaxActive = 2
  MaxRecent = 1
  OwnerEntries <- OwnerEntriesMC
  Supervisors = {s1, s2}
  Plans <- PlansMC
  MaxRepairs = 2
  MaxGoalState = 4
  Outcomes = {1, 2}
  Waits <- WaitsMC
  Sources <- SourcesMC
  MaxAttempts = 2
  MaxFacts = 1
  Handoffs = {h1, h2}
  Routes = {"CONTINUE", "REQUEST_OWNER", "BLOCKED"}
  MaxState = 3
  Workers = {w1, w2}
  Items = {1, 2, 3, 4}
  Unidentified = {3}
  Cached = {4}
  BatchSize = 2
  Lease = 1
  MaxLeases = 5
  MaxTime = 3
  Keys = {1, 2, 3}
  Texts = {"t"}
  Metadata = {"m"}
  MaxChats = 3
  MaxNotes = 1
  Syncers = {g1, g2}
  MaxNativeEvents = 2
  MaxForeign = 1
  MaxSyncs = 3
INVARIANT TypeOK
INVARIANT StorageSound
INVARIANT RoadmapsRemembered
INVARIANT GoalsKept
INVARIANT GoalsTrue
INVARIANT HandoffSound
INVARIANT GivenOnce
INVARIANT ReplicaSound
CHECK_DEADLOCK FALSE
