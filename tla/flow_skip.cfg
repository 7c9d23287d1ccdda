SPECIFICATION Spec
CONSTANTS
  h1 = h1
  h2 = h2
  NoHost = NoHost
  Hosts = {h1}
  Last = 2
  DependsOn <- Independent
  Depth <- Ranks
  Class <- FirstStandalone
  Reasons = {1, 2}
  Gives <- GivesAll
  Points = {}
  Inputs = {}
  MaxStores = 1
  Crashable = {}
INVARIANT RestartSees
