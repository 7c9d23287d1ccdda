SPECIFICATION Spec
CONSTANTS
  h1 = h1
  h2 = h2
  NoHost = NoHost
  Hosts = {h1, h2}
  Last = 2
  DependsOn <- Chained
  Depth <- Ranks
  Class <- FirstStandalone
  Reasons = {1}
  Gives <- GivesAll
  Points = {1}
  Inputs = {1}
  MaxStores = 2
  Crashable = {}
SYMMETRY Symmetry
INVARIANT StoreHealthy
