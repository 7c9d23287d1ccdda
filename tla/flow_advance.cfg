SPECIFICATION Spec
CONSTANTS
  h1 = h1
  h2 = h2
  NoHost = NoHost
  Hosts = {h1, h2}
  Last = 2
  DependsOn <- Independent
  Depth <- Ranks
  Class <- FirstStandalone
  Reasons = {1, 2}
  Gives <- GivesAdvances
  Points = {}
  Inputs = {}
  MaxStores = 1
  Crashable = {h1}
INVARIANT TypeOK
INVARIANT AppliedOnce
PROPERTY FlowImplementsRoadmap
