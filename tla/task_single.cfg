SPECIFICATION Spec
CONSTANTS
  p1 = p1
  p2 = p2
  t1 = t1
  t2 = t2
  Tasks = {t1, t2}
  Procs = {p1, p2}
  Kinds = {"proposal", "owner-approval", "cancellation", "superseded"}
  Proposed = {}
  MaxAttempts = 2
  MayFail = FALSE
  MayCrash = FALSE
  Workspace = workspace
  NoProc = NoProc
INVARIANT OneActiveTask
PROPERTY DiskImplementsBoard
