SPECIFICATION Spec
CONSTANTS
  p1 = p1
  p2 = p2
  t1 = t1
  t2 = t2
  Tasks = {t1, t2}
  Procs = {p1, p2}
  Kinds = {"proposal", "cancellation"}
  Proposed = {t1}
  MaxAttempts = 2
  MayFail = TRUE
  MayCrash = FALSE
  Workspace = workspace
  NoProc = NoProc
INVARIANT OneActiveTask
