SPECIFICATION FairSpec
CONSTANTS
  t1 = t1
  t2 = t2
  v1 = v1
  v2 = v2
  Targets = {t1, t2}
  Receipt = receipt
  Values = {v1}
  Absent = absent
  WriterMayCrash = TRUE
  RecoveryMayCrash = FALSE
  IOMayFail = FALSE
  OperatorWaits = FALSE
CHECK_DEADLOCK FALSE
PROPERTY RecoveryCompletes
