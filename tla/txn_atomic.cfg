SPECIFICATION Spec
CONSTANTS
  t1 = t1
  t2 = t2
  v1 = v1
  v2 = v2
  Targets = {t1, t2}
  Receipt = receipt
  Values = {v1, v2}
  Absent = absent
  WriterMayCrash = TRUE
  RecoveryMayCrash = TRUE
  IOMayFail = TRUE
  OperatorWaits = TRUE
CHECK_DEADLOCK FALSE
INVARIANT TypeOK
INVARIANT DiagnosisIsSound
PROPERTY ImplementsAtomicMutation
