SPECIFICATION FairSpec
CONSTANTS
  w1 = w1
  w2 = w2
  d1 = d1
  r1 = r1
  Writers = {w1, w2}
  Doctors = {d1}
  Recoverers = {}
  Crashable = {}
  EndMayFail = TRUE
  OperatorWaits = TRUE
  Inodes = {i1, i2}
  LockIds = {k1, k2}
  NoInode = NoInode
  NoProc = NoProc
  NoId = NoId
PROPERTY LockReleased
