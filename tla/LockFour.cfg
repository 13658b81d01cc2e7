SPECIFICATION Spec
CONSTANTS
  p1 = p1
  p2 = p2
  p3 = p3
  p4 = p4
  None = None
  Proc = {p1, p2, p3, p4}
  Pid = {p1, p2, p3, p4}
  PidOf <- ReusedPid
SYMMETRY Alike
INVARIANTS
  TypeOK
  MutualExclusion
  LeftLockCanBeReclaimed
PROPERTY
  LiveLockRemovedByOwner
CHECK_DEADLOCK FALSE
