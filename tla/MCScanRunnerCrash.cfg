\* Two requests and a process that may die: what a 409 means after a restart.
SPECIFICATION Spec
CONSTANTS
  Request = {r1, r2}
  NoScan = NoScan
  Faults = {"crash"}
PROPERTY
  ConflictMeansActive
CHECK_DEADLOCK FALSE
