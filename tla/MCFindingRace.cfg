\* The scans of the API, one after another, against two PATCH requests.
SPECIFICATION Spec
CONSTANTS
  Scanner = {api}
  Patcher = {p1, p2}
  Candidates <- MCCandidates
  MaxClock = 5
  TicksPerDay = 1
SYMMETRY PatcherSymmetry
INVARIANT
  RowTellsHistory
PROPERTY
  DismissalOutlivesScan
CHECK_DEADLOCK FALSE
