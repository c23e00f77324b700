\* Every script of four selections; every call may fail but the bulk script's
\* reading of tags.
SPECIFICATION Spec
CONSTANTS
  volume = volume
  address = address
  home = home
  other = other
  Resource = {volume, address}
  Volume = {volume}
  Account = {home, other}
  Selections <- MCSelections
  Faults = {"call"}
INVARIANTS
  TypeOK
  ReportsAreTrue
  SnapshotPrecedesDeletion
PROPERTY
  DestroyedWasFree
CHECK_DEADLOCK FALSE
