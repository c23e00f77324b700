\* Three requests and every fault, under the
\* fairness of threads (no symmetry: liveness is checked).  Requests end.
SPECIFICATION FairSpec
CONSTANTS
  Request = {r1, r2, r3}
  NoScan = NoScan
  Faults = {"crash", "thread", "database", "identity", "reset"}
INVARIANTS
  TypeOK
  SingleFlight
  OneRunningRow
PROPERTIES
  FinishedIsFinal
  WaitedScanIsFinished
  ScansEnd
  RequestsAnswered
CHECK_DEADLOCK FALSE
