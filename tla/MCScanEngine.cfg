\* Every way of selecting regions, every fault; two threads for three regions.
SPECIFICATION FairSpec
CONSTANTS
  east = east
  west = west
  south = south
  typo = typo
  NoRegions = NoRegions
  Region <- MCRegion
  Detectors <- MCDetectors
  Discovered <- MCDiscovered
  NotOptedIn <- MCNotOptedIn
  Requests <- MCRequests
  Configured <- MCConfigured
  MaxConcurrency = 2
  Faults = {"identity", "discovery", "raise"}
INVARIANTS
  TypeOK
  OnlySeenIsReconciled
  StatusTellsCoverage
PROPERTIES
  ImplementsAtomicScan
  ScanEnds
CHECK_DEADLOCK FALSE
