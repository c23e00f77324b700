\* Two identities in two cells, three instants, two settings.
SPECIFICATION Spec
CONSTANTS
  volume = volume
  instance = instance
  volumeCell = volumeCell
  instanceCell = instanceCell
  Identity = {volume, instance}
  Cell = {volumeCell, instanceCell}
  CellOf <- TwoCellOf
  DetectorOf <- TwoDetectorOf
  Time <- ThreeInstants
  Candidates <- TwoCandidates
  SettingsChoices <- MCSettingsChoices
  TicksPerDay = 2
INVARIANTS
  TypeOK
  CountsMatchHistory
  StreakUninterrupted
  ResolvedByFirstAbsence
  GuardedScriptJustified
PROPERTY
  ImplementsLifecycle
CHECK_DEADLOCK FALSE
