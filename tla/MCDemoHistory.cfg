\* The API with its restarts, a command, two PATCH requests.
SPECIFICATION Spec
CONSTANTS
  c1 = c1
  r1 = r1
  r2 = r2
  ebs = ebs
  eip = eip
  NoValue = NoValue
  Command = {c1}
  Request = {r1, r2}
  DemoSeed = {TRUE, FALSE}
  Detector = {ebs, eip}
  Days = {1, 2}
  DefaultDays <- MCDefaultDays
  Concurrency = {3}
  DefaultConcurrency = 3
  DaysBefore <- MCDaysBefore
  MaxClock = 1
  MaxScans = 4
SYMMETRY Symmetry
INVARIANTS
  TypeOK
  SeededInOrder
  SettingsAsAcknowledged
