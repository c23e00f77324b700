\* Two errors of any kind, a retry per request, three changes of the account.
\* _detect_region returns, so the last state has no successor.
SPECIFICATION Spec
CHECK_DEADLOCK FALSE
CONSTANTS
  v1 = v1
  v2 = v2
  a = a
  i = i
  s = s
  st = st
  NoValue = NoValue
  Volume = {v1, v2}
  Address = {a}
  Instance = {i}
  Snapshot = {s}
  Stack = {st}
  Accounts <- MCAccounts
  Source <- MCSource
  Devices <- MCDevices
  Members <- MCMembers
  Tagged = {v1}
  Protection <- MCProtection
  PageOf <- MCPageOf
  Attempts = 2
  Errors = {"denied", "unavailable", "failed", "unexpected"}
  MaxErrors = 2
  MaxChanges = 3
INVARIANTS
  TypeOK
  CompleteMeansAllRead
  CandidatesWereTrue
  OwnershipHonest
  MissingIsWarned
PROPERTY
  DetectionEnds
